------------------------------ MODULE AeadProofs ------------------------------
(***************************************************************************)
(* Theorems about Aead for every block size, every number of counter       *)
(* values, every message and every way of cutting it.                      *)
(***************************************************************************)
EXTENDS Aead, FiniteSetTheorems, SequenceTheorems, WellFoundedInduction, TLAPS

-----------------------------------------------------------------------------
(* Induction, sequences and loops.                                         *)

\* Induction over the natural numbers for a set.
LEMMA SetInduction ==
  ASSUME NEW S, 0 \in S, \A n \in Nat : n \in S => n + 1 \in S
  PROVE  \A n \in Nat : n \in S
  <1>. DEFINE T == Nat \ S
              Less == OpToRel(<, Nat)
  <1>. SUFFICES ASSUME T # {} PROVE FALSE
    OBVIOUS
  <1>1. IsWellFoundedOn(Less, Nat)
    BY NatLessThanWellFounded DEF OpToRel
  <1>2. \A m, n \in Nat : m < n => <<m, n>> \in Less
    BY DEF OpToRel
  <1>. HIDE DEF Less
  <1>3. PICK n \in T : \A m \in T : ~ (<<m, n>> \in Less)
    BY <1>1, WFMin
  <1>4. n # 0 /\ n - 1 \in Nat /\ n - 1 < n
    BY <1>3
  <1>5. n - 1 \notin T
    BY <1>2, <1>3, <1>4
  <1>. QED BY <1>3, <1>4, <1>5

\* A function on 1..n is a sequence.
LEMMA FunIsSeq ==
  ASSUME NEW T, NEW n \in Nat, NEW f \in [1..n -> T]
  PROVE  f \in Seq(T) /\ Len(f) = n
  OBVIOUS

\* Sequences with the same elements are the same.
LEMMA SeqSame ==
  ASSUME NEW T, NEW s \in Seq(T), NEW t \in Seq(T), Len(s) = Len(t),
         \A i \in 1..Len(s) : s[i] = t[i]
  PROVE  s = t
  OBVIOUS

\* The first k values of a function.
Front(f, k) == [i \in 1..k |-> f[i]]

\* A sequence is its front with its last element appended.
LEMMA FrontGrows ==
  ASSUME NEW k \in Nat, NEW f
  PROVE  Front(f, k + 1) = Append(Front(f, k), f[k + 1])
  <1>. DEFINE T == {f[i] : i \in 1..(k + 1)}
  <1>1. Front(f, k) \in [1..k -> T] /\ Front(f, k + 1) \in [1..(k + 1) -> T]
    BY DEF Front
  <1>2. PICK s : s = Front(f, k)
    OBVIOUS
  <1>3. PICK t : t = Front(f, k + 1)
    OBVIOUS
  <1>4. PICK x \in T : x = f[k + 1]
    OBVIOUS
  <1>5. /\ t[k + 1] = x
        /\ \A i \in 1..k : t[i] = s[i]
    BY <1>2, <1>3, <1>4 DEF Front
  <1>. HIDE DEF T
  <1>6. s \in Seq(T) /\ Len(s) = k /\ t \in Seq(T) /\ Len(t) = k + 1
    BY <1>1, <1>2, <1>3, FunIsSeq
  <1>7. PICK h : h = Append(s, x)
    OBVIOUS
  <1>8. /\ h \in Seq(T) /\ Len(h) = k + 1 /\ h[k + 1] = x
        /\ \A i \in 1..k : h[i] = s[i]
    BY <1>4, <1>6, <1>7
  <1>9. \A i \in 1..(k + 1) : t[i] = h[i]
    BY <1>5, <1>8
  <1>10. t = h
    BY <1>6, <1>8, <1>9, SeqSame
  <1>. QED BY <1>2, <1>3, <1>4, <1>7, <1>10

\* The bodies of the loops, by name.
Turn(call, c, b) ==
  CASE call = "gcm-aad"    -> GcmAadByte(c, b)
    [] call = "gcm-seal"   -> GcmSealByte(c, b)
    [] call = "gcm-open"   -> GcmOpenByte(c, b)
    [] call = "cha-seal"   -> ChaSealByte(c, b)
    [] call = "cha-open"   -> ChaOpenByte(c, b)
    [] call = "ascon-seal" -> AsconSealByte(c, b)
    [] call = "ascon-open" -> AsconOpenByte(c, b)

After(call, x, b) ==
  [ctx |-> Turn(call, x.ctx, b).ctx, out |-> Append(x.out, Turn(call, x.ctx, b).out)]

IsLoop(call, c, in, f) ==
  f = [i \in 0..Len(in) |-> IF i = 0 THEN [ctx |-> c, out |-> <<>>]
                            ELSE After(call, f[i - 1], in[i])]

\* The contexts C and the bytes O are those of a loop that begins with c.
Runs(call, c, in, C, O) ==
  /\ Len(in) \in Nat /\ C[0] = c
  /\ \A i \in 1..Len(in) :
       Turn(call, C[i - 1], in[i]) = [ctx |-> C[i], out |-> O[i]]

\* What is true of one turn after the other is the loop, the only one.
LEMMA LoopGives ==
  ASSUME NEW call, NEW c, NEW in, NEW C, NEW O, Runs(call, c, in, C, O)
  PROVE  /\ \E f : IsLoop(call, c, in, f)
         /\ \A f : IsLoop(call, c, in, f) =>
              f[Len(in)] = [ctx |-> C[Len(in)], out |-> Front(O, Len(in))]
  <1>. DEFINE n == Len(in)
              X(i) == [ctx |-> C[i], out |-> Front(O, i)]
  <1>1. n \in Nat
    BY DEF Runs
  <1>2. X(0) = [ctx |-> c, out |-> <<>>]
    BY DEF Runs, Front
  <1>3. ASSUME NEW i \in 1..n PROVE X(i) = After(call, X(i - 1), in[i])
    <2>1. Turn(call, C[i - 1], in[i]) = [ctx |-> C[i], out |-> O[i]]
      BY DEF Runs
    <2>2. PICK k \in Nat : k = i - 1 /\ i = k + 1
      BY <1>1
    <2>3. Front(O, k + 1) = Append(Front(O, k), O[k + 1])
      BY FrontGrows
    <2>4. PICK x : x = X(i - 1)
      OBVIOUS
    <2>5. x.ctx = C[i - 1] /\ x.out = Front(O, i - 1)
      BY <2>4
    <2>6. PICK t : t = Turn(call, C[i - 1], in[i])
      OBVIOUS
    <2>7. t.ctx = C[i] /\ t.out = O[i]
      BY <2>1, <2>6
    <2>8. Front(O, i) = Append(Front(O, i - 1), O[i])
      BY <2>2, <2>3, Zenon
    <2>9. After(call, x, in[i]) = [ctx |-> C[i], out |-> Append(Front(O, i - 1), O[i])]
      BY <2>5, <2>6, <2>7, Zenon DEF After
    <2>. QED BY <2>4, <2>8, <2>9, Zenon
  <1>. HIDE DEF X
  <1>4. IsLoop(call, c, in, [i \in 0..n |-> X(i)])
    <2>. DEFINE g == [i \in 0..n |-> X(i)]
    <2>1. \A i \in 0..n : X(i) = IF i = 0 THEN [ctx |-> c, out |-> <<>>]
                                 ELSE After(call, g[i - 1], in[i])
      <3>. SUFFICES ASSUME NEW i \in 0..n, i # 0 PROVE X(i) = After(call, g[i - 1], in[i])
        BY <1>2
      <3>1. i \in 1..n /\ i - 1 \in 0..n
        BY <1>1
      <3>. QED BY <1>3, <3>1
    <2>2. g = [i \in 0..n |-> IF i = 0 THEN [ctx |-> c, out |-> <<>>]
                              ELSE After(call, g[i - 1], in[i])]
      BY <2>1, Zenon
    <2>. QED BY <2>2, Zenon DEF IsLoop
  <1>5. ASSUME NEW f, IsLoop(call, c, in, f) PROVE f[n] = X(n)
    <2>. DEFINE S == {k \in Nat : k <= n => f[k] = X(k)}
    <2>1. \A i \in 0..n : f[i] = IF i = 0 THEN [ctx |-> c, out |-> <<>>]
                                 ELSE After(call, f[i - 1], in[i])
      <3>1. f = [i \in 0..n |-> IF i = 0 THEN [ctx |-> c, out |-> <<>>]
                                ELSE After(call, f[i - 1], in[i])]
        BY <1>5, Zenon DEF IsLoop
      <3>. HIDE DEF n
      <3>. QED BY <3>1
    <2>2. 0 \in S
      BY <1>1, <1>2, <2>1
    <2>3. ASSUME NEW k \in Nat, k \in S PROVE k + 1 \in S
      <3>. SUFFICES ASSUME k + 1 <= n PROVE f[k + 1] = X(k + 1)
        OBVIOUS
      <3>1. k + 1 \in 0..n /\ k + 1 \in 1..n /\ k + 1 # 0 /\ k + 1 - 1 = k /\ f[k] = X(k)
        BY <1>1, <2>3
      <3>2. f[k + 1] = After(call, f[k + 1 - 1], in[k + 1])
        BY <2>1, <3>1
      <3>3. X(k + 1) = After(call, X(k + 1 - 1), in[k + 1])
        BY <1>3, <3>1
      <3>. QED BY <3>1, <3>2, <3>3
    <2>. HIDE DEF S
    <2>4. n \in S
      BY <1>1, <2>2, <2>3, SetInduction
    <2>. QED BY <1>1, <2>4 DEF S
  <1>. QED BY <1>4, <1>5, Zenon DEF X

\* There is a loop, however it begins and whatever it is given.
LEMMA LoopExists ==
  ASSUME NEW call, NEW c, NEW in, Len(in) \in Nat
  PROVE  \E f : IsLoop(call, c, in, f)
  <1>. DEFINE Upto(f, m) ==
                f = [i \in 0..m |-> IF i = 0 THEN [ctx |-> c, out |-> <<>>]
                                    ELSE After(call, f[i - 1], in[i])]
              S == {m \in Nat : \E f : Upto(f, m)}
  <1>1. 0 \in S
    <2>1. Upto([i \in 0..0 |-> [ctx |-> c, out |-> <<>>]], 0)
      OBVIOUS
    <2>. QED BY <2>1
  <1>2. ASSUME NEW m \in Nat, m \in S PROVE m + 1 \in S
    <2>1. PICK f : Upto(f, m)
      BY <1>2
    <2>. DEFINE g == [i \in 0..(m + 1) |-> IF i <= m THEN f[i]
                                          ELSE After(call, f[m], in[m + 1])]
    <2>. HIDE DEF Upto
    <2>2. \A i \in 0..(m + 1) : g[i] = IF i = 0 THEN [ctx |-> c, out |-> <<>>]
                                       ELSE After(call, g[i - 1], in[i])
      <3>1. \A i \in 0..m : f[i] = IF i = 0 THEN [ctx |-> c, out |-> <<>>]
                                   ELSE After(call, f[i - 1], in[i])
        BY <2>1 DEF Upto
      <3>. QED BY <3>1
    <2>3. Upto(g, m + 1)
      BY <2>2 DEF Upto
    <2>. QED BY <2>3
  <1>. HIDE DEF S
  <1>3. Len(in) \in S
    BY <1>1, <1>2, SetInduction
  <1>. QED BY <1>3 DEF S, IsLoop

\* The loop of gcm_aad.
LEMMA GcmAadLoop ==
  ASSUME NEW c, NEW in, NEW C, NEW O, Runs("gcm-aad", c, in, C, O)
  PROVE  Bytewise(GcmAadByte, c, in) = [ctx |-> C[Len(in)], out |-> Front(O, Len(in))]
  <1>. DEFINE Is(f) == f = [i \in 0..Len(in) |->
                              IF i = 0 THEN [ctx |-> c, out |-> <<>>]
                              ELSE LET r == GcmAadByte(f[i - 1].ctx, in[i])
                                   IN [ctx |-> r.ctx, out |-> Append(f[i - 1].out, r.out)]]
  <1>1. \A f : Is(f) <=> IsLoop("gcm-aad", c, in, f)
    <2>1. \A x, b : Turn("gcm-aad", x, b) = GcmAadByte(x, b)
      BY DEF Turn
    <2>2. ASSUME NEW f
          PROVE  [i \in 0..Len(in) |->
                    IF i = 0 THEN [ctx |-> c, out |-> <<>>]
                    ELSE LET r == GcmAadByte(f[i - 1].ctx, in[i])
                         IN [ctx |-> r.ctx, out |-> Append(f[i - 1].out, r.out)]]
                 = [i \in 0..Len(in) |->
                      IF i = 0 THEN [ctx |-> c, out |-> <<>>]
                      ELSE After("gcm-aad", f[i - 1], in[i])]
      BY <2>1, Zenon DEF After
    <2>. QED BY <2>2, Zenon DEF IsLoop
  <1>2. Bytewise(GcmAadByte, c, in) = (CHOOSE f : Is(f))[Len(in)]
    BY Zenon DEF Bytewise
  <1>. HIDE DEF Is
  <1>3. /\ \E f : IsLoop("gcm-aad", c, in, f)
        /\ \A f : IsLoop("gcm-aad", c, in, f) =>
             f[Len(in)] = [ctx |-> C[Len(in)], out |-> Front(O, Len(in))]
    BY LoopGives
  <1>4. Is(CHOOSE f : Is(f))
    BY <1>1, <1>3, Zenon
  <1>. QED BY <1>1, <1>2, <1>3, <1>4, Zenon

\* The loop of gcm_enc_update.
LEMMA GcmSealLoop ==
  ASSUME NEW c, NEW in, NEW C, NEW O, Runs("gcm-seal", c, in, C, O)
  PROVE  Bytewise(GcmSealByte, c, in) = [ctx |-> C[Len(in)], out |-> Front(O, Len(in))]
  <1>. DEFINE Is(f) == f = [i \in 0..Len(in) |->
                              IF i = 0 THEN [ctx |-> c, out |-> <<>>]
                              ELSE LET r == GcmSealByte(f[i - 1].ctx, in[i])
                                   IN [ctx |-> r.ctx, out |-> Append(f[i - 1].out, r.out)]]
  <1>1. \A f : Is(f) <=> IsLoop("gcm-seal", c, in, f)
    <2>1. \A x, b : Turn("gcm-seal", x, b) = GcmSealByte(x, b)
      BY DEF Turn
    <2>2. ASSUME NEW f
          PROVE  [i \in 0..Len(in) |->
                    IF i = 0 THEN [ctx |-> c, out |-> <<>>]
                    ELSE LET r == GcmSealByte(f[i - 1].ctx, in[i])
                         IN [ctx |-> r.ctx, out |-> Append(f[i - 1].out, r.out)]]
                 = [i \in 0..Len(in) |->
                      IF i = 0 THEN [ctx |-> c, out |-> <<>>]
                      ELSE After("gcm-seal", f[i - 1], in[i])]
      BY <2>1, Zenon DEF After
    <2>. QED BY <2>2, Zenon DEF IsLoop
  <1>2. Bytewise(GcmSealByte, c, in) = (CHOOSE f : Is(f))[Len(in)]
    BY Zenon DEF Bytewise
  <1>. HIDE DEF Is
  <1>3. /\ \E f : IsLoop("gcm-seal", c, in, f)
        /\ \A f : IsLoop("gcm-seal", c, in, f) =>
             f[Len(in)] = [ctx |-> C[Len(in)], out |-> Front(O, Len(in))]
    BY LoopGives
  <1>4. Is(CHOOSE f : Is(f))
    BY <1>1, <1>3, Zenon
  <1>. QED BY <1>1, <1>2, <1>3, <1>4, Zenon

\* The loop of gcm_dec_update.
LEMMA GcmOpenLoop ==
  ASSUME NEW c, NEW in, NEW C, NEW O, Runs("gcm-open", c, in, C, O)
  PROVE  Bytewise(GcmOpenByte, c, in) = [ctx |-> C[Len(in)], out |-> Front(O, Len(in))]
  <1>. DEFINE Is(f) == f = [i \in 0..Len(in) |->
                              IF i = 0 THEN [ctx |-> c, out |-> <<>>]
                              ELSE LET r == GcmOpenByte(f[i - 1].ctx, in[i])
                                   IN [ctx |-> r.ctx, out |-> Append(f[i - 1].out, r.out)]]
  <1>1. \A f : Is(f) <=> IsLoop("gcm-open", c, in, f)
    <2>1. \A x, b : Turn("gcm-open", x, b) = GcmOpenByte(x, b)
      BY DEF Turn
    <2>2. ASSUME NEW f
          PROVE  [i \in 0..Len(in) |->
                    IF i = 0 THEN [ctx |-> c, out |-> <<>>]
                    ELSE LET r == GcmOpenByte(f[i - 1].ctx, in[i])
                         IN [ctx |-> r.ctx, out |-> Append(f[i - 1].out, r.out)]]
                 = [i \in 0..Len(in) |->
                      IF i = 0 THEN [ctx |-> c, out |-> <<>>]
                      ELSE After("gcm-open", f[i - 1], in[i])]
      BY <2>1, Zenon DEF After
    <2>. QED BY <2>2, Zenon DEF IsLoop
  <1>2. Bytewise(GcmOpenByte, c, in) = (CHOOSE f : Is(f))[Len(in)]
    BY Zenon DEF Bytewise
  <1>. HIDE DEF Is
  <1>3. /\ \E f : IsLoop("gcm-open", c, in, f)
        /\ \A f : IsLoop("gcm-open", c, in, f) =>
             f[Len(in)] = [ctx |-> C[Len(in)], out |-> Front(O, Len(in))]
    BY LoopGives
  <1>4. Is(CHOOSE f : Is(f))
    BY <1>1, <1>3, Zenon
  <1>. QED BY <1>1, <1>2, <1>3, <1>4, Zenon

\* The loop of cc20_crypt for sealing.
LEMMA ChaSealLoop ==
  ASSUME NEW c, NEW in, NEW C, NEW O, Runs("cha-seal", c, in, C, O)
  PROVE  Bytewise(ChaSealByte, c, in) = [ctx |-> C[Len(in)], out |-> Front(O, Len(in))]
  <1>. DEFINE Is(f) == f = [i \in 0..Len(in) |->
                              IF i = 0 THEN [ctx |-> c, out |-> <<>>]
                              ELSE LET r == ChaSealByte(f[i - 1].ctx, in[i])
                                   IN [ctx |-> r.ctx, out |-> Append(f[i - 1].out, r.out)]]
  <1>1. \A f : Is(f) <=> IsLoop("cha-seal", c, in, f)
    <2>1. \A x, b : Turn("cha-seal", x, b) = ChaSealByte(x, b)
      BY DEF Turn
    <2>2. ASSUME NEW f
          PROVE  [i \in 0..Len(in) |->
                    IF i = 0 THEN [ctx |-> c, out |-> <<>>]
                    ELSE LET r == ChaSealByte(f[i - 1].ctx, in[i])
                         IN [ctx |-> r.ctx, out |-> Append(f[i - 1].out, r.out)]]
                 = [i \in 0..Len(in) |->
                      IF i = 0 THEN [ctx |-> c, out |-> <<>>]
                      ELSE After("cha-seal", f[i - 1], in[i])]
      BY <2>1, Zenon DEF After
    <2>. QED BY <2>2, Zenon DEF IsLoop
  <1>2. Bytewise(ChaSealByte, c, in) = (CHOOSE f : Is(f))[Len(in)]
    BY Zenon DEF Bytewise
  <1>. HIDE DEF Is
  <1>3. /\ \E f : IsLoop("cha-seal", c, in, f)
        /\ \A f : IsLoop("cha-seal", c, in, f) =>
             f[Len(in)] = [ctx |-> C[Len(in)], out |-> Front(O, Len(in))]
    BY LoopGives
  <1>4. Is(CHOOSE f : Is(f))
    BY <1>1, <1>3, Zenon
  <1>. QED BY <1>1, <1>2, <1>3, <1>4, Zenon

\* The loop of cc20_crypt for opening.
LEMMA ChaOpenLoop ==
  ASSUME NEW c, NEW in, NEW C, NEW O, Runs("cha-open", c, in, C, O)
  PROVE  Bytewise(ChaOpenByte, c, in) = [ctx |-> C[Len(in)], out |-> Front(O, Len(in))]
  <1>. DEFINE Is(f) == f = [i \in 0..Len(in) |->
                              IF i = 0 THEN [ctx |-> c, out |-> <<>>]
                              ELSE LET r == ChaOpenByte(f[i - 1].ctx, in[i])
                                   IN [ctx |-> r.ctx, out |-> Append(f[i - 1].out, r.out)]]
  <1>1. \A f : Is(f) <=> IsLoop("cha-open", c, in, f)
    <2>1. \A x, b : Turn("cha-open", x, b) = ChaOpenByte(x, b)
      BY DEF Turn
    <2>2. ASSUME NEW f
          PROVE  [i \in 0..Len(in) |->
                    IF i = 0 THEN [ctx |-> c, out |-> <<>>]
                    ELSE LET r == ChaOpenByte(f[i - 1].ctx, in[i])
                         IN [ctx |-> r.ctx, out |-> Append(f[i - 1].out, r.out)]]
                 = [i \in 0..Len(in) |->
                      IF i = 0 THEN [ctx |-> c, out |-> <<>>]
                      ELSE After("cha-open", f[i - 1], in[i])]
      BY <2>1, Zenon DEF After
    <2>. QED BY <2>2, Zenon DEF IsLoop
  <1>2. Bytewise(ChaOpenByte, c, in) = (CHOOSE f : Is(f))[Len(in)]
    BY Zenon DEF Bytewise
  <1>. HIDE DEF Is
  <1>3. /\ \E f : IsLoop("cha-open", c, in, f)
        /\ \A f : IsLoop("cha-open", c, in, f) =>
             f[Len(in)] = [ctx |-> C[Len(in)], out |-> Front(O, Len(in))]
    BY LoopGives
  <1>4. Is(CHOOSE f : Is(f))
    BY <1>1, <1>3, Zenon
  <1>. QED BY <1>1, <1>2, <1>3, <1>4, Zenon

\* The loop of lc_ascon_enc_update.
LEMMA AsconSealLoop ==
  ASSUME NEW c, NEW in, NEW C, NEW O, Runs("ascon-seal", c, in, C, O)
  PROVE  Bytewise(AsconSealByte, c, in) = [ctx |-> C[Len(in)], out |-> Front(O, Len(in))]
  <1>. DEFINE Is(f) == f = [i \in 0..Len(in) |->
                              IF i = 0 THEN [ctx |-> c, out |-> <<>>]
                              ELSE LET r == AsconSealByte(f[i - 1].ctx, in[i])
                                   IN [ctx |-> r.ctx, out |-> Append(f[i - 1].out, r.out)]]
  <1>1. \A f : Is(f) <=> IsLoop("ascon-seal", c, in, f)
    <2>1. \A x, b : Turn("ascon-seal", x, b) = AsconSealByte(x, b)
      BY DEF Turn
    <2>2. ASSUME NEW f
          PROVE  [i \in 0..Len(in) |->
                    IF i = 0 THEN [ctx |-> c, out |-> <<>>]
                    ELSE LET r == AsconSealByte(f[i - 1].ctx, in[i])
                         IN [ctx |-> r.ctx, out |-> Append(f[i - 1].out, r.out)]]
                 = [i \in 0..Len(in) |->
                      IF i = 0 THEN [ctx |-> c, out |-> <<>>]
                      ELSE After("ascon-seal", f[i - 1], in[i])]
      BY <2>1, Zenon DEF After
    <2>. QED BY <2>2, Zenon DEF IsLoop
  <1>2. Bytewise(AsconSealByte, c, in) = (CHOOSE f : Is(f))[Len(in)]
    BY Zenon DEF Bytewise
  <1>. HIDE DEF Is
  <1>3. /\ \E f : IsLoop("ascon-seal", c, in, f)
        /\ \A f : IsLoop("ascon-seal", c, in, f) =>
             f[Len(in)] = [ctx |-> C[Len(in)], out |-> Front(O, Len(in))]
    BY LoopGives
  <1>4. Is(CHOOSE f : Is(f))
    BY <1>1, <1>3, Zenon
  <1>. QED BY <1>1, <1>2, <1>3, <1>4, Zenon

\* The loop of lc_ascon_dec_update.
LEMMA AsconOpenLoop ==
  ASSUME NEW c, NEW in, NEW C, NEW O, Runs("ascon-open", c, in, C, O)
  PROVE  Bytewise(AsconOpenByte, c, in) = [ctx |-> C[Len(in)], out |-> Front(O, Len(in))]
  <1>. DEFINE Is(f) == f = [i \in 0..Len(in) |->
                              IF i = 0 THEN [ctx |-> c, out |-> <<>>]
                              ELSE LET r == AsconOpenByte(f[i - 1].ctx, in[i])
                                   IN [ctx |-> r.ctx, out |-> Append(f[i - 1].out, r.out)]]
  <1>1. \A f : Is(f) <=> IsLoop("ascon-open", c, in, f)
    <2>1. \A x, b : Turn("ascon-open", x, b) = AsconOpenByte(x, b)
      BY DEF Turn
    <2>2. ASSUME NEW f
          PROVE  [i \in 0..Len(in) |->
                    IF i = 0 THEN [ctx |-> c, out |-> <<>>]
                    ELSE LET r == AsconOpenByte(f[i - 1].ctx, in[i])
                         IN [ctx |-> r.ctx, out |-> Append(f[i - 1].out, r.out)]]
                 = [i \in 0..Len(in) |->
                      IF i = 0 THEN [ctx |-> c, out |-> <<>>]
                      ELSE After("ascon-open", f[i - 1], in[i])]
      BY <2>1, Zenon DEF After
    <2>. QED BY <2>2, Zenon DEF IsLoop
  <1>2. Bytewise(AsconOpenByte, c, in) = (CHOOSE f : Is(f))[Len(in)]
    BY Zenon DEF Bytewise
  <1>. HIDE DEF Is
  <1>3. /\ \E f : IsLoop("ascon-open", c, in, f)
        /\ \A f : IsLoop("ascon-open", c, in, f) =>
             f[Len(in)] = [ctx |-> C[Len(in)], out |-> Front(O, Len(in))]
    BY LoopGives
  <1>4. Is(CHOOSE f : Is(f))
    BY <1>1, <1>3, Zenon
  <1>. QED BY <1>1, <1>2, <1>3, <1>4, Zenon

-----------------------------------------------------------------------------
(* Arithmetic.                                                             *)

Rate == R \in Nat /\ R >= 2
Counters == CtrMod \in Nat /\ CtrMod >= 2

\* Division by a block or by the number of counters.
LEMMA Parts ==
  ASSUME NEW m \in Nat, m >= 2, NEW n \in Nat
  PROVE  n \div m \in Nat /\ n % m \in 0..(m - 1) /\ n = (n \div m) * m + (n % m)
  <1>1. n \div m \in Nat
    OBVIOUS
  <1>2. n % m \in 0..(m - 1)
    OBVIOUS
  <1>3. n = (n \div m) * m + (n % m)
    OBVIOUS
  <1>. QED BY <1>1, <1>2, <1>3

DivMod(n, m, k, p) == n \div m = k /\ n % m = p

\* A quotient and a remainder are the only ones.
LEMMA PartsAre ==
  ASSUME NEW m \in Nat, m >= 2, NEW n \in Nat, NEW k \in Nat, NEW p \in 0..(m - 1),
         n = k * m + p
  PROVE  DivMod(n, m, k, p)
  BY DEF DivMod

\* Counting from one byte to the next.
LEMMA NextByte ==
  ASSUME NEW m \in Nat, m >= 2, NEW k \in Nat
  PROVE  /\ k % m # m - 1 => (k + 1) \div m = k \div m /\ (k + 1) % m = (k % m) + 1
         /\ k % m = m - 1 => (k + 1) \div m = (k \div m) + 1 /\ (k + 1) % m = 0
  <1>1. PICK q \in Nat, p \in 0..(m - 1) : p = k % m /\ q = k \div m /\ k = q * m + p
    BY Parts, Zenon
  <1>2. (q + 1) * m = q * m + m /\ q * m \in Nat
    OBVIOUS
  <1>3. CASE p # m - 1
    <2>1. p + 1 \in 0..(m - 1)
      BY <1>3
    <2>2. PICK n \in Nat, r \in 0..(m - 1) : n = k + 1 /\ r = p + 1 /\ n = q * m + r
      <3>1. k + 1 = q * m + (p + 1)
        BY <1>1, <1>2
      <3>. QED BY <2>1, <3>1
    <2>3. DivMod(n, m, q, r)
      BY <2>2, PartsAre, Zenon
    <2>. QED BY <1>1, <1>3, <2>2, <2>3 DEF DivMod
  <1>4. CASE p = m - 1
    <2>1. PICK n \in Nat, t \in Nat, r \in 0..(m - 1) :
            n = k + 1 /\ t = q + 1 /\ r = 0 /\ n = t * m + r
      <3>1. k + 1 = (q + 1) * m + 0 /\ 0 \in 0..(m - 1)
        BY <1>1, <1>2, <1>4
      <3>. QED BY <3>1
    <2>2. DivMod(n, m, t, r)
      BY <2>1, PartsAre, Zenon
    <2>. QED BY <1>1, <1>4, <2>1, <2>2 DEF DivMod
  <1>. QED BY <1>3, <1>4

\* A counter that counts on.
LEMMA CountsOn ==
  ASSUME NEW m \in Nat, m >= 2, NEW x \in Nat
  PROVE  ((x % m) + 1) % m = (x + 1) % m
  <1>1. x % m \in 0..(m - 1)
    OBVIOUS
  <1>2. CASE x % m # m - 1
    <2>1. (x + 1) % m = (x % m) + 1
      BY <1>2, NextByte
    <2>2. \A y \in 0..(m - 1) : y % m = y
      OBVIOUS
    <2>. QED BY <1>1, <1>2, <2>1, <2>2
  <1>3. CASE x % m = m - 1
    <2>1. (x + 1) % m = 0
      BY <1>3, NextByte
    <2>2. m % m = 0
      OBVIOUS
    <2>. QED BY <1>3, <2>1, <2>2
  <1>. QED BY <1>2, <1>3

\* Counters that are less than m apart differ.
LEMMA CountersDiffer ==
  ASSUME NEW m \in Nat, m >= 2, NEW x \in Nat, NEW j \in 1..(m - 1)
  PROVE  (x + j) % m # x % m
  <1>1. PICK q \in Nat, p \in 0..(m - 1) : p = x % m /\ x = q * m + p
    BY Parts, Zenon
  <1>2. q * m \in Nat /\ (q + 1) * m = q * m + m
    OBVIOUS
  <1>3. CASE p + j < m
    <2>1. p + j \in 0..(m - 1) /\ x + j \in Nat /\ x + j = q * m + (p + j)
      BY <1>1, <1>2, <1>3
    <2>2. DivMod(x + j, m, q, p + j)
      BY <2>1, PartsAre
    <2>. QED BY <1>1, <2>2 DEF DivMod
  <1>4. CASE p + j >= m
    <2>1. /\ p + j - m \in 0..(m - 1) /\ x + j \in Nat /\ q + 1 \in Nat
          /\ x + j = (q + 1) * m + (p + j - m)
      BY <1>1, <1>2, <1>4
    <2>2. DivMod(x + j, m, q + 1, p + j - m)
      BY <2>1, PartsAre
    <2>. QED BY <1>1, <2>2 DEF DivMod
  <1>. QED BY <1>3, <1>4

-----------------------------------------------------------------------------
(* Pieces of a message.                                                    *)

\* The context after i bytes of the whole message, and byte i of the output.
CtxAt(call, c, in, i) == (CHOOSE f : IsLoop(call, c, in, f))[i].ctx
OutAt(call, c, in, i) == Turn(call, CtxAt(call, c, in, i - 1), in[i]).out

Turns(call, c, in) ==
  /\ CtxAt(call, c, in, 0) = c
  /\ \A i \in 1..Len(in) :
       CtxAt(call, c, in, i) = Turn(call, CtxAt(call, c, in, i - 1), in[i]).ctx

\* One turn follows the other.
LEMMA LoopTurns ==
  ASSUME NEW call, NEW c, NEW in, Len(in) \in Nat
  PROVE  Turns(call, c, in)
  <1>1. PICK f : f = CHOOSE g : IsLoop(call, c, in, g)
    OBVIOUS
  <1>2. IsLoop(call, c, in, f)
    BY <1>1, LoopExists, Zenon
  <1>3. \A i : CtxAt(call, c, in, i) = f[i].ctx
    BY <1>1, Zenon DEF CtxAt
  <1>4. \A i \in 0..Len(in) : f[i] = IF i = 0 THEN [ctx |-> c, out |-> <<>>]
                                     ELSE After(call, f[i - 1], in[i])
    <2>1. f = [i \in 0..Len(in) |-> IF i = 0 THEN [ctx |-> c, out |-> <<>>]
                                    ELSE After(call, f[i - 1], in[i])]
      BY <1>2, Zenon DEF IsLoop
    <2>. QED BY <2>1
  <1>5. f[0].ctx = c
    <2>1. 0 \in 0..Len(in)
      OBVIOUS
    <2>2. f[0] = [ctx |-> c, out |-> <<>>]
      BY <1>4, <2>1, Zenon
    <2>. QED BY <2>2
  <1>6. ASSUME NEW i \in 1..Len(in)
        PROVE  f[i].ctx = Turn(call, f[i - 1].ctx, in[i]).ctx
    <2>1. i \in 0..Len(in) /\ i # 0
      OBVIOUS
    <2>2. f[i] = After(call, f[i - 1], in[i])
      BY <1>4, <2>1, Zenon
    <2>3. \A x, y : [ctx |-> x, out |-> y].ctx = x
      OBVIOUS
    <2>. QED BY <2>2, <2>3, ZenonT(60) DEF After
  <1>. QED BY <1>3, <1>5, <1>6, Zenon DEF Turns

\* The results of the turns are records.
IsCall(call) ==
  \A c, b : Turn(call, c, b) = [ctx |-> Turn(call, c, b).ctx, out |-> Turn(call, c, b).out]

\* p is the piece of n bytes after the first d of in.
IsPiece(p, in, d, n) ==
  /\ d \in Nat /\ n \in Nat /\ Len(in) \in Nat /\ d + n <= Len(in)
  /\ Len(p) = n
  /\ \A i \in 1..n : p[i] = in[d + i]

\* A call with the next piece goes on where the one before it stopped.
LEMMA PieceRuns ==
  ASSUME NEW call, IsCall(call), NEW c, NEW in, NEW p, NEW d, NEW n,
         IsPiece(p, in, d, n)
  PROVE  Runs(call, CtxAt(call, c, in, d), p,
              [i \in 0..n |-> CtxAt(call, c, in, d + i)],
              [i \in 1..n |-> OutAt(call, c, in, d + i)])
  <1>. DEFINE C == [i \in 0..n |-> CtxAt(call, c, in, d + i)]
              O == [i \in 1..n |-> OutAt(call, c, in, d + i)]
  <1>1. d \in Nat /\ n \in Nat /\ Len(in) \in Nat /\ d + n <= Len(in) /\ Len(p) = n
    BY DEF IsPiece
  <1>2. C[0] = CtxAt(call, c, in, d)
    <2>1. d + 0 = d /\ 0 \in 0..n
      BY <1>1
    <2>. QED BY <2>1
  <1>3. ASSUME NEW i \in 1..n
        PROVE  Turn(call, C[i - 1], p[i]) = [ctx |-> C[i], out |-> O[i]]
    <2>1. /\ i - 1 \in 0..n /\ i \in 0..n /\ d + (i - 1) = d + i - 1
          /\ d + i \in 1..Len(in)
      BY <1>1
    <2>2. p[i] = in[d + i]
      BY DEF IsPiece
    <2>3. C[i - 1] = CtxAt(call, c, in, d + i - 1)
      BY <2>1, Zenon
    <2>4. C[i] = CtxAt(call, c, in, d + i) /\ O[i] = OutAt(call, c, in, d + i)
      BY <2>1, Zenon
    <2>. HIDE DEF C, O
    <2>5. PICK k \in 1..Len(in) : k = d + i
      BY <2>1
    <2>6. CtxAt(call, c, in, k) = Turn(call, CtxAt(call, c, in, k - 1), in[k]).ctx
      <3>1. \A j \in 1..Len(in) :
              CtxAt(call, c, in, j) = Turn(call, CtxAt(call, c, in, j - 1), in[j]).ctx
        <4>1. Turns(call, c, in)
          BY <1>1, LoopTurns, Zenon
        <4>. QED BY <4>1, Zenon DEF Turns
      <3>. QED BY <3>1, Zenon
    <2>7. OutAt(call, c, in, k) = Turn(call, CtxAt(call, c, in, k - 1), in[k]).out
      BY Zenon DEF OutAt
    <2>8. PICK x : x = CtxAt(call, c, in, k - 1)
      OBVIOUS
    <2>9. Turn(call, x, in[k]) = [ctx |-> CtxAt(call, c, in, k), out |-> OutAt(call, c, in, k)]
      BY <2>6, <2>7, <2>8, Zenon DEF IsCall
    <2>10. C[i - 1] = x
      <3>1. d + i - 1 = k - 1
        BY <1>1, <2>5
      <3>. QED BY <2>3, <2>8, <3>1, Zenon
    <2>. QED BY <2>2, <2>4, <2>5, <2>9, <2>10, Zenon
  <1>. HIDE DEF C, O
  <1>4. Runs(call, CtxAt(call, c, in, d), p, C, O)
    BY <1>1, <1>2, <1>3, Zenon DEF Runs
  <1>. QED BY <1>4 DEF C, O

\* back undoes call, in contexts that Fits tells of.
Undoes(back, call, c, in) ==
  \A i \in 1..Len(in) :
    Turn(back, CtxAt(call, c, in, i - 1), OutAt(call, c, in, i))
      = [ctx |-> CtxAt(call, c, in, i), out |-> in[i]]

\* q is the piece of n bytes after the first d of the output.
IsOutput(q, call, c, in, d, n) ==
  /\ d \in Nat /\ n \in Nat /\ Len(in) \in Nat /\ d + n <= Len(in)
  /\ Len(q) = n
  /\ \A i \in 1..n : q[i] = OutAt(call, c, in, d + i)

\* What the one call put out, the other one takes back.
LEMMA OutputRuns ==
  ASSUME NEW back, NEW call, NEW c, NEW in, NEW q, NEW d, NEW n,
         Undoes(back, call, c, in), IsOutput(q, call, c, in, d, n)
  PROVE  Runs(back, CtxAt(call, c, in, d), q,
              [i \in 0..n |-> CtxAt(call, c, in, d + i)],
              [i \in 1..n |-> in[d + i]])
  <1>. DEFINE C == [i \in 0..n |-> CtxAt(call, c, in, d + i)]
              O == [i \in 1..n |-> in[d + i]]
  <1>1. d \in Nat /\ n \in Nat /\ Len(in) \in Nat /\ d + n <= Len(in) /\ Len(q) = n
    BY DEF IsOutput
  <1>2. C[0] = CtxAt(call, c, in, d)
    <2>1. d + 0 = d /\ 0 \in 0..n
      BY <1>1
    <2>. QED BY <2>1
  <1>3. ASSUME NEW i \in 1..n
        PROVE  Turn(back, C[i - 1], q[i]) = [ctx |-> C[i], out |-> O[i]]
    <2>1. /\ i - 1 \in 0..n /\ i \in 0..n /\ d + (i - 1) = d + i - 1
          /\ d + i \in 1..Len(in)
      BY <1>1
    <2>2. q[i] = OutAt(call, c, in, d + i)
      BY DEF IsOutput
    <2>3. C[i - 1] = CtxAt(call, c, in, d + i - 1)
      BY <2>1, Zenon
    <2>4. C[i] = CtxAt(call, c, in, d + i) /\ O[i] = in[d + i]
      BY <2>1, Zenon
    <2>. HIDE DEF C, O
    <2>5. PICK k \in 1..Len(in) : k = d + i
      BY <2>1
    <2>6. Turn(back, CtxAt(call, c, in, k - 1), OutAt(call, c, in, k))
            = [ctx |-> CtxAt(call, c, in, k), out |-> in[k]]
      BY Zenon DEF Undoes
    <2>7. PICK x : x = CtxAt(call, c, in, k - 1)
      OBVIOUS
    <2>8. C[i - 1] = x
      <3>1. d + i - 1 = k - 1
        BY <1>1, <2>5
      <3>. QED BY <2>3, <2>7, <3>1, Zenon
    <2>9. Turn(back, x, q[i]) = [ctx |-> C[i], out |-> O[i]]
      BY <2>2, <2>4, <2>5, <2>6, <2>7, Zenon
    <2>. QED BY <2>8, <2>9, Zenon
  <1>. HIDE DEF C, O
  <1>4. Runs(back, CtxAt(call, c, in, d), q, C, O)
    BY <1>1, <1>2, <1>3, Zenon DEF Runs
  <1>. QED BY <1>4 DEF C, O

-----------------------------------------------------------------------------
(* Bytes.                                                                  *)

\* A key stream byte is taken off again.
LEMMA CoverComesOff ==
  ASSUME NEW past, NEW at, NEW p
  PROVE  Uncover(past, at, Cover(past, at, p)) = p
  <1>1. Cardinality({p}) = 1
    BY FS_Singleton
  <1>2. PICK b : b = Cover(past, at, p)
    OBVIOUS
  <1>3. b.past = past /\ b.at = at /\ b.xor = {p}
    BY <1>2 DEF Cover
  <1>4. (CHOOSE x \in {p} : TRUE) = p
    OBVIOUS
  <1>5. Uncover(past, at, b) = CHOOSE x \in {p} : TRUE
    BY <1>1, <1>3, Zenon DEF Uncover
  <1>. QED BY <1>2, <1>4, <1>5

\* These calls yield a context and a byte.
LEMMA Calls ==
  /\ IsCall("gcm-aad") /\ IsCall("gcm-seal") /\ IsCall("ascon-seal")
  <1>1. ASSUME NEW c, NEW b
        PROVE  /\ \E x, y : Turn("gcm-aad", c, b) = [ctx |-> x, out |-> y]
               /\ \E x, y : Turn("gcm-seal", c, b) = [ctx |-> x, out |-> y]
               /\ \E x, y : Turn("ascon-seal", c, b) = [ctx |-> x, out |-> y]
    <2>1. /\ Turn("gcm-aad", c, b) = GcmAadByte(c, b)
          /\ Turn("gcm-seal", c, b) = GcmSealByte(c, b)
          /\ Turn("ascon-seal", c, b) = AsconSealByte(c, b)
      BY DEF Turn
    <2>2. \E x, y : GcmAadByte(c, b) = [ctx |-> x, out |-> y]
      BY Zenon DEF GcmAadByte
    <2>3. \E x, y : GcmSealByte(c, b) = [ctx |-> x, out |-> y]
      BY Zenon DEF GcmSealByte
    <2>4. \E x, y : AsconSealByte(c, b) = [ctx |-> x, out |-> y]
      BY Zenon DEF AsconSealByte
    <2>. QED BY <2>1, <2>2, <2>3, <2>4, Zenon
  <1>2. ASSUME NEW r, NEW x, NEW y, r = [ctx |-> x, out |-> y]
        PROVE  r = [ctx |-> r.ctx, out |-> r.out]
    BY <1>2
  <1>3. IsCall("gcm-aad")
    <2>1. ASSUME NEW c, NEW b
          PROVE  Turn("gcm-aad", c, b) = [ctx |-> Turn("gcm-aad", c, b).ctx,
                                      out |-> Turn("gcm-aad", c, b).out]
      <3>1. PICK x, y : Turn("gcm-aad", c, b) = [ctx |-> x, out |-> y]
        BY <1>1, ZenonT(40)
      <3>. QED BY <1>2, <3>1, Zenon
    <2>. QED BY <2>1, Zenon DEF IsCall
  <1>4. IsCall("gcm-seal")
    <2>1. ASSUME NEW c, NEW b
          PROVE  Turn("gcm-seal", c, b) = [ctx |-> Turn("gcm-seal", c, b).ctx,
                                      out |-> Turn("gcm-seal", c, b).out]
      <3>1. PICK x, y : Turn("gcm-seal", c, b) = [ctx |-> x, out |-> y]
        BY <1>1, ZenonT(60)
      <3>. QED BY <1>2, <3>1, Zenon
    <2>. QED BY <2>1, Zenon DEF IsCall
  <1>5. IsCall("ascon-seal")
    <2>1. ASSUME NEW c, NEW b
          PROVE  Turn("ascon-seal", c, b) = [ctx |-> Turn("ascon-seal", c, b).ctx,
                                      out |-> Turn("ascon-seal", c, b).out]
      <3>1. PICK x, y : Turn("ascon-seal", c, b) = [ctx |-> x, out |-> y]
        BY <1>1, ZenonT(60)
      <3>. QED BY <1>2, <3>1, Zenon
    <2>. QED BY <2>1, Zenon DEF IsCall
  <1>. QED BY <1>3, <1>4, <1>5

\* Opening a byte of GCM hashes the same and leaves the same context.
LEMMA GcmUndoes ==
  ASSUME NEW c, NEW p
  PROVE  Turn("gcm-open", c, Turn("gcm-seal", c, p).out)
           = [ctx |-> Turn("gcm-seal", c, p).ctx, out |-> p]
  <1>1. PICK d : d = GcmCounted(c)
    OBVIOUS
  <1>2. PICK b : b = Cover(d.y, c.len % R, p)
    OBVIOUS
  <1>3. PICK e : e = [d EXCEPT !.buf = GcmHashed(d, c.len % R, Authentic(b)), !.len = @ + 1]
    OBVIOUS
  <1>4. Turn("gcm-seal", c, p) = [ctx |-> e, out |-> b]
    BY <1>1, <1>2, <1>3 DEF Turn, GcmSealByte
  <1>5. Turn("gcm-open", c, b) = [ctx |-> e, out |-> Uncover(d.y, c.len % R, b)]
    BY <1>1, <1>3 DEF Turn, GcmOpenByte
  <1>6. Uncover(d.y, c.len % R, b) = p
    BY <1>2, CoverComesOff
  <1>. QED BY <1>4, <1>5, <1>6

HasState(c) == \E q, u, o : c = [state |-> [past |-> q, cur |-> u], rate_offset |-> o]

\* So does Ascon, in a context that has a state.
LEMMA AsconUndoes ==
  ASSUME NEW c, HasState(c), NEW p
  PROVE  Turn("ascon-open", c, Turn("ascon-seal", c, p).out)
           = [ctx |-> Turn("ascon-seal", c, p).ctx, out |-> p]
  <1>1. PICK d : d = AsconTurn(c)
    OBVIOUS
  <1>2. \E v, w, x : d = [state |-> [past |-> v, cur |-> w], rate_offset |-> x]
    BY <1>1 DEF AsconTurn, Permute, HasState
  <1>3. PICK s : s = Xor(d.state, d.rate_offset, <<p>>)
    OBVIOUS
  <1>4. s.past = d.state.past
    BY <1>2, <1>3 DEF Xor
  <1>5. PICK b : b = Cover(s.past, d.rate_offset, p)
    OBVIOUS
  <1>6. Turn("ascon-seal", c, p) = [ctx |-> [state |-> s, rate_offset |-> d.rate_offset + 1],
                                    out |-> b]
    BY <1>1, <1>3, <1>5, Zenon DEF Turn, AsconSealByte
  <1>7. Uncover(d.state.past, d.rate_offset, b) = p
    BY <1>4, <1>5, CoverComesOff, Zenon
  <1>8. AsconOpenByte(c, b) = [ctx |-> [state |-> s, rate_offset |-> d.rate_offset + 1],
                                out |-> p]
    BY <1>1, <1>3, <1>7, Zenon DEF AsconOpenByte
  <1>9. Turn("ascon-open", c, b) = AsconOpenByte(c, b)
    BY DEF Turn
  <1>. QED BY <1>6, <1>8, <1>9

-----------------------------------------------------------------------------
(* GCM.                                                                    *)

\* An initial vector and counter.
Iv(v) == \E k, x : v = <<k, x>> /\ x \in 0..(CtrMod - 1)

\* The counter block of the data byte at d, the first of which is at 0.
GcmBlock(v, d) == <<v[1], (v[2] + (d \div R) + 1) % CtrMod>>

GcmAt(v, a, d, buf, rem) ==
  [buf |-> buf, y |-> IF d = 0 THEN v ELSE GcmBlock(v, d - 1), base |-> v,
   aad_len |-> a, len |-> d, rem_aad_inserted |-> rem]

\* The counter of the next byte.
LEMMA GcmCounts ==
  ASSUME Rate, Counters, NEW v, Iv(v), NEW a, NEW d \in Nat, NEW buf, NEW rem
  PROVE  GcmCounted(GcmAt(v, a, d, buf, rem))
           = [GcmAt(v, a, d, buf, rem) EXCEPT !.y = GcmBlock(v, d)]
  <1>1. PICK k, x : v = <<k, x>> /\ x \in 0..(CtrMod - 1)
    BY DEF Iv
  <1>2. PICK y : y = IF d = 0 THEN v ELSE GcmBlock(v, d - 1)
    OBVIOUS
  <1>3. PICK c : c = [buf |-> buf, y |-> y, base |-> v, aad_len |-> a, len |-> d,
                      rem_aad_inserted |-> rem]
    OBVIOUS
  <1>4. c.len = d
    BY <1>3
  <1>5. d \div R \in Nat /\ x \in Nat /\ CtrMod \in Nat /\ CtrMod >= 2
    <2>1. d \div R \in Nat
      BY DEF Rate
    <2>. QED BY <1>1, <2>1 DEF Counters
  <1>6. CASE d % R = 0
    <2>1. \E z \in Nat : y = <<k, z>> /\ (z + 1) % CtrMod = (x + (d \div R) + 1) % CtrMod
      <3>1. CASE d = 0
        <4>1. d \div R = 0
          BY <3>1 DEF Rate
        <4>. QED BY <1>1, <1>2, <1>5, <3>1, <4>1
      <3>2. CASE d # 0
        <4>1. PICK e \in Nat : e = d - 1 /\ d = e + 1
          BY <3>2
        <4>2. e % R \in 0..(R - 1) /\ e \div R \in Nat
          BY DEF Rate
        <4>3. d \div R = (e \div R) + 1
          <5>1. /\ e % R # R - 1 => (e + 1) % R = (e % R) + 1
                /\ e % R = R - 1 => (e + 1) \div R = (e \div R) + 1
            BY NextByte, Zenon DEF Rate
          <5>. QED BY <1>6, <4>1, <4>2, <5>1
        <4>4. PICK w \in Nat : w = x + (e \div R) + 1
          BY <1>5, <4>2
        <4>5. w + 1 = x + (d \div R) + 1 /\ y = <<k, w % CtrMod>> /\ w % CtrMod \in Nat
          BY <1>1, <1>2, <1>5, <3>2, <4>1, <4>2, <4>3, <4>4 DEF GcmBlock, Counters
        <4>6. ((w % CtrMod) + 1) % CtrMod = (w + 1) % CtrMod
          BY <1>5, CountsOn
        <4>. QED BY <4>5, <4>6
      <3>. QED BY <3>1, <3>2
    <2>2. PICK z \in Nat : y = <<k, z>> /\ (z + 1) % CtrMod = (x + (d \div R) + 1) % CtrMod
      BY <2>1
    <2>3. [y EXCEPT ![2] = (@ + 1) % CtrMod] = <<k, (z + 1) % CtrMod>>
      BY <2>2
    <2>4. GcmBlock(v, d) = <<k, (z + 1) % CtrMod>>
      BY <1>1, <2>2 DEF GcmBlock
    <2>5. GcmCounted(c) = [c EXCEPT !.y[2] = (@ + 1) % CtrMod]
      BY <1>4, <1>6 DEF GcmCounted
    <2>6. [c EXCEPT !.y[2] = (@ + 1) % CtrMod]
            = [c EXCEPT !.y = [y EXCEPT ![2] = (@ + 1) % CtrMod]]
      BY <1>3, <2>2
    <2>. QED BY <1>2, <1>3, <2>3, <2>4, <2>5, <2>6 DEF GcmAt
  <1>7. CASE d % R # 0
    <2>1. y = GcmBlock(v, d)
      <3>1. PICK e \in Nat : e = d - 1 /\ d = e + 1
        <4>1. d # 0
          BY <1>7 DEF Rate
        <4>. QED BY <4>1
      <3>2. e % R \in 0..(R - 1) /\ e \div R \in Nat
        BY DEF Rate
      <3>3. d \div R = e \div R
        BY <1>7, <3>1, <3>2, NextByte, ZenonT(60) DEF Rate
      <3>. QED BY <1>2, <3>1, <3>3 DEF GcmBlock
    <2>2. GcmCounted(c) = c
      BY <1>4, <1>7 DEF GcmCounted
    <2>3. c = [c EXCEPT !.y = GcmBlock(v, d)]
      BY <1>3, <2>1
    <2>. QED BY <1>2, <1>3, <2>2, <2>3 DEF GcmAt
  <1>. QED BY <1>6, <1>7

\* One byte is sealed with the key stream of its place.
LEMMA GcmSeals ==
  ASSUME Rate, Counters, NEW v, Iv(v), NEW a, NEW d \in Nat, NEW buf, NEW rem, NEW p
  PROVE  /\ \E b : Turn("gcm-seal", GcmAt(v, a, d, buf, rem), p).ctx
                     = GcmAt(v, a, d + 1, b, rem)
         /\ Turn("gcm-seal", GcmAt(v, a, d, buf, rem), p).out
              = Cover(GcmBlock(v, d), d % R, p)
  <1>1. PICK c : c = GcmAt(v, a, d, buf, rem)
    OBVIOUS
  <1>2. PICK g : g = GcmBlock(v, d)
    OBVIOUS
  <1>3. PICK e : e = GcmCounted(c)
    OBVIOUS
  <1>4. e = [buf |-> buf, y |-> g, base |-> v, aad_len |-> a, len |-> d,
             rem_aad_inserted |-> rem]
    <2>1. e = [c EXCEPT !.y = g]
      <3>1. GcmCounted(GcmAt(v, a, d, buf, rem))
              = [GcmAt(v, a, d, buf, rem) EXCEPT !.y = GcmBlock(v, d)]
        BY GcmCounts
      <3>. QED BY <1>1, <1>2, <1>3, <3>1, Zenon
    <2>. QED BY <1>1, <2>1 DEF GcmAt
  <1>5. c.len = d
    BY <1>1 DEF GcmAt
  <1>6. PICK o : o = Cover(g, d % R, p)
    OBVIOUS
  <1>7. PICK h : h = GcmHashed(e, d % R, Authentic(o))
    OBVIOUS
  <1>8. PICK f : f = [e EXCEPT !.buf = h, !.len = @ + 1]
    OBVIOUS
  <1>9. GcmSealByte(c, p) = [ctx |-> f, out |-> o]
    <2>1. e.y = g
      BY <1>4
    <2>. QED BY <1>3, <1>5, <1>6, <1>7, <1>8, <2>1, Zenon DEF GcmSealByte
  <1>10. f = [buf |-> h, y |-> g, base |-> v, aad_len |-> a, len |-> d + 1,
              rem_aad_inserted |-> rem]
    BY <1>4, <1>8
  <1>11. GcmAt(v, a, d + 1, h, rem) = f
    <2>1. d + 1 # 0 /\ (d + 1) - 1 = d
      OBVIOUS
    <2>. QED BY <1>2, <1>10, <2>1, Zenon DEF GcmAt
  <1>12. Turn("gcm-seal", c, p) = [ctx |-> f, out |-> o]
    BY <1>9 DEF Turn
  <1>. QED BY <1>1, <1>2, <1>6, <1>11, <1>12

\* The additional data and the message of the caller, and a piece of it.
AadOf(n) == [i \in 1..n |-> <<"aad", i>>]
PtOf(n) == [i \in 1..n |-> Plain(i)]
AadPiece(d, n) == [i \in 1..n |-> <<"aad", d + i>>]
PtPiece(d, n) == [i \in 1..n |-> Plain(d + i)]

Bounds == MaxAad \in Nat /\ MaxData \in Nat

\* A piece of n bytes after the first d, of at most m.
Within(d, n, m) == d \in Nat /\ n \in Nat /\ m \in Nat /\ d + n <= m

\* A function on 1..n has n elements.
LEMMA FunLength ==
  ASSUME NEW n \in Nat, NEW f, f = [i \in 1..n |-> f[i]]
  PROVE  Len(f) = n
  <1>. DEFINE T == {f[i] : i \in 1..n}
  <1>1. f \in [1..n -> T]
    OBVIOUS
  <1>. HIDE DEF T
  <1>. QED BY <1>1, FunIsSeq

\* Pieces of the caller's data are pieces of all of it.
LEMMA PiecesAre ==
  ASSUME NEW d, NEW n, NEW m, Within(d, n, m)
  PROVE  /\ IsPiece(PtPiece(d, n), PtOf(m), d, n)
         /\ IsPiece(AadPiece(d, n), AadOf(m), d, n)
         /\ Len(PtPiece(d, n)) = n /\ Len(AadPiece(d, n)) = n
         /\ Len(PtOf(m)) = m /\ Len(AadOf(m)) = m
  <1>1. d \in Nat /\ n \in Nat /\ m \in Nat /\ d + n <= m
    BY DEF Within
  <1>2. \A k : /\ PtOf(k) = [i \in 1..k |-> PtOf(k)[i]]
               /\ AadOf(k) = [i \in 1..k |-> AadOf(k)[i]]
    BY DEF PtOf, AadOf
  <1>3. /\ PtPiece(d, n) = [i \in 1..n |-> PtPiece(d, n)[i]]
        /\ AadPiece(d, n) = [i \in 1..n |-> AadPiece(d, n)[i]]
    BY DEF PtPiece, AadPiece
  <1>4. /\ Len(PtPiece(d, n)) = n /\ Len(AadPiece(d, n)) = n
        /\ Len(PtOf(m)) = m /\ Len(AadOf(m)) = m
    BY <1>1, <1>2, <1>3, FunLength, Zenon
  <1>5. ASSUME NEW i \in 1..n
        PROVE  PtPiece(d, n)[i] = PtOf(m)[d + i] /\ AadPiece(d, n)[i] = AadOf(m)[d + i]
    <2>1. d + i \in 1..m
      BY <1>1
    <2>. QED BY <2>1 DEF PtPiece, PtOf, AadPiece, AadOf
  <1>. QED BY <1>1, <1>4, <1>5, Zenon DEF IsPiece

-----------------------------------------------------------------------------
(* GCM: the context after any number of bytes.                             *)

GcmHead(v, a) == CtxAt("gcm-aad", GcmSetIv(GcmFresh, v), AadOf(MaxAad), a)
GcmData(v, a, d) == CtxAt("gcm-seal", GcmFinishAad(GcmHead(v, a)), PtOf(MaxData), d)
GcmByte(v, i) == Cover(GcmBlock(v, i - 1), (i - 1) % R, Plain(i))

\* A context that takes additional data.
TakesAad(c, v, a) == \E b : c = GcmAt(v, a, 0, b, FALSE)

\* One byte of additional data.
LEMMA GcmTakesAad ==
  ASSUME NEW v, NEW a \in Nat, NEW c, TakesAad(c, v, a), NEW p
  PROVE  TakesAad(Turn("gcm-aad", c, p).ctx, v, a + 1)
  <1>1. PICK buf : c = GcmAt(v, a, 0, buf, FALSE)
    BY DEF TakesAad
  <1>2. PICK h : h = GcmHashed(c, c.aad_len % R, p)
    OBVIOUS
  <1>3. PICK f : f = [c EXCEPT !.buf = h, !.aad_len = @ + 1]
    OBVIOUS
  <1>4. GcmAadByte(c, p) = [ctx |-> f, out |-> p]
    BY <1>2, <1>3, Zenon DEF GcmAadByte
  <1>5. f = GcmAt(v, a + 1, 0, h, FALSE)
    BY <1>1, <1>3 DEF GcmAt
  <1>6. Turn("gcm-aad", c, p) = [ctx |-> f, out |-> p]
    BY <1>4 DEF Turn
  <1>7. Turn("gcm-aad", c, p).ctx = f
    BY <1>6
  <1>. QED BY <1>5, <1>7, Zenon DEF TakesAad

\* The additional data changes the hash and its length only.
LEMMA GcmHeadIs ==
  ASSUME Bounds, NEW v, NEW a \in 0..MaxAad
  PROVE  TakesAad(GcmHead(v, a), v, a)
  <1>. DEFINE S == {i \in Nat : i <= MaxAad => TakesAad(GcmHead(v, i), v, i)}
  <1>1. Len(AadOf(MaxAad)) = MaxAad
    <2>1. Within(0, 0, MaxAad)
      BY DEF Within, Bounds
    <2>. QED BY <2>1, PiecesAre, Zenon
  <1>2. MaxAad \in Nat
    BY DEF Bounds
  <1>3. Turns("gcm-aad", GcmSetIv(GcmFresh, v), AadOf(MaxAad))
    BY <1>1, <1>2, LoopTurns, Zenon
  <1>4. 0 \in S
    <2>1. GcmHead(v, 0) = GcmSetIv(GcmFresh, v)
      BY <1>3, Zenon DEF Turns, GcmHead
    <2>2. GcmSetIv(GcmFresh, v) = GcmAt(v, 0, 0, EmptyState, FALSE)
      BY DEF GcmSetIv, GcmAt
    <2>. QED BY <2>1, <2>2 DEF TakesAad
  <1>5. ASSUME NEW i \in Nat, i \in S PROVE i + 1 \in S
    <2>. SUFFICES ASSUME i + 1 <= MaxAad PROVE TakesAad(GcmHead(v, i + 1), v, i + 1)
      OBVIOUS
    <2>1. i <= MaxAad
      BY <1>2
    <2>2. TakesAad(GcmHead(v, i), v, i)
      BY <1>5, <2>1
    <2>3. PICK j \in 1..MaxAad : j = i + 1 /\ j - 1 = i
      BY <1>2
    <2>4. GcmHead(v, j) = Turn("gcm-aad", GcmHead(v, j - 1), AadOf(MaxAad)[j]).ctx
      BY <1>1, <1>3, Zenon DEF Turns, GcmHead
    <2>5. TakesAad(Turn("gcm-aad", GcmHead(v, i), AadOf(MaxAad)[j]).ctx, v, i + 1)
      BY <2>2, GcmTakesAad, Zenon
    <2>. QED BY <2>3, <2>4, <2>5, Zenon
  <1>. HIDE DEF S
  <1>6. a \in S /\ a <= MaxAad
    BY <1>2, <1>4, <1>5, SetInduction
  <1>. QED BY <1>6 DEF S

\* The first update hashes the rest of the additional data; others do not.
LEMMA GcmFinishes ==
  ASSUME Rate, NEW v, NEW a \in Nat, NEW d, NEW buf
  PROVE  /\ \E b : GcmFinishAad(GcmAt(v, a, d, buf, FALSE)) = GcmAt(v, a, d, b, a % R # 0)
         /\ GcmFinishAad(GcmAt(v, a, d, buf, a % R # 0)) = GcmAt(v, a, d, buf, a % R # 0)
  <1>1. CASE a % R = 0
    BY <1>1 DEF GcmFinishAad, GcmAt
  <1>2. CASE a % R # 0
    <2>1. PICK c : c = GcmAt(v, a, d, buf, FALSE)
      OBVIOUS
    <2>2. PICK h : h = Permute(buf)
      OBVIOUS
    <2>3. GcmFinishAad(c) = [c EXCEPT !.buf = h, !.rem_aad_inserted = TRUE]
      BY <1>2, <2>1, <2>2 DEF GcmFinishAad, GcmAt
    <2>4. [c EXCEPT !.buf = h, !.rem_aad_inserted = TRUE] = GcmAt(v, a, d, h, TRUE)
      <3>1. PICK y : y = IF d = 0 THEN v ELSE GcmBlock(v, d - 1)
        OBVIOUS
      <3>2. PICK t, u : t = TRUE /\ u = FALSE
        OBVIOUS
      <3>3. c = [buf |-> buf, y |-> y, base |-> v, aad_len |-> a, len |-> d,
                 rem_aad_inserted |-> u]
        BY <2>1, <3>1, <3>2, Zenon DEF GcmAt
      <3>4. GcmAt(v, a, d, h, TRUE)
              = [buf |-> h, y |-> y, base |-> v, aad_len |-> a, len |-> d,
                 rem_aad_inserted |-> t]
        BY <3>1, <3>2, Zenon DEF GcmAt
      <3>5. [c EXCEPT !.buf = h, !.rem_aad_inserted = t]
              = [buf |-> h, y |-> y, base |-> v, aad_len |-> a, len |-> d,
                 rem_aad_inserted |-> t]
        <4>1. PICK e : e = [c EXCEPT !.buf = h]
          OBVIOUS
        <4>2. e = [buf |-> h, y |-> y, base |-> v, aad_len |-> a, len |-> d,
                   rem_aad_inserted |-> u]
          BY <3>3, <4>1
        <4>3. [e EXCEPT !.rem_aad_inserted = t]
                = [buf |-> h, y |-> y, base |-> v, aad_len |-> a, len |-> d,
                   rem_aad_inserted |-> t]
          BY <4>2
        <4>. QED BY <4>1, <4>3, Zenon
      <3>. QED BY <3>2, <3>4, <3>5, Zenon
    <2>5. (a % R # 0) = TRUE
      BY <1>2
    <2>6. GcmFinishAad(GcmAt(v, a, d, buf, TRUE)) = GcmAt(v, a, d, buf, TRUE)
      BY DEF GcmFinishAad, GcmAt
    <2>. QED BY <2>1, <2>3, <2>4, <2>5, <2>6, Zenon
  <1>. QED BY <1>1, <1>2

\* The data moves the counter and changes the hash.
LEMMA GcmDataIs ==
  ASSUME Rate, Counters, Bounds, NEW v, Iv(v), NEW a \in 0..MaxAad, NEW d \in 0..MaxData
  PROVE  \E b : GcmData(v, a, d) = GcmAt(v, a, d, b, a % R # 0)
  <1>. DEFINE S == {i \in Nat : i <= MaxData =>
                      \E b : GcmData(v, a, i) = GcmAt(v, a, i, b, a % R # 0)}
  <1>1. MaxData \in Nat /\ a \in Nat
    BY DEF Bounds
  <1>2. Len(PtOf(MaxData)) = MaxData
    <2>1. Within(0, 0, MaxData)
      BY <1>1 DEF Within
    <2>. QED BY <2>1, PiecesAre, Zenon
  <1>3. Turns("gcm-seal", GcmFinishAad(GcmHead(v, a)), PtOf(MaxData))
    BY <1>1, <1>2, LoopTurns, Zenon
  <1>4. 0 \in S
    <2>1. GcmData(v, a, 0) = GcmFinishAad(GcmHead(v, a))
      BY <1>3, Zenon DEF Turns, GcmData
    <2>2. PICK b : GcmHead(v, a) = GcmAt(v, a, 0, b, FALSE)
      BY GcmHeadIs DEF TakesAad
    <2>3. \E x : GcmFinishAad(GcmAt(v, a, 0, b, FALSE)) = GcmAt(v, a, 0, x, a % R # 0)
      BY <1>1, GcmFinishes
    <2>. QED BY <2>1, <2>2, <2>3
  <1>5. ASSUME NEW i \in Nat, i \in S PROVE i + 1 \in S
    <2>. SUFFICES ASSUME i + 1 <= MaxData
                  PROVE  \E b : GcmData(v, a, i + 1) = GcmAt(v, a, i + 1, b, a % R # 0)
      OBVIOUS
    <2>1. i <= MaxData
      BY <1>1
    <2>2. PICK b : GcmData(v, a, i) = GcmAt(v, a, i, b, a % R # 0)
      BY <1>5, <2>1
    <2>3. PICK j \in 1..MaxData : j = i + 1 /\ j - 1 = i
      BY <1>1
    <2>4. GcmData(v, a, j) = Turn("gcm-seal", GcmData(v, a, j - 1), PtOf(MaxData)[j]).ctx
      BY <1>2, <1>3, Zenon DEF Turns, GcmData
    <2>5. \E x : Turn("gcm-seal", GcmAt(v, a, i, b, a % R # 0), PtOf(MaxData)[j]).ctx
                   = GcmAt(v, a, i + 1, x, a % R # 0)
      BY GcmSeals
    <2>. QED BY <2>2, <2>3, <2>4, <2>5, Zenon
  <1>. HIDE DEF S
  <1>6. d \in S /\ d <= MaxData
    BY <1>1, <1>4, <1>5, SetInduction
  <1>. QED BY <1>6 DEF S

\* Byte k of the ciphertext.
LEMMA GcmOut ==
  ASSUME Rate, Counters, Bounds, NEW v, Iv(v), NEW a \in 0..MaxAad, NEW k \in 1..MaxData
  PROVE  OutAt("gcm-seal", GcmFinishAad(GcmHead(v, a)), PtOf(MaxData), k) = GcmByte(v, k)
  <1>1. k - 1 \in 0..MaxData /\ k - 1 \in Nat
    BY DEF Bounds
  <1>2. PICK j \in Nat : j = k - 1 /\ j \in 0..MaxData
    BY <1>1
  <1>3. PICK b : GcmData(v, a, j) = GcmAt(v, a, j, b, a % R # 0)
    BY <1>2, GcmDataIs
  <1>4. Turn("gcm-seal", GcmAt(v, a, j, b, a % R # 0), Plain(k)).out
          = Cover(GcmBlock(v, j), j % R, Plain(k))
    BY GcmSeals
  <1>5. PtOf(MaxData)[k] = Plain(k)
    BY DEF PtOf
  <1>. QED BY <1>2, <1>3, <1>4, <1>5, Zenon DEF OutAt, GcmData, GcmByte

\* A call to seal the next piece, unless the message becomes too long.
LEMMA GcmSealPiece ==
  ASSUME Rate, Counters, Bounds, NEW v, Iv(v), NEW a \in 0..MaxAad,
         NEW d, NEW n, Within(d, n, MaxData),
         NEW c, GcmFinishAad(c) = GcmData(v, a, d), c.len = d, ~ TooLong(d + n)
  PROVE  GcmSeal(c, PtPiece(d, n))
           = [ctx |-> GcmData(v, a, d + n), out |-> [i \in 1..n |-> GcmByte(v, d + i)]]
  <1>. DEFINE in == PtPiece(d, n)
              b == GcmFinishAad(GcmHead(v, a))
              C == [i \in 0..n |-> CtxAt("gcm-seal", b, PtOf(MaxData), d + i)]
              O == [i \in 1..n |-> OutAt("gcm-seal", b, PtOf(MaxData), d + i)]
  <1>1. d \in Nat /\ n \in Nat /\ MaxData \in Nat /\ d + n <= MaxData
    BY DEF Within
  <1>2. IsPiece(in, PtOf(MaxData), d, n) /\ Len(in) = n
    BY PiecesAre, Zenon
  <1>. HIDE DEF in
  <1>3. Runs("gcm-seal", CtxAt("gcm-seal", b, PtOf(MaxData), d), in, C, O)
    BY <1>2, Calls, PieceRuns, Zenon
  <1>4. Bytewise(GcmSealByte, GcmData(v, a, d), in)
          = [ctx |-> C[Len(in)], out |-> Front(O, Len(in))]
    <2>1. Runs("gcm-seal", GcmData(v, a, d), in, C, O)
      BY <1>3, Zenon DEF GcmData
    <2>. HIDE DEF b, C, O
    <2>. QED BY <2>1, GcmSealLoop, Zenon
  <1>5. C[n] = GcmData(v, a, d + n)
    <2>1. n \in 0..n
      BY <1>1
    <2>. QED BY <2>1, Zenon DEF GcmData
  <1>6. Front(O, n) = [i \in 1..n |-> GcmByte(v, d + i)]
    <2>1. ASSUME NEW i \in 1..n PROVE O[i] = GcmByte(v, d + i)
      <3>1. PICK k \in 1..MaxData : k = d + i
        BY <1>1
      <3>2. OutAt("gcm-seal", b, PtOf(MaxData), k) = GcmByte(v, k)
        BY GcmOut, Zenon
      <3>. QED BY <3>1, <3>2, Zenon
    <2>. HIDE DEF O
    <2>. QED BY <2>1, Zenon DEF Front
  <1>. HIDE DEF C, O
  <1>7. Bytewise(GcmSealByte, GcmFinishAad(c), in)
          = [ctx |-> GcmData(v, a, d + n), out |-> [i \in 1..n |-> GcmByte(v, d + i)]]
    BY <1>2, <1>4, <1>5, <1>6, Zenon
  <1>8. ~ TooLong(c.len + Len(in))
    BY <1>2
  <1>. QED BY <1>7, <1>8, Zenon DEF GcmSeal, in

\* A call to open the next piece.
LEMMA GcmOpenPiece ==
  ASSUME Rate, Counters, Bounds, NEW v, Iv(v), NEW a \in 0..MaxAad,
         NEW d, NEW n, Within(d, n, MaxData),
         NEW c, GcmFinishAad(c) = GcmData(v, a, d),
         NEW in, in = [i \in 1..n |-> GcmByte(v, d + i)]
  PROVE  GcmOpen(c, in) = [ctx |-> GcmData(v, a, d + n), out |-> PtPiece(d, n)]
  <1>. DEFINE b == GcmFinishAad(GcmHead(v, a))
              whole == PtOf(MaxData)
              C == [i \in 0..n |-> CtxAt("gcm-seal", b, whole, d + i)]
              O == [i \in 1..n |-> whole[d + i]]
  <1>1. d \in Nat /\ n \in Nat /\ MaxData \in Nat /\ d + n <= MaxData
    BY DEF Within
  <1>2. Len(whole) = MaxData
    BY PiecesAre, Zenon
  <1>3. Undoes("gcm-open", "gcm-seal", b, whole)
    <2>1. Turns("gcm-seal", b, whole)
      BY <1>1, <1>2, LoopTurns, Zenon
    <2>2. ASSUME NEW i \in 1..Len(whole)
          PROVE  Turn("gcm-open", CtxAt("gcm-seal", b, whole, i - 1),
                      OutAt("gcm-seal", b, whole, i))
                   = [ctx |-> CtxAt("gcm-seal", b, whole, i), out |-> whole[i]]
      <3>1. PICK x : x = CtxAt("gcm-seal", b, whole, i - 1)
        OBVIOUS
      <3>2. CtxAt("gcm-seal", b, whole, i) = Turn("gcm-seal", x, whole[i]).ctx
        BY <2>1, <3>1, Zenon DEF Turns
      <3>3. OutAt("gcm-seal", b, whole, i) = Turn("gcm-seal", x, whole[i]).out
        BY <3>1, Zenon DEF OutAt
      <3>4. Turn("gcm-open", x, Turn("gcm-seal", x, whole[i]).out)
              = [ctx |-> Turn("gcm-seal", x, whole[i]).ctx, out |-> whole[i]]
        BY GcmUndoes, Zenon
      <3>. QED BY <3>1, <3>2, <3>3, <3>4, Zenon
    <2>. HIDE DEF whole, b
    <2>. QED BY <2>2, Zenon DEF Undoes
  <1>4. Len(in) = n
    <2>1. in = [i \in 1..n |-> in[i]]
      OBVIOUS
    <2>. QED BY <1>1, <2>1, FunLength, Zenon
  <1>5. IsOutput(in, "gcm-seal", b, whole, d, n)
    <2>1. ASSUME NEW i \in 1..n PROVE in[i] = OutAt("gcm-seal", b, whole, d + i)
      <3>1. PICK k \in 1..MaxData : k = d + i
        BY <1>1
      <3>2. OutAt("gcm-seal", b, whole, k) = GcmByte(v, k)
        BY GcmOut, Zenon
      <3>. QED BY <3>1, <3>2, Zenon
    <2>. HIDE DEF whole, b
    <2>. QED BY <1>1, <1>2, <1>4, <2>1, Zenon DEF IsOutput
  <1>6. Runs("gcm-open", CtxAt("gcm-seal", b, whole, d), in, C, O)
    <2>. HIDE DEF whole, b
    <2>1. Runs("gcm-open", CtxAt("gcm-seal", b, whole, d), in,
               [i \in 0..n |-> CtxAt("gcm-seal", b, whole, d + i)],
               [i \in 1..n |-> whole[d + i]])
      BY <1>3, <1>5, OutputRuns
    <2>. QED BY <2>1, Zenon
  <1>7. Bytewise(GcmOpenByte, GcmData(v, a, d), in)
          = [ctx |-> C[Len(in)], out |-> Front(O, Len(in))]
    <2>1. Runs("gcm-open", GcmData(v, a, d), in, C, O)
      BY <1>6, Zenon DEF GcmData
    <2>. HIDE DEF b, whole, C, O
    <2>. QED BY <2>1, GcmOpenLoop, Zenon
  <1>8. C[n] = GcmData(v, a, d + n)
    <2>1. n \in 0..n
      BY <1>1
    <2>. QED BY <2>1, Zenon DEF GcmData
  <1>9. Front(O, n) = PtPiece(d, n)
    <2>1. ASSUME NEW i \in 1..n PROVE O[i] = Plain(d + i)
      <3>1. d + i \in 1..MaxData
        BY <1>1
      <3>. QED BY <3>1, Zenon DEF PtOf
    <2>. HIDE DEF O
    <2>. QED BY <2>1, Zenon DEF Front, PtPiece
  <1>. HIDE DEF C, O
  <1>10. Bytewise(GcmOpenByte, GcmFinishAad(c), in)
          = [ctx |-> GcmData(v, a, d + n), out |-> PtPiece(d, n)]
    BY <1>4, <1>7, <1>8, <1>9, Zenon
  <1>. QED BY <1>10, Zenon DEF GcmOpen

\* A call with the next piece of additional data.
LEMMA GcmAadPiece ==
  ASSUME Bounds, NEW v, NEW d, NEW n, Within(d, n, MaxAad)
  PROVE  GcmAad(GcmHead(v, d), AadPiece(d, n)) = GcmHead(v, d + n)
  <1>. DEFINE in == AadPiece(d, n)
              b == GcmSetIv(GcmFresh, v)
              C == [i \in 0..n |-> CtxAt("gcm-aad", b, AadOf(MaxAad), d + i)]
              O == [i \in 1..n |-> OutAt("gcm-aad", b, AadOf(MaxAad), d + i)]
  <1>1. n \in 0..n
    BY DEF Within
  <1>2. IsPiece(in, AadOf(MaxAad), d, n) /\ Len(in) = n
    BY PiecesAre, Zenon
  <1>. HIDE DEF in
  <1>3. Runs("gcm-aad", CtxAt("gcm-aad", b, AadOf(MaxAad), d), in, C, O)
    BY <1>2, Calls, PieceRuns, Zenon
  <1>4. Bytewise(GcmAadByte, GcmHead(v, d), in)
          = [ctx |-> C[Len(in)], out |-> Front(O, Len(in))]
    BY <1>3, GcmAadLoop, Zenon DEF GcmHead
  <1>5. C[n] = GcmHead(v, d + n)
    BY <1>1, Zenon DEF GcmHead
  <1>. HIDE DEF C, O
  <1>6. \A x, y : [ctx |-> x, out |-> y].ctx = x
    OBVIOUS
  <1>7. Bytewise(GcmAadByte, GcmHead(v, d), in).ctx = GcmHead(v, d + n)
    BY <1>2, <1>4, <1>5, <1>6, Zenon
  <1>. QED BY <1>7, Zenon DEF GcmAad, in

-----------------------------------------------------------------------------
(* Ascon.                                                                  *)

AsconHead(v, a) == AsconAad(AsconSetIv(AsconFresh, v), AadOf(a))
AsconData(v, a, d) == CtxAt("ascon-seal", AsconHead(v, a), PtOf(MaxData), d)
AsconByte1(v, a, i) == OutAt("ascon-seal", AsconHead(v, a), PtOf(MaxData), i)

KeepsPast(s, q) == \E w : s = [past |-> q, cur |-> w]

\* An XOR leaves what was permuted alone.
LEMMA XorKeeps ==
  ASSUME NEW q, NEW u, NEW at, NEW in
  PROVE  KeepsPast(Xor([past |-> q, cur |-> u], at, in), q)
  <1>1. PICK new : new = {<<at + i - 1, in[i]>> : i \in 1..Len(in)}
    OBVIOUS
  <1>2. Xor([past |-> q, cur |-> u], at, in)
          = [[past |-> q, cur |-> u] EXCEPT !.cur = (@ \ new) \union (new \ @)]
    BY <1>1, Zenon DEF Xor
  <1>3. [[past |-> q, cur |-> u] EXCEPT !.cur = (@ \ new) \union (new \ @)]
          = [past |-> q, cur |-> (u \ new) \union (new \ u)]
    OBVIOUS
  <1>. QED BY <1>2, <1>3, Zenon DEF KeepsPast

\* The additional data leaves a context with a state.
LEMMA AsconHeadIs ==
  ASSUME NEW v, NEW a
  PROVE  HasState(AsconHead(v, a))
  <1>1. \A s : \E q, u : Permute(s) = [past |-> q, cur |-> u]
    BY Zenon DEF Permute
  <1>2. PICK q, u : Permute(Xor(EmptyState, 0, << <<"init", v>> >>)) = [past |-> q, cur |-> u]
    BY <1>1, Zenon
  <1>3. PICK c : c = AsconSetIv(AsconFresh, v)
    OBVIOUS
  <1>4. c = [state |-> [past |-> q, cur |-> u], rate_offset |-> 0]
    BY <1>2, <1>3, Zenon DEF AsconSetIv
  <1>5. CASE AadOf(a) = <<>>
    <2>1. AsconHead(v, a) = c
      BY <1>3, <1>5, Zenon DEF AsconHead, AsconAad
    <2>. QED BY <1>4, <2>1, Zenon DEF HasState
  <1>6. CASE AadOf(a) # <<>>
    <2>1. PICK s : s = Xor(AbsorbBlocks(c.state, AadOf(a)), Len(AadOf(a)) % R, << <<"pad">> >>)
      OBVIOUS
    <2>2. PICK t : t = Xor(Permute(s), Capacity, << <<"trail">> >>)
      OBVIOUS
    <2>3. AsconHead(v, a) = [c EXCEPT !.state = t]
      BY <1>3, <1>6, <2>1, <2>2, Zenon DEF AsconHead, AsconAad
    <2>4. \E x, y : t = [past |-> x, cur |-> y]
      <3>1. PICK x, y : Permute(s) = [past |-> x, cur |-> y]
        BY <1>1, Zenon
      <3>2. KeepsPast(Xor([past |-> x, cur |-> y], Capacity, << <<"trail">> >>), x)
        BY XorKeeps, Zenon
      <3>. QED BY <2>2, <3>1, <3>2, Zenon DEF KeepsPast
    <2>5. [c EXCEPT !.state = t] = [state |-> t, rate_offset |-> 0]
      BY <1>4
    <2>. QED BY <2>3, <2>4, <2>5, Zenon DEF HasState
  <1>. QED BY <1>5, <1>6

\* A byte of data, too.
LEMMA AsconSeals ==
  ASSUME NEW c, HasState(c), NEW p
  PROVE  HasState(Turn("ascon-seal", c, p).ctx)
  <1>1. PICK d : d = AsconTurn(c)
    OBVIOUS
  <1>2. \E q, u, o : d = [state |-> [past |-> q, cur |-> u], rate_offset |-> o]
    BY <1>1 DEF AsconTurn, Permute, HasState
  <1>3. PICK q, u, o : d = [state |-> [past |-> q, cur |-> u], rate_offset |-> o]
    BY <1>2
  <1>4. d.state = [past |-> q, cur |-> u]
    BY <1>3
  <1>5. PICK s : s = Xor(d.state, d.rate_offset, <<p>>)
    OBVIOUS
  <1>6. \E w : s = [past |-> q, cur |-> w]
    <2>1. KeepsPast(Xor([past |-> q, cur |-> u], d.rate_offset, <<p>>), q)
      BY XorKeeps, Zenon
    <2>. QED BY <1>4, <1>5, <2>1, Zenon DEF KeepsPast
  <1>7. \E y : AsconSealByte(c, p)
                 = [ctx |-> [state |-> s, rate_offset |-> d.rate_offset + 1], out |-> y]
    BY <1>1, <1>5, Zenon DEF AsconSealByte
  <1>8. Turn("ascon-seal", c, p) = AsconSealByte(c, p)
    BY DEF Turn
  <1>9. \A x, y : [ctx |-> x, out |-> y].ctx = x
    OBVIOUS
  <1>10. Turn("ascon-seal", c, p).ctx = [state |-> s, rate_offset |-> d.rate_offset + 1]
    BY <1>7, <1>8, <1>9, Zenon
  <1>. QED BY <1>6, <1>10, Zenon DEF HasState

\* After any number of bytes there is a state.
LEMMA AsconDataIs ==
  ASSUME Bounds, NEW v, NEW a, NEW d \in 0..MaxData
  PROVE  HasState(AsconData(v, a, d))
  <1>. DEFINE S == {i \in Nat : i <= MaxData => HasState(AsconData(v, a, i))}
  <1>1. MaxData \in Nat
    BY DEF Bounds
  <1>2. Len(PtOf(MaxData)) = MaxData
    <2>1. Within(0, 0, MaxData)
      BY <1>1 DEF Within
    <2>. QED BY <2>1, PiecesAre, Zenon
  <1>3. Turns("ascon-seal", AsconHead(v, a), PtOf(MaxData))
    BY <1>1, <1>2, LoopTurns, Zenon
  <1>4. 0 \in S
    <2>1. AsconData(v, a, 0) = AsconHead(v, a)
      BY <1>3, Zenon DEF Turns, AsconData
    <2>. QED BY <2>1, AsconHeadIs
  <1>5. ASSUME NEW i \in Nat, i \in S PROVE i + 1 \in S
    <2>. SUFFICES ASSUME i + 1 <= MaxData PROVE HasState(AsconData(v, a, i + 1))
      OBVIOUS
    <2>1. i <= MaxData
      BY <1>1
    <2>2. HasState(AsconData(v, a, i))
      BY <1>5, <2>1
    <2>3. PICK j \in 1..MaxData : j = i + 1 /\ j - 1 = i
      BY <1>1
    <2>4. AsconData(v, a, j) = Turn("ascon-seal", AsconData(v, a, j - 1), PtOf(MaxData)[j]).ctx
      BY <1>2, <1>3, Zenon DEF Turns, AsconData
    <2>5. HasState(Turn("ascon-seal", AsconData(v, a, i), PtOf(MaxData)[j]).ctx)
      BY <2>2, AsconSeals, Zenon
    <2>. QED BY <2>3, <2>4, <2>5, Zenon
  <1>. HIDE DEF S
  <1>6. d \in S /\ d <= MaxData
    BY <1>1, <1>4, <1>5, SetInduction
  <1>. QED BY <1>6 DEF S

\* The first additional data that is not empty is all of it.
LEMMA AsconAadPiece ==
  ASSUME NEW v, NEW d \in Nat, NEW n \in Nat, n = 0 \/ d = 0
  PROVE  AsconAad(AsconHead(v, d), AadPiece(d, n)) = AsconHead(v, d + n)
  <1>1. \A c : AsconAad(c, <<>>) = c
    BY Zenon DEF AsconAad
  <1>2. CASE n = 0
    <2>1. AadPiece(d, n) = <<>>
      BY <1>2 DEF AadPiece
    <2>2. d + n = d
      BY <1>2
    <2>. QED BY <1>1, <2>1, <2>2, Zenon
  <1>3. CASE d = 0
    <2>1. AadPiece(d, n) = AadOf(n)
      BY <1>3 DEF AadPiece, AadOf
    <2>2. AadOf(d) = <<>> /\ d + n = n
      BY <1>3 DEF AadOf
    <2>3. AsconHead(v, d) = AsconSetIv(AsconFresh, v)
      BY <1>1, <2>2, Zenon DEF AsconHead
    <2>. QED BY <2>1, <2>2, <2>3, Zenon DEF AsconHead
  <1>. QED BY <1>2, <1>3

\* A call to seal the next piece.
LEMMA AsconSealPiece ==
  ASSUME NEW v, NEW a, NEW d, NEW n, Within(d, n, MaxData)
  PROVE  Bytewise(AsconSealByte, AsconData(v, a, d), PtPiece(d, n))
           = [ctx |-> AsconData(v, a, d + n), out |-> [i \in 1..n |-> AsconByte1(v, a, d + i)]]
  <1>. DEFINE in == PtPiece(d, n)
              b == AsconHead(v, a)
              C == [i \in 0..n |-> CtxAt("ascon-seal", b, PtOf(MaxData), d + i)]
              O == [i \in 1..n |-> OutAt("ascon-seal", b, PtOf(MaxData), d + i)]
  <1>1. d \in Nat /\ n \in Nat /\ MaxData \in Nat /\ d + n <= MaxData
    BY DEF Within
  <1>2. IsPiece(in, PtOf(MaxData), d, n) /\ Len(in) = n
    BY PiecesAre, Zenon
  <1>. HIDE DEF in
  <1>3. Runs("ascon-seal", CtxAt("ascon-seal", b, PtOf(MaxData), d), in, C, O)
    BY <1>2, Calls, PieceRuns, Zenon
  <1>4. Bytewise(AsconSealByte, AsconData(v, a, d), in)
          = [ctx |-> C[Len(in)], out |-> Front(O, Len(in))]
    <2>1. Runs("ascon-seal", AsconData(v, a, d), in, C, O)
      BY <1>3, Zenon DEF AsconData
    <2>. HIDE DEF b, C, O
    <2>. QED BY <2>1, AsconSealLoop, Zenon
  <1>5. C[n] = AsconData(v, a, d + n)
    <2>1. n \in 0..n
      BY <1>1
    <2>. QED BY <2>1, Zenon DEF AsconData
  <1>6. Front(O, n) = [i \in 1..n |-> AsconByte1(v, a, d + i)]
    <2>1. ASSUME NEW i \in 1..n PROVE O[i] = AsconByte1(v, a, d + i)
      BY Zenon DEF AsconByte1
    <2>. HIDE DEF O
    <2>. QED BY <2>1, Zenon DEF Front
  <1>. HIDE DEF C, O
  <1>. QED BY <1>2, <1>4, <1>5, <1>6, Zenon DEF in

\* A call to open the next piece.
LEMMA AsconOpenPiece ==
  ASSUME Bounds, NEW v, NEW a, NEW d, NEW n, Within(d, n, MaxData),
         NEW in, in = [i \in 1..n |-> AsconByte1(v, a, d + i)]
  PROVE  Bytewise(AsconOpenByte, AsconData(v, a, d), in)
           = [ctx |-> AsconData(v, a, d + n), out |-> PtPiece(d, n)]
  <1>. DEFINE b == AsconHead(v, a)
              whole == PtOf(MaxData)
              C == [i \in 0..n |-> CtxAt("ascon-seal", b, whole, d + i)]
              O == [i \in 1..n |-> whole[d + i]]
  <1>1. d \in Nat /\ n \in Nat /\ MaxData \in Nat /\ d + n <= MaxData
    BY DEF Within
  <1>2. Len(whole) = MaxData
    BY PiecesAre, Zenon
  <1>3. Undoes("ascon-open", "ascon-seal", b, whole)
    <2>1. Turns("ascon-seal", b, whole)
      BY <1>1, <1>2, LoopTurns, Zenon
    <2>2. ASSUME NEW i \in 1..Len(whole)
          PROVE  Turn("ascon-open", CtxAt("ascon-seal", b, whole, i - 1),
                      OutAt("ascon-seal", b, whole, i))
                   = [ctx |-> CtxAt("ascon-seal", b, whole, i), out |-> whole[i]]
      <3>1. PICK x : x = CtxAt("ascon-seal", b, whole, i - 1)
        OBVIOUS
      <3>2. CtxAt("ascon-seal", b, whole, i) = Turn("ascon-seal", x, whole[i]).ctx
        BY <2>1, <3>1, Zenon DEF Turns
      <3>3. OutAt("ascon-seal", b, whole, i) = Turn("ascon-seal", x, whole[i]).out
        BY <3>1, Zenon DEF OutAt
      <3>4. Turn("ascon-open", x, Turn("ascon-seal", x, whole[i]).out)
              = [ctx |-> Turn("ascon-seal", x, whole[i]).ctx, out |-> whole[i]]
        <4>1. i - 1 \in 0..MaxData
          BY <1>1, <1>2
        <4>2. HasState(x)
          BY <3>1, <4>1, AsconDataIs, Zenon DEF AsconData
        <4>. QED BY <4>2, AsconUndoes, Zenon
      <3>. QED BY <3>1, <3>2, <3>3, <3>4, Zenon
    <2>. HIDE DEF whole, b
    <2>. QED BY <2>2, Zenon DEF Undoes
  <1>4. Len(in) = n
    <2>1. in = [i \in 1..n |-> in[i]]
      OBVIOUS
    <2>. QED BY <1>1, <2>1, FunLength, Zenon
  <1>5. IsOutput(in, "ascon-seal", b, whole, d, n)
    <2>1. ASSUME NEW i \in 1..n PROVE in[i] = OutAt("ascon-seal", b, whole, d + i)
      BY Zenon DEF AsconByte1
    <2>. HIDE DEF whole, b
    <2>. QED BY <1>1, <1>2, <1>4, <2>1, Zenon DEF IsOutput
  <1>6. Runs("ascon-open", CtxAt("ascon-seal", b, whole, d), in, C, O)
    <2>. HIDE DEF whole, b
    <2>1. Runs("ascon-open", CtxAt("ascon-seal", b, whole, d), in,
               [i \in 0..n |-> CtxAt("ascon-seal", b, whole, d + i)],
               [i \in 1..n |-> whole[d + i]])
      BY <1>3, <1>5, OutputRuns
    <2>. QED BY <2>1, Zenon
  <1>7. Bytewise(AsconOpenByte, AsconData(v, a, d), in)
          = [ctx |-> C[Len(in)], out |-> Front(O, Len(in))]
    <2>1. Runs("ascon-open", AsconData(v, a, d), in, C, O)
      BY <1>6, Zenon DEF AsconData
    <2>. HIDE DEF b, whole, C, O
    <2>. QED BY <2>1, AsconOpenLoop, Zenon
  <1>8. C[n] = AsconData(v, a, d + n)
    <2>1. n \in 0..n
      BY <1>1
    <2>. QED BY <2>1, Zenon DEF AsconData
  <1>9. Front(O, n) = PtPiece(d, n)
    <2>1. ASSUME NEW i \in 1..n PROVE O[i] = Plain(d + i)
      <3>1. d + i \in 1..MaxData
        BY <1>1
      <3>. QED BY <3>1, Zenon DEF PtOf
    <2>. HIDE DEF O
    <2>. QED BY <2>1, Zenon DEF Front, PtPiece
  <1>. HIDE DEF C, O
  <1>. QED BY <1>4, <1>7, <1>8, <1>9, Zenon

-----------------------------------------------------------------------------
(* ChaCha20-Poly1305.                                                      *)

\* The context after d bytes of key stream.
ChaAt(v, a, l, d, poly) ==
  [key |-> v, counter |-> IF d = 0 THEN 1 ELSE ((d - 1) \div R) + 2,
   keystream_ptr |-> IF d = 0 THEN 0 ELSE ((d - 1) % R) + 1,
   poly1305 |-> poly, aadlen |-> a, datalen |-> l]

ChaByte(v, i) == Cover(<<v, ((i - 1) \div R) + 1>>, (i - 1) % R, Plain(i))

\* e is the context c with the key stream byte after the first d.
ChaNext(c, e, v, d) ==
  /\ ChaStream(c) = e
  /\ ChaBlock(e) = <<v, (d \div R) + 1>>
  /\ e.keystream_ptr - 1 = d % R

\* The next byte of key stream is that of its place.
LEMMA ChaStreams ==
  ASSUME Rate, NEW v, NEW a, NEW l, NEW d \in Nat, NEW poly
  PROVE  ChaNext(ChaAt(v, a, l, d, poly), ChaAt(v, a, l, d + 1, poly), v, d)
  <1>1. d % R \in 0..(R - 1) /\ d \div R \in Nat
    BY DEF Rate
  <1>2. PICK f : f = [key |-> v, counter |-> (d \div R) + 2,
                      keystream_ptr |-> (d % R) + 1,
                      poly1305 |-> poly, aadlen |-> a, datalen |-> l]
    OBVIOUS
  <1>3. ChaAt(v, a, l, d + 1, poly) = f
    <2>1. d + 1 # 0 /\ (d + 1) - 1 = d
      OBVIOUS
    <2>. QED BY <1>2, <2>1, Zenon DEF ChaAt
  <1>4. f.key = v /\ f.counter = (d \div R) + 2 /\ f.keystream_ptr = (d % R) + 1
    BY <1>2
  <1>5. f.keystream_ptr - 1 = d % R
    BY <1>1, <1>4
  <1>6. ChaBlock(f) = <<v, (d \div R) + 1>>
    <2>1. f.counter - 1 = (d \div R) + 1
      BY <1>1, <1>4
    <2>. QED BY <1>4, <2>1, Zenon DEF ChaBlock
  <1>7. ChaStream(ChaAt(v, a, l, d, poly)) = f
    <2>1. PICK k, p : /\ k = IF d = 0 THEN 1 ELSE ((d - 1) \div R) + 2
                      /\ p = IF d = 0 THEN 0 ELSE ((d - 1) % R) + 1
      OBVIOUS
    <2>2. PICK c : c = [key |-> v, counter |-> k, keystream_ptr |-> p,
                        poly1305 |-> poly, aadlen |-> a, datalen |-> l]
      OBVIOUS
    <2>3. c = ChaAt(v, a, l, d, poly)
      BY <2>1, <2>2, Zenon DEF ChaAt
    <2>4. c.keystream_ptr = p
      BY <2>2
    <2>5. CASE d % R = 0
      <3>1. p \in {0, R} /\ k + 1 = (d \div R) + 2
        <4>1. CASE d = 0
          <5>1. d \div R = 0
            BY <4>1 DEF Rate
          <5>. QED BY <2>1, <4>1, <5>1
        <4>2. CASE d # 0
          <5>1. PICK e \in Nat : e = d - 1 /\ d = e + 1
            BY <4>2
          <5>2. e % R \in 0..(R - 1) /\ e \div R \in Nat
            BY DEF Rate
          <5>3. /\ e % R # R - 1 => (e + 1) % R = (e % R) + 1
                /\ e % R = R - 1 => (e + 1) \div R = (e \div R) + 1
            BY NextByte, Zenon DEF Rate
          <5>4. e % R = R - 1 /\ d \div R = (e \div R) + 1
            BY <2>5, <5>1, <5>2, <5>3
          <5>5. p = (e % R) + 1 /\ k = (e \div R) + 2
            BY <2>1, <4>2, <5>1
          <5>. QED BY <5>2, <5>4, <5>5 DEF Rate
        <4>. QED BY <4>1, <4>2
      <3>2. ChaStream(c) = [c EXCEPT !.counter = @ + 1, !.keystream_ptr = 1]
        BY <2>4, <3>1, Zenon DEF ChaStream
      <3>3. [c EXCEPT !.counter = @ + 1, !.keystream_ptr = 1]
              = [key |-> v, counter |-> k + 1, keystream_ptr |-> 1,
                 poly1305 |-> poly, aadlen |-> a, datalen |-> l]
        <4>1. PICK e : e = [c EXCEPT !.counter = @ + 1]
          OBVIOUS
        <4>2. e = [key |-> v, counter |-> k + 1, keystream_ptr |-> p,
                   poly1305 |-> poly, aadlen |-> a, datalen |-> l]
          BY <2>2, <4>1
        <4>3. [e EXCEPT !.keystream_ptr = 1]
                = [key |-> v, counter |-> k + 1, keystream_ptr |-> 1,
                   poly1305 |-> poly, aadlen |-> a, datalen |-> l]
          BY <4>2
        <4>. QED BY <4>1, <4>3, Zenon
      <3>4. (d % R) + 1 = 1
        BY <2>5
      <3>. QED BY <1>2, <2>3, <3>1, <3>2, <3>3, <3>4, Zenon
    <2>6. CASE d % R # 0
      <3>1. p \notin {0, R} /\ k = (d \div R) + 2 /\ p + 1 = (d % R) + 1
        <4>1. PICK e \in Nat : e = d - 1 /\ d = e + 1 /\ d # 0
          <5>1. d # 0
            BY <2>6 DEF Rate
          <5>. QED BY <5>1
        <4>2. e % R \in 0..(R - 1) /\ e \div R \in Nat
          BY DEF Rate
        <4>3. /\ e % R # R - 1 => (e + 1) \div R = e \div R /\ (e + 1) % R = (e % R) + 1
              /\ e % R = R - 1 => (e + 1) % R = 0
          BY NextByte, Zenon DEF Rate
        <4>4. e % R # R - 1 /\ d \div R = e \div R /\ d % R = (e % R) + 1
          BY <2>6, <4>1, <4>2, <4>3
        <4>5. p = (e % R) + 1 /\ k = (e \div R) + 2
          BY <2>1, <4>1
        <4>. QED BY <1>1, <4>2, <4>4, <4>5 DEF Rate
      <3>2. ChaStream(c) = [c EXCEPT !.keystream_ptr = @ + 1]
        BY <2>4, <3>1, Zenon DEF ChaStream
      <3>3. [c EXCEPT !.keystream_ptr = @ + 1]
              = [key |-> v, counter |-> k, keystream_ptr |-> p + 1,
                 poly1305 |-> poly, aadlen |-> a, datalen |-> l]
        BY <2>2
      <3>. QED BY <1>2, <2>3, <3>1, <3>2, <3>3, Zenon
    <2>. QED BY <2>5, <2>6
  <1>. QED BY <1>3, <1>5, <1>6, <1>7, Zenon DEF ChaNext

\* The bytes p and b take the context c to e, for sealing and for opening.
ChaTurn(c, e, p, b) ==
  /\ Turn("cha-seal", c, p) = [ctx |-> e, out |-> b]
  /\ Turn("cha-open", c, b) = [ctx |-> e, out |-> p]

\* A byte is sealed and opened with the key stream of its place.
LEMMA ChaTurns ==
  ASSUME Rate, NEW v, NEW a, NEW l, NEW d \in Nat, NEW poly
  PROVE  ChaTurn(ChaAt(v, a, l, d, poly), ChaAt(v, a, l, d + 1, poly),
                 Plain(d + 1), ChaByte(v, d + 1))
  <1>1. PICK c, e : c = ChaAt(v, a, l, d, poly) /\ e = ChaAt(v, a, l, d + 1, poly)
    OBVIOUS
  <1>2. ChaStream(c) = e /\ ChaBlock(e) = <<v, (d \div R) + 1>> /\ e.keystream_ptr - 1 = d % R
    <2>1. ChaNext(c, e, v, d)
      BY <1>1, ChaStreams
    <2>. QED BY <2>1, Zenon DEF ChaNext
  <1>3. ChaByte(v, d + 1) = Cover(ChaBlock(e), e.keystream_ptr - 1, Plain(d + 1))
    <2>1. (d + 1) - 1 = d
      OBVIOUS
    <2>. QED BY <1>2, <2>1, Zenon DEF ChaByte
  <1>4. ChaSealByte(c, Plain(d + 1)) = [ctx |-> e, out |-> ChaByte(v, d + 1)]
    BY <1>2, <1>3, Zenon DEF ChaSealByte
  <1>5. Uncover(ChaBlock(e), e.keystream_ptr - 1, ChaByte(v, d + 1)) = Plain(d + 1)
    BY <1>3, CoverComesOff, ZenonT(60)
  <1>6. ChaOpenByte(c, ChaByte(v, d + 1)) = [ctx |-> e, out |-> Plain(d + 1)]
    BY <1>2, <1>5, Zenon DEF ChaOpenByte
  <1>7. \A b : /\ Turn("cha-seal", c, b) = ChaSealByte(c, b)
               /\ Turn("cha-open", c, b) = ChaOpenByte(c, b)
    BY DEF Turn
  <1>. QED BY <1>1, <1>4, <1>6, <1>7, Zenon DEF ChaTurn

ChaPiece(v, d, n) == [i \in 1..n |-> ChaByte(v, d + i)]

\* The pieces p and q take the context c to e, for sealing and for opening.
ChaCall(c, e, p, q) ==
  /\ Bytewise(ChaSealByte, c, p) = [ctx |-> e, out |-> q]
  /\ Bytewise(ChaOpenByte, c, q) = [ctx |-> e, out |-> p]

\* The key stream of a call, for sealing and for opening.
LEMMA ChaCrypts ==
  ASSUME Rate, NEW v, NEW a, NEW l, NEW d \in Nat, NEW n \in Nat, NEW poly
  PROVE  ChaCall(ChaAt(v, a, l, d, poly), ChaAt(v, a, l, d + n, poly),
                 PtPiece(d, n), ChaPiece(v, d, n))
  <1>. DEFINE C == [i \in 0..n |-> ChaAt(v, a, l, d + i, poly)]
              p == PtPiece(d, n)
              q == ChaPiece(v, d, n)
  <1>1. Len(p) = n /\ Len(q) = n
    <2>1. p = [i \in 1..n |-> p[i]] /\ q = [i \in 1..n |-> q[i]]
      BY DEF PtPiece, ChaPiece
    <2>. QED BY <2>1, FunLength, Zenon
  <1>2. ASSUME NEW i \in 1..n
        PROVE  /\ Turn("cha-seal", C[i - 1], p[i]) = [ctx |-> C[i], out |-> q[i]]
               /\ Turn("cha-open", C[i - 1], q[i]) = [ctx |-> C[i], out |-> p[i]]
    <2>1. i - 1 \in 0..n /\ i \in 0..n
      OBVIOUS
    <2>2. PICK k \in Nat : k = d + (i - 1) /\ k + 1 = d + i
      OBVIOUS
    <2>3. C[i - 1] = ChaAt(v, a, l, k, poly) /\ C[i] = ChaAt(v, a, l, k + 1, poly)
      BY <2>1, <2>2, Zenon
    <2>4. p[i] = Plain(k + 1) /\ q[i] = ChaByte(v, k + 1)
      BY <2>2, Zenon DEF PtPiece, ChaPiece
    <2>. HIDE DEF C, p, q
    <2>5. ChaTurn(C[i - 1], C[i], p[i], q[i])
      BY <2>3, <2>4, ChaTurns, Zenon
    <2>. QED BY <2>5 DEF ChaTurn
  <1>3. C[0] = ChaAt(v, a, l, d, poly) /\ C[n] = ChaAt(v, a, l, d + n, poly)
    <2>1. 0 \in 0..n /\ n \in 0..n /\ d + 0 = d
      OBVIOUS
    <2>. QED BY <2>1, Zenon
  <1>4. Front(q, n) = q /\ Front(p, n) = p
    BY Zenon DEF Front, PtPiece, ChaPiece
  <1>5. PICK c : c = ChaAt(v, a, l, d, poly)
    OBVIOUS
  <1>. HIDE DEF C, p, q
  <1>6. Runs("cha-seal", c, p, C, q) /\ Runs("cha-open", c, q, C, p)
    BY <1>1, <1>2, <1>3, <1>5, Zenon DEF Runs
  <1>7. Bytewise(ChaSealByte, c, p) = [ctx |-> C[Len(p)], out |-> Front(q, Len(p))]
    BY <1>6, ChaSealLoop, Zenon
  <1>8. Bytewise(ChaOpenByte, c, q) = [ctx |-> C[Len(q)], out |-> Front(p, Len(q))]
    BY <1>6, ChaOpenLoop, Zenon
  <1>. QED BY <1>1, <1>3, <1>4, <1>5, <1>7, <1>8, Zenon DEF p, q, ChaCall

\* The values of f from d on.
Later(f, d, n) == [i \in 1..n |-> f[d + i]]

\* The values of a function in two parts.
LEMMA CatGrows ==
  ASSUME NEW T, NEW d \in Nat, NEW n \in Nat, NEW f \in [1..(d + n) -> T]
  PROVE  /\ Front(f, d) \in Seq(T) /\ Later(f, d, n) \in Seq(T)
         /\ Front(f, d) \o Later(f, d, n) = Front(f, d + n)
         /\ Front(f, d + n) \in Seq(T)
  <1>1. /\ Front(f, d) \in [1..d -> T] /\ Later(f, d, n) \in [1..n -> T]
        /\ Front(f, d + n) \in [1..(d + n) -> T]
    BY DEF Front, Later
  <1>2. PICK s, t, u : s = Front(f, d) /\ t = Later(f, d, n) /\ u = Front(f, d + n)
    OBVIOUS
  <1>3. /\ \A i \in 1..d : s[i] = f[i]
        /\ \A i \in 1..n : t[i] = f[d + i]
        /\ \A i \in 1..(d + n) : u[i] = f[i]
    BY <1>2 DEF Front, Later
  <1>4. /\ s \in Seq(T) /\ Len(s) = d /\ t \in Seq(T) /\ Len(t) = n
        /\ u \in Seq(T) /\ Len(u) = d + n
    BY <1>1, <1>2, FunIsSeq
  <1>5. PICK w : w = s \o t
    OBVIOUS
  <1>6. /\ w \in Seq(T) /\ Len(w) = d + n
        /\ \A i \in 1..(d + n) : w[i] = IF i <= d THEN s[i] ELSE t[i - d]
    <2>1. /\ w \in Seq(T) /\ Len(w) = Len(s) + Len(t)
          /\ \A i \in 1..Len(s) + Len(t) :
               w[i] = IF i <= Len(s) THEN s[i] ELSE t[i - Len(s)]
      <3>1. /\ s \o t \in Seq(T) /\ Len(s \o t) = Len(s) + Len(t)
            /\ \A i \in 1..Len(s) + Len(t) :
                 (s \o t)[i] = IF i <= Len(s) THEN s[i] ELSE t[i - Len(s)]
        BY <1>4, ConcatProperties
      <3>. QED BY <1>5, <3>1, Zenon
    <2>. QED BY <1>4, <2>1
  <1>7. \A i \in 1..(d + n) : w[i] = u[i]
    <2>. SUFFICES ASSUME NEW i \in 1..(d + n) PROVE w[i] = u[i]
      OBVIOUS
    <2>1. CASE i <= d
      <3>1. i \in 1..d
        BY <2>1
      <3>. QED BY <1>3, <1>6, <2>1, <3>1
    <2>2. CASE i > d
      <3>1. i - d \in 1..n /\ d + (i - d) = i
        BY <2>2
      <3>2. t[i - d] = f[d + (i - d)]
        BY <1>3, <3>1
      <3>. QED BY <1>3, <1>6, <2>2, <3>1, <3>2
    <2>. QED BY <2>1, <2>2
  <1>8. w = u
    BY <1>4, <1>6, <1>7, SeqSame
  <1>. QED BY <1>2, <1>4, <1>5, <1>8

\* What Poly1305 is given for the additional data and for the ciphertext.
MacHead(a) == IF a = 0 THEN <<>> ELSE AadOf(a) \o Zeros(R - (a % R))
MacBytes(v, n) == [i \in 1..n |-> Authentic(ChaByte(v, i))]
MacPiece(v, d, n) == [i \in 1..n |-> Authentic(ChaByte(v, d + i))]
Poly(v, a, d) == MacHead(a) \o MacBytes(v, d)

\* What the update that follows d bytes of data has given to Poly1305.
Padded(poly, a, d) ==
  IF d # 0 \/ a = 0 THEN poly ELSE poly \o Zeros(R - (a % R))

\* What it has been given after the update with the next n bytes of data.
MacInput(poly, v, a, d, n) == Padded(poly, a, d) \o MacPiece(v, d, n)

\* More additional data, more data.
LEMMA PolyGrows ==
  ASSUME Rate, NEW v, NEW a \in Nat, NEW d \in Nat, NEW n \in Nat
  PROVE  /\ AadOf(a) \o AadPiece(a, n) = AadOf(a + n)
         /\ Poly(v, a, d) \o MacPiece(v, d, n) = Poly(v, a, d + n)
         /\ Poly(v, a, 0) = MacHead(a)
  <1>1. AadOf(a) \o AadPiece(a, n) = AadOf(a + n)
    <2>. DEFINE T == {<<"aad", i>> : i \in Nat}
    <2>1. PICK f : f = AadOf(a + n)
      OBVIOUS
    <2>2. f \in [1..(a + n) -> T]
      BY <2>1 DEF AadOf
    <2>. HIDE DEF T
    <2>3. Front(f, a) \o Later(f, a, n) = Front(f, a + n)
      BY <2>2, CatGrows, ZenonT(60)
    <2>4. ASSUME NEW i \in 1..a PROVE f[i] = <<"aad", i>>
      BY <2>1 DEF AadOf
    <2>5. ASSUME NEW i \in 1..n PROVE f[a + i] = <<"aad", a + i>>
      <3>1. a + i \in 1..(a + n)
        OBVIOUS
      <3>. QED BY <2>1, <3>1 DEF AadOf
    <2>6. ASSUME NEW i \in 1..(a + n) PROVE f[i] = <<"aad", i>>
      BY <2>1 DEF AadOf
    <2>7. Front(f, a) = AadOf(a)
      BY <2>4, Zenon DEF Front, AadOf
    <2>8. Later(f, a, n) = AadPiece(a, n)
      BY <2>5, Zenon DEF Later, AadPiece
    <2>9. Front(f, a + n) = AadOf(a + n)
      BY <2>6, Zenon DEF Front, AadOf
    <2>. QED BY <2>3, <2>7, <2>8, <2>9, Zenon
  <1>. DEFINE T == {<<"aad", i>> : i \in Nat} \union {<<"zero">>}
                   \union {Authentic(ChaByte(v, i)) : i \in Nat}
  <1>2. MacHead(a) \in Seq(T)
    <2>1. CASE a = 0
      BY <2>1 DEF MacHead
    <2>2. CASE a # 0
      <3>1. AadOf(a) \in [1..a -> T]
        BY DEF AadOf
      <3>2. PICK k \in Nat : k = R - (a % R)
        <4>1. a % R \in 0..(R - 1) /\ R \in Nat
          BY DEF Rate
        <4>. QED BY <4>1
      <3>3. Zeros(k) \in [1..k -> T]
        BY DEF Zeros
      <3>. HIDE DEF T
      <3>4. AadOf(a) \in Seq(T) /\ Zeros(k) \in Seq(T)
        BY <3>1, <3>3, FunIsSeq
      <3>5. AadOf(a) \o Zeros(k) \in Seq(T)
        BY <3>4, ConcatProperties
      <3>. QED BY <2>2, <3>2, <3>5, Zenon DEF MacHead
    <2>. QED BY <2>1, <2>2
  <1>3. PICK f : f = MacBytes(v, d + n)
    OBVIOUS
  <1>4. f \in [1..(d + n) -> T]
    <2>1. ASSUME NEW i \in 1..(d + n) PROVE Authentic(ChaByte(v, i)) \in T
      <3>1. i \in Nat
        OBVIOUS
      <3>. QED BY <3>1, Zenon
    <2>. HIDE DEF T
    <2>2. MacBytes(v, d + n) \in [1..(d + n) -> T]
      BY <2>1, Zenon DEF MacBytes
    <2>. QED BY <1>3, <2>2
  <1>. HIDE DEF T
  <1>5. /\ Front(f, d) \in Seq(T) /\ Later(f, d, n) \in Seq(T)
        /\ Front(f, d) \o Later(f, d, n) = Front(f, d + n)
    BY <1>4, CatGrows, ZenonT(60)
  <1>6. ASSUME NEW i \in 1..(d + n) PROVE f[i] = Authentic(ChaByte(v, i))
    BY <1>3, Zenon DEF MacBytes
  <1>7. Front(f, d) = MacBytes(v, d)
    <2>1. ASSUME NEW i \in 1..d PROVE f[i] = Authentic(ChaByte(v, i))
      <3>1. i \in 1..(d + n)
        OBVIOUS
      <3>. QED BY <1>6, <3>1, Zenon
    <2>. QED BY <2>1, Zenon DEF Front, MacBytes
  <1>8. Later(f, d, n) = MacPiece(v, d, n)
    <2>1. ASSUME NEW i \in 1..n PROVE f[d + i] = Authentic(ChaByte(v, d + i))
      <3>1. d + i \in 1..(d + n)
        OBVIOUS
      <3>. QED BY <1>6, <3>1, Zenon
    <2>. QED BY <2>1, Zenon DEF Later, MacPiece
  <1>9. Front(f, d + n) = MacBytes(v, d + n)
    BY <1>6, Zenon DEF Front, MacBytes
  <1>10. (MacHead(a) \o MacBytes(v, d)) \o MacPiece(v, d, n)
           = MacHead(a) \o (MacBytes(v, d) \o MacPiece(v, d, n))
    BY <1>2, <1>5, <1>7, <1>8, ConcatAssociative, SMTT(60)
  <1>11. Poly(v, a, d) \o MacPiece(v, d, n) = Poly(v, a, d + n)
    BY <1>5, <1>7, <1>8, <1>9, <1>10, Zenon DEF Poly
  <1>12. Poly(v, a, 0) = MacHead(a)
    <2>1. MacBytes(v, 0) = <<>>
      BY DEF MacBytes
    <2>2. MacHead(a) \o <<>> = MacHead(a)
      BY <1>2, ConcatEmptySeq
    <2>. QED BY <2>1, <2>2, Zenon DEF Poly
  <1>. QED BY <1>1, <1>11, <1>12

\* The update that takes p to q, sealing, and q to p, opening.
ChaUpdate(c, e, p, q) ==
  /\ ChaSeal(c, p) = [ctx |-> e, out |-> q]
  /\ ChaOpen(c, q) = [ctx |-> e, out |-> p]

\* An update pads the additional data, streams and authenticates.
LEMMA ChaUpdates ==
  ASSUME Rate, NEW v, NEW a \in Nat, NEW d \in Nat, NEW n \in Nat, NEW poly
  PROVE  ChaUpdate(ChaAt(v, a, d, d, poly),
                   ChaAt(v, a, d + n, d + n, MacInput(poly, v, a, d, n)),
                   PtPiece(d, n), ChaPiece(v, d, n))
  <1>1. PICK c, b : c = ChaAt(v, a, d, d, poly) /\ b = ChaAt(v, a, d, d, Padded(poly, a, d))
    OBVIOUS
  <1>2. ChaPadAad(c) = b
    <2>1. c.datalen = d /\ c.aadlen = a /\ c.poly1305 = poly
      BY <1>1 DEF ChaAt
    <2>2. CASE d # 0 \/ a = 0
      <3>1. Padded(poly, a, d) = poly
        BY <2>2 DEF Padded
      <3>. QED BY <1>1, <2>1, <2>2, <3>1, Zenon DEF ChaPadAad
    <2>3. CASE ~(d # 0 \/ a = 0)
      <3>1. PICK z : z = poly \o Zeros(R - (a % R))
        OBVIOUS
      <3>2. Padded(poly, a, d) = z
        BY <2>3, <3>1 DEF Padded
      <3>3. ChaPadAad(c) = [c EXCEPT !.poly1305 = @ \o Zeros(R - (a % R))]
        BY <2>1, <2>3, Zenon DEF ChaPadAad
      <3>4. [c EXCEPT !.poly1305 = @ \o Zeros(R - (a % R))] = [c EXCEPT !.poly1305 = z]
        BY <2>1, <3>1, Zenon
      <3>5. [c EXCEPT !.poly1305 = z] = b
        BY <1>1, <3>2 DEF ChaAt
      <3>. QED BY <3>3, <3>4, <3>5, Zenon
    <2>. QED BY <2>2, <2>3
  <1>3. PICK p, q : p = PtPiece(d, n) /\ q = ChaPiece(v, d, n)
    OBVIOUS
  <1>4. PICK e : e = ChaAt(v, a, d, d + n, Padded(poly, a, d))
    OBVIOUS
  <1>5. ChaCall(b, e, p, q)
    BY <1>1, <1>3, <1>4, ChaCrypts
  <1>6. Len(q) = n /\ \A i \in 1..n : q[i] = ChaByte(v, d + i)
    <2>1. q = [i \in 1..n |-> q[i]] /\ \A i \in 1..n : q[i] = ChaByte(v, d + i)
      BY <1>3, Zenon DEF ChaPiece
    <2>. QED BY <2>1, FunLength, Zenon
  <1>7. [i \in 1..Len(q) |-> Authentic(q[i])] = MacPiece(v, d, n)
    BY <1>6, Zenon DEF MacPiece
  <1>8. PICK m, f : /\ m = MacInput(poly, v, a, d, n)
                    /\ f = ChaAt(v, a, d + n, d + n, m)
    OBVIOUS
  <1>9. ChaMac(e, q) = f
    <2>1. e.poly1305 = Padded(poly, a, d)
      BY <1>4 DEF ChaAt
    <2>2. ChaMac(e, q) = [e EXCEPT !.poly1305 = m, !.datalen = @ + n]
      BY <1>6, <1>7, <1>8, <2>1, Zenon DEF ChaMac, MacInput
    <2>3. [e EXCEPT !.poly1305 = m, !.datalen = @ + n] = f
      <3>1. PICK x : x = [e EXCEPT !.poly1305 = m]
        OBVIOUS
      <3>2. x = ChaAt(v, a, d, d + n, m)
        BY <1>4, <3>1 DEF ChaAt
      <3>3. PICK k, o : \A l : ChaAt(v, a, l, d + n, m)
                               = [key |-> v, counter |-> k, keystream_ptr |-> o,
                                  poly1305 |-> m, aadlen |-> a, datalen |-> l]
        BY Zenon DEF ChaAt
      <3>4. x = [key |-> v, counter |-> k, keystream_ptr |-> o,
                 poly1305 |-> m, aadlen |-> a, datalen |-> d]
        BY <3>2, <3>3, Zenon
      <3>5. [x EXCEPT !.datalen = @ + n]
              = [key |-> v, counter |-> k, keystream_ptr |-> o,
                 poly1305 |-> m, aadlen |-> a, datalen |-> d + n]
        BY <3>4
      <3>. QED BY <1>8, <3>1, <3>3, <3>5, Zenon
    <2>. QED BY <2>2, <2>3, Zenon
  <1>10. \A x, y : [ctx |-> x, out |-> y].ctx = x /\ [ctx |-> x, out |-> y].out = y
    OBVIOUS
  <1>11. ChaSeal(c, p) = [ctx |-> f, out |-> q]
    <2>1. Bytewise(ChaSealByte, b, p) = [ctx |-> e, out |-> q]
      BY <1>5, Zenon DEF ChaCall
    <2>2. Bytewise(ChaSealByte, ChaPadAad(c), p) = [ctx |-> e, out |-> q]
      BY <1>2, <2>1
    <2>3. PICK r : r = Bytewise(ChaSealByte, ChaPadAad(c), p)
      OBVIOUS
    <2>4. r.ctx = e /\ r.out = q
      BY <1>10, <2>2, <2>3, Zenon
    <2>5. ChaSeal(c, p) = [ctx |-> ChaMac(r.ctx, r.out), out |-> r.out]
      BY <2>3 DEF ChaSeal
    <2>. QED BY <1>9, <2>4, <2>5, Zenon
  <1>12. ChaOpen(c, q) = [ctx |-> f, out |-> p]
    <2>1. Bytewise(ChaOpenByte, b, q) = [ctx |-> e, out |-> p]
      BY <1>5, Zenon DEF ChaCall
    <2>2. Bytewise(ChaOpenByte, ChaPadAad(c), q) = [ctx |-> e, out |-> p]
      BY <1>2, <2>1
    <2>3. PICK r : r = Bytewise(ChaOpenByte, ChaPadAad(c), q)
      OBVIOUS
    <2>4. r.ctx = e /\ r.out = p
      BY <1>10, <2>2, <2>3, Zenon
    <2>5. ChaOpen(c, q) = [ctx |-> ChaMac(r.ctx, q), out |-> r.out]
      BY <2>3 DEF ChaOpen
    <2>. QED BY <1>9, <2>4, <2>5, Zenon
  <1>13. ChaUpdate(c, f, p, q)
    BY <1>11, <1>12, Zenon DEF ChaUpdate
  <1>. QED BY <1>1, <1>3, <1>8, <1>13, Zenon

\* Data comes in updates, and the first one with data comes first.
Begins(begun, d) == begun \in BOOLEAN /\ (begun \/ d = 0)
PadsOnce(begun, a, d) == begun /\ a # 0 => d # 0

\* What Poly1305 has been given, in regular calls.
PolyAt(v, a, d, begun) == IF begun THEN Poly(v, a, d) ELSE AadOf(a)

\* The first update, with data, pads the additional data; others go on.
LEMMA PolyGoesOn ==
  ASSUME Rate, NEW v, NEW a \in Nat, NEW d \in Nat, NEW n \in Nat,
         NEW begun, Begins(begun, d), PadsOnce(begun, a, d)
  PROVE  MacInput(PolyAt(v, a, d, begun), v, a, d, n) = Poly(v, a, d + n)
  <1>1. AadOf(0) = <<>> /\ MacHead(0) = <<>>
    BY DEF AadOf, MacHead
  <1>2. Padded(PolyAt(v, a, d, begun), a, d) = Poly(v, a, d)
    <2>1. CASE d # 0
      BY <2>1 DEF Padded, PolyAt, Begins
    <2>2. CASE d = 0 /\ a = 0
      <3>1. Poly(v, a, d) = <<>>
        BY <1>1, <2>2, PolyGrows
      <3>2. PolyAt(v, a, d, begun) = <<>>
        BY <1>1, <2>2, <3>1, Zenon DEF PolyAt
      <3>3. Padded(PolyAt(v, a, d, begun), a, d) = PolyAt(v, a, d, begun)
        BY <2>2 DEF Padded
      <3>. QED BY <3>1, <3>2, <3>3, Zenon
    <2>3. CASE d = 0 /\ a # 0
      <3>1. PolyAt(v, a, d, begun) = AadOf(a)
        BY <2>3 DEF PolyAt, PadsOnce, Begins
      <3>2. Padded(PolyAt(v, a, d, begun), a, d) = MacHead(a)
        BY <2>3, <3>1, Zenon DEF Padded, MacHead
      <3>3. Poly(v, a, 0) = MacHead(a)
        BY PolyGrows
      <3>. QED BY <2>3, <3>2, <3>3, Zenon
    <2>. QED BY <2>1, <2>2, <2>3
  <1>3. Poly(v, a, d) \o MacPiece(v, d, n) = Poly(v, a, d + n)
    BY PolyGrows
  <1>. QED BY <1>2, <1>3, Zenon DEF MacInput

\* The next piece of additional data.
LEMMA ChaAadPiece ==
  ASSUME Rate, NEW v, NEW a \in Nat, NEW n \in Nat, NEW poly
  PROVE  ChaAad(ChaAt(v, a, 0, 0, poly), AadPiece(a, n))
           = ChaAt(v, a + n, 0, 0, poly \o AadPiece(a, n))
  <1>1. Len(AadPiece(a, n)) = n
    <2>1. AadPiece(a, n) = [i \in 1..n |-> AadPiece(a, n)[i]]
      BY DEF AadPiece
    <2>. QED BY <2>1, FunLength, Zenon
  <1>2. PICK c, z : c = ChaAt(v, a, 0, 0, poly) /\ z = poly \o AadPiece(a, n)
    OBVIOUS
  <1>3. c.poly1305 = poly
    BY <1>2 DEF ChaAt
  <1>4. ChaAad(c, AadPiece(a, n)) = [c EXCEPT !.poly1305 = z, !.aadlen = @ + n]
    BY <1>1, <1>2, <1>3, Zenon DEF ChaAad
  <1>5. [c EXCEPT !.poly1305 = z, !.aadlen = @ + n] = ChaAt(v, a + n, 0, 0, z)
    <2>1. PICK k, o : \A x, y : ChaAt(v, x, 0, 0, y)
                             = [key |-> v, counter |-> k, keystream_ptr |-> o,
                                poly1305 |-> y, aadlen |-> x, datalen |-> 0]
      BY Zenon DEF ChaAt
    <2>2. c = [key |-> v, counter |-> k, keystream_ptr |-> o,
               poly1305 |-> poly, aadlen |-> a, datalen |-> 0]
      BY <1>2, <2>1, Zenon
    <2>3. PICK d : d = 0
      OBVIOUS
    <2>4. PICK e : e = [c EXCEPT !.poly1305 = z]
      OBVIOUS
    <2>5. e = [key |-> v, counter |-> k, keystream_ptr |-> o,
               poly1305 |-> z, aadlen |-> a, datalen |-> d]
      BY <2>2, <2>3, <2>4
    <2>6. [e EXCEPT !.aadlen = @ + n]
            = [key |-> v, counter |-> k, keystream_ptr |-> o,
               poly1305 |-> z, aadlen |-> a + n, datalen |-> d]
      BY <2>5
    <2>. QED BY <2>1, <2>3, <2>4, <2>6, Zenon
  <1>. QED BY <1>2, <1>4, <1>5, Zenon

-----------------------------------------------------------------------------
(* All three.                                                              *)

Algorithm(alg) == alg \in {"gcm", "chacha", "ascon"}

\* The context after a bytes of additional data and d bytes of data.
CtxOf(alg, v, a, d, begun) ==
  CASE alg = "gcm"    -> IF begun THEN GcmData(v, a, d) ELSE GcmHead(v, a)
    [] alg = "chacha" -> ChaAt(v, a, d, d, PolyAt(v, a, d, begun))
    [] alg = "ascon"  -> AsconData(v, a, d)

\* Byte i of the ciphertext, and a piece of it.
CtByte(alg, v, a, i) ==
  CASE alg = "gcm"    -> GcmByte(v, i)
    [] alg = "chacha" -> ChaByte(v, i)
    [] alg = "ascon"  -> AsconByte1(v, a, i)

CtPiece(alg, v, a, d, n) == [i \in 1..n |-> CtByte(alg, v, a, d + i)]

\* The context c is where it should be; that of GCM always, that of
\* ChaCha20-Poly1305 but for the input of the MAC, that of Ascon if the calls
\* were regular.
OnCourse(alg, c, v, a, d, begun, good) ==
  /\ a \in 0..MaxAad /\ d \in 0..MaxData
  /\ Begins(begun, d)
  /\ alg = "gcm" \/ good => c = CtxOf(alg, v, a, d, begun)
  /\ alg = "chacha" => \E poly : c = ChaAt(v, a, d, d, poly)
  /\ alg = "chacha" /\ good => PadsOnce(begun, a, d)

\* Can the counter block of every byte be another one?
InRange(alg, d) == alg = "gcm" => ~ TooLong(d)

\* Setting the key up.
LEMMA SetKeyCourse ==
  ASSUME Bounds, Algorithm(aead), NEW c, NEW v
  PROVE  OnCourse(aead, SetKey(c, v), v, 0, 0, FALSE, TRUE)
  <1>1. 0 \in 0..MaxAad /\ 0 \in 0..MaxData
    BY DEF Bounds
  <1>2. AadOf(0) = <<>>
    BY DEF AadOf
  <1>3. CASE aead = "gcm"
    <2>1. SetKey(c, v) = GcmSetIv(c, v)
      BY <1>3 DEF SetKey
    <2>2. GcmSetIv(c, v) = GcmSetIv(GcmFresh, v)
      BY Zenon DEF GcmSetIv
    <2>3. GcmHead(v, 0) = GcmSetIv(GcmFresh, v)
      <3>1. Len(AadOf(MaxAad)) = MaxAad /\ MaxAad \in Nat
        <4>1. Within(0, 0, MaxAad)
          BY DEF Within, Bounds
        <4>2. Len(AadOf(MaxAad)) = MaxAad
          BY <4>1, PiecesAre, Zenon
        <4>. QED BY <4>2 DEF Bounds
      <3>2. Turns("gcm-aad", GcmSetIv(GcmFresh, v), AadOf(MaxAad))
        BY <3>1, LoopTurns, Zenon
      <3>. QED BY <3>2, Zenon DEF Turns, GcmHead
    <2>4. CtxOf("gcm", v, 0, 0, FALSE) = GcmHead(v, 0)
      BY DEF CtxOf
    <2>. QED BY <1>1, <1>3, <2>1, <2>2, <2>3, <2>4 DEF OnCourse, Begins, PadsOnce
  <1>4. CASE aead = "chacha"
    <2>1. SetKey(c, v) = ChaSetIv(c, v)
      BY <1>4 DEF SetKey
    <2>2. ChaSetIv(c, v) = ChaAt(v, 0, 0, 0, <<>>)
      BY DEF ChaSetIv, ChaAt
    <2>3. CtxOf("chacha", v, 0, 0, FALSE) = ChaAt(v, 0, 0, 0, <<>>)
      <3>1. PolyAt(v, 0, 0, FALSE) = <<>>
        BY <1>2 DEF PolyAt
      <3>2. CtxOf("chacha", v, 0, 0, FALSE) = ChaAt(v, 0, 0, 0, PolyAt(v, 0, 0, FALSE))
        BY DEF CtxOf
      <3>. QED BY <3>1, <3>2, Zenon
    <2>4. SetKey(c, v) = CtxOf("chacha", v, 0, 0, FALSE) /\ SetKey(c, v) = ChaAt(v, 0, 0, 0, <<>>)
      BY <2>1, <2>2, <2>3, Zenon
    <2>. QED BY <1>1, <1>4, <2>4, Zenon DEF OnCourse, Begins, PadsOnce
  <1>5. CASE aead = "ascon"
    <2>1. SetKey(c, v) = AsconSetIv(c, v)
      BY <1>5 DEF SetKey
    <2>2. AsconSetIv(c, v) = AsconSetIv(AsconFresh, v)
      BY Zenon DEF AsconSetIv
    <2>3. AsconHead(v, 0) = AsconSetIv(AsconFresh, v)
      <3>1. \A x : AsconAad(x, <<>>) = x
        BY Zenon DEF AsconAad
      <3>. QED BY <1>2, <3>1, Zenon DEF AsconHead
    <2>4. AsconData(v, 0, 0) = AsconHead(v, 0)
      <3>1. Len(PtOf(MaxData)) = MaxData /\ MaxData \in Nat
        <4>1. Within(0, 0, MaxData)
          BY DEF Within, Bounds
        <4>2. Len(PtOf(MaxData)) = MaxData
          BY <4>1, PiecesAre, Zenon
        <4>. QED BY <4>2 DEF Bounds
      <3>2. Turns("ascon-seal", AsconHead(v, 0), PtOf(MaxData))
        BY <3>1, LoopTurns, Zenon
      <3>. QED BY <3>2, Zenon DEF Turns, AsconData
    <2>5. CtxOf("ascon", v, 0, 0, FALSE) = AsconData(v, 0, 0)
      BY DEF CtxOf
    <2>. QED BY <1>1, <1>5, <2>1, <2>2, <2>3, <2>4, <2>5 DEF OnCourse, Begins, PadsOnce
  <1>. QED BY <1>3, <1>4, <1>5 DEF Algorithm

\* Before any data, the context of Ascon is that after the additional data,
\* and the update that finishes the additional data of GCM does so once.
LEMMA NoData ==
  ASSUME Rate, Bounds, NEW v
  PROVE  \A a \in 0..MaxAad : /\ AsconData(v, a, 0) = AsconHead(v, a)
                              /\ GcmData(v, a, 0) = GcmFinishAad(GcmHead(v, a))
  <1>1. Len(PtOf(MaxData)) = MaxData /\ MaxData \in Nat
    <2>1. Within(0, 0, MaxData)
      BY DEF Within, Bounds
    <2>2. Len(PtOf(MaxData)) = MaxData
      BY <2>1, PiecesAre, Zenon
    <2>. QED BY <2>2 DEF Bounds
  <1>. SUFFICES ASSUME NEW a \in 0..MaxAad
                PROVE  /\ AsconData(v, a, 0) = AsconHead(v, a)
                       /\ GcmData(v, a, 0) = GcmFinishAad(GcmHead(v, a))
    OBVIOUS
  <1>2. Turns("ascon-seal", AsconHead(v, a), PtOf(MaxData))
    BY <1>1, LoopTurns, Zenon
  <1>3. Turns("gcm-seal", GcmFinishAad(GcmHead(v, a)), PtOf(MaxData))
    BY <1>1, LoopTurns, Zenon
  <1>. QED BY <1>2, <1>3, Zenon DEF Turns, AsconData, GcmData

\* What the first update makes of the context of GCM, whichever it is.
LEMMA GcmReady ==
  ASSUME Rate, Counters, Bounds, NEW v, Iv(v), NEW a \in 0..MaxAad, NEW d \in 0..MaxData,
         NEW begun, Begins(begun, d)
  PROVE  /\ GcmFinishAad(CtxOf("gcm", v, a, d, begun)) = GcmData(v, a, d)
         /\ CtxOf("gcm", v, a, d, begun).len = d
  <1>1. a \in Nat
    BY DEF Bounds
  <1>2. PICK b : GcmData(v, a, d) = GcmAt(v, a, d, b, a % R # 0)
    BY GcmDataIs
  <1>3. PICK h : GcmHead(v, a) = GcmAt(v, a, 0, h, FALSE)
    BY GcmHeadIs DEF TakesAad
  <1>4. \A x, y, z : GcmAt(v, a, x, y, z).len = x
    BY DEF GcmAt
  <1>5. CASE begun
    <2>1. CtxOf("gcm", v, a, d, begun) = GcmData(v, a, d)
      BY <1>5 DEF CtxOf
    <2>2. GcmFinishAad(GcmAt(v, a, d, b, a % R # 0)) = GcmAt(v, a, d, b, a % R # 0)
      BY <1>1, GcmFinishes
    <2>3. GcmFinishAad(GcmData(v, a, d)) = GcmData(v, a, d)
      BY <1>2, <2>2, Zenon
    <2>4. GcmData(v, a, d).len = d
      BY <1>2 DEF GcmAt
    <2>. QED BY <2>1, <2>3, <2>4, Zenon
  <1>6. CASE ~begun
    <2>1. CtxOf("gcm", v, a, d, begun) = GcmHead(v, a) /\ d = 0
      BY <1>6 DEF CtxOf, Begins
    <2>2. GcmData(v, a, 0) = GcmFinishAad(GcmHead(v, a))
      BY NoData
    <2>. QED BY <1>3, <1>4, <2>1, <2>2, Zenon
  <1>. QED BY <1>5, <1>6

\* The next piece of additional data.
LEMMA AadCourse ==
  ASSUME Rate, Counters, Bounds, Algorithm(aead), NEW c, NEW v, NEW a, NEW d, NEW good \in BOOLEAN,
         OnCourse(aead, c, v, a, d, FALSE, good), NEW n, Within(a, n, MaxAad)
  PROVE  OnCourse(aead, AddAad(c, AadPiece(a, n)), v, a + n, d, FALSE,
                  good /\ (aead = "ascon" => n = 0 \/ a = 0))
  <1>1. /\ a \in Nat /\ n \in Nat /\ a + n \in 0..MaxAad /\ a \in 0..MaxAad /\ d = 0
        /\ d \in 0..MaxData
    BY DEF Within, OnCourse, Begins
  <1>2. PICK e : e = AddAad(c, AadPiece(a, n))
    OBVIOUS
  <1>3. CASE aead = "gcm"
    <2>1. c = GcmHead(v, a)
      BY <1>3 DEF OnCourse, CtxOf
    <2>2. e = GcmAad(c, AadPiece(a, n))
      BY <1>2, <1>3 DEF AddAad
    <2>3. GcmAad(GcmHead(v, a), AadPiece(a, n)) = GcmHead(v, a + n)
      BY GcmAadPiece
    <2>4. e = CtxOf("gcm", v, a + n, d, FALSE)
      <3>1. CtxOf("gcm", v, a + n, d, FALSE) = GcmHead(v, a + n)
        BY DEF CtxOf
      <3>. QED BY <2>1, <2>2, <2>3, <3>1, Zenon
    <2>. QED BY <1>1, <1>2, <1>3, <2>4 DEF OnCourse, Begins, PadsOnce
  <1>4. CASE aead = "chacha"
    <2>1. PICK poly : c = ChaAt(v, a, 0, 0, poly)
      BY <1>1, <1>4 DEF OnCourse, Begins, PadsOnce
    <2>2. e = ChaAad(c, AadPiece(a, n))
      BY <1>2, <1>4 DEF AddAad
    <2>3. \A p : ChaAad(ChaAt(v, a, 0, 0, p), AadPiece(a, n))
                   = ChaAt(v, a + n, 0, 0, p \o AadPiece(a, n))
      BY <1>1, ChaAadPiece
    <2>4. \E p : e = ChaAt(v, a + n, d, d, p)
      BY <1>1, <2>1, <2>2, <2>3, Zenon
    <2>5. ASSUME good PROVE e = CtxOf("chacha", v, a + n, d, FALSE)
      <3>1. c = ChaAt(v, a, 0, 0, AadOf(a))
        <4>1. c = CtxOf("chacha", v, a, d, FALSE)
          BY <1>4, <2>5 DEF OnCourse, Begins, PadsOnce
        <4>2. CtxOf("chacha", v, a, d, FALSE) = ChaAt(v, a, d, d, AadOf(a))
          BY DEF CtxOf, PolyAt
        <4>. QED BY <1>1, <4>1, <4>2, Zenon
      <3>2. AadOf(a) \o AadPiece(a, n) = AadOf(a + n)
        BY <1>1, PolyGrows
      <3>3. CtxOf("chacha", v, a + n, d, FALSE) = ChaAt(v, a + n, d, d, AadOf(a + n))
        BY DEF CtxOf, PolyAt
      <3>. QED BY <1>1, <2>2, <2>3, <3>1, <3>2, <3>3, Zenon
    <2>. QED BY <1>1, <1>2, <1>4, <2>4, <2>5 DEF OnCourse, Begins, PadsOnce
  <1>5. CASE aead = "ascon"
    <2>1. e = AsconAad(c, AadPiece(a, n))
      BY <1>2, <1>5 DEF AddAad
    <2>2. ASSUME good, n = 0 \/ a = 0 PROVE e = CtxOf("ascon", v, a + n, d, FALSE)
      <3>1. c = AsconData(v, a, 0)
        BY <1>1, <1>5, <2>2 DEF OnCourse, CtxOf
      <3>2. AsconAad(AsconHead(v, a), AadPiece(a, n)) = AsconHead(v, a + n)
        BY <1>1, <2>2, AsconAadPiece
      <3>3. AsconData(v, a, 0) = AsconHead(v, a) /\ AsconData(v, a + n, 0) = AsconHead(v, a + n)
        BY <1>1, NoData, Zenon
      <3>4. CtxOf("ascon", v, a + n, d, FALSE) = AsconData(v, a + n, 0)
        BY <1>1 DEF CtxOf
      <3>. QED BY <2>1, <3>1, <3>2, <3>3, <3>4, Zenon
    <2>. QED BY <1>1, <1>2, <1>5, <2>2 DEF OnCourse, Begins, PadsOnce
  <1>. QED BY <1>3, <1>4, <1>5 DEF Algorithm

\* Is an update one that the one-shot functions would make?
Starts1(alg, a, d, n) == alg = "chacha" /\ a # 0 /\ d = 0 => n > 0

\* The update r of a context.
SealsTo(r, alg, v, a, d, n, good, after) ==
  /\ OnCourse(alg, r.ctx, v, a, d + n, TRUE, after)
  /\ alg # "ascon" \/ good => r.out = CtPiece(alg, v, a, d, n)

\* The next piece of data, sealed.
LEMMA SealCourse ==
  ASSUME Rate, Counters, Bounds, Algorithm(aead), NEW c, NEW v, Iv(v), NEW a, NEW d,
         NEW begun, NEW good \in BOOLEAN, OnCourse(aead, c, v, a, d, begun, good),
         NEW n, Within(d, n, MaxData), InRange(aead, d + n),
         NEW after, after = (good /\ Starts1(aead, a, d, n))
  PROVE  SealsTo(EncUpdate(c, PtPiece(d, n)), aead, v, a, d, n, good, after)
  <1>1. /\ d \in Nat /\ n \in Nat /\ d + n \in 0..MaxData /\ a \in 0..MaxAad /\ a \in Nat
        /\ d \in 0..MaxData /\ Begins(begun, d)
    BY DEF Within, OnCourse, Bounds
  <1>2. PICK r : r = EncUpdate(c, PtPiece(d, n))
    OBVIOUS
  <1>3. \A x, y : [ctx |-> x, out |-> y].ctx = x /\ [ctx |-> x, out |-> y].out = y
    OBVIOUS
  <1>4. CASE aead = "gcm"
    <2>1. c = CtxOf("gcm", v, a, d, begun)
      BY <1>4 DEF OnCourse, Begins, PadsOnce, SealsTo
    <2>2. GcmFinishAad(c) = GcmData(v, a, d) /\ c.len = d
      <3>1. /\ GcmFinishAad(CtxOf("gcm", v, a, d, begun)) = GcmData(v, a, d)
            /\ CtxOf("gcm", v, a, d, begun).len = d
        BY <1>1, GcmReady
      <3>. QED BY <2>1, <3>1, Zenon
    <2>3. ~ TooLong(d + n)
      BY <1>4 DEF InRange
    <2>4. PICK o : /\ o = [i \in 1..n |-> GcmByte(v, d + i)]
                   /\ GcmSeal(c, PtPiece(d, n)) = [ctx |-> GcmData(v, a, d + n), out |-> o]
      BY <1>1, <2>2, <2>3, GcmSealPiece
    <2>5. r = GcmSeal(c, PtPiece(d, n))
      BY <1>2, <1>4 DEF EncUpdate
    <2>6. r.ctx = CtxOf("gcm", v, a, d + n, TRUE)
      <3>1. CtxOf("gcm", v, a, d + n, TRUE) = GcmData(v, a, d + n)
        BY DEF CtxOf
      <3>. QED BY <1>3, <2>4, <2>5, <3>1, Zenon
    <2>7. r.out = CtPiece("gcm", v, a, d, n)
      <3>1. \A i : CtByte("gcm", v, a, i) = GcmByte(v, i)
        BY DEF CtByte
      <3>2. CtPiece("gcm", v, a, d, n) = [i \in 1..n |-> GcmByte(v, d + i)]
        BY <3>1, Zenon DEF CtPiece
      <3>3. r.out = o
        BY <2>4, <2>5
      <3>. QED BY <2>4, <3>2, <3>3
    <2>. QED BY <1>1, <1>2, <1>4, <2>6, <2>7 DEF OnCourse, Begins, PadsOnce, SealsTo
  <1>5. CASE aead = "chacha"
    <2>1. PICK poly : /\ c = ChaAt(v, a, d, d, poly)
                      /\ good => poly = PolyAt(v, a, d, begun)
      <3>1. CASE good
        <4>1. c = CtxOf("chacha", v, a, d, begun)
          BY <1>5, <3>1 DEF OnCourse, Begins, PadsOnce, SealsTo
        <4>2. c = ChaAt(v, a, d, d, PolyAt(v, a, d, begun))
          BY <4>1 DEF CtxOf
        <4>. QED BY <4>2
      <3>2. CASE ~good
        BY <1>5, <3>2 DEF OnCourse, Begins, PadsOnce, SealsTo
      <3>. QED BY <3>1, <3>2
    <2>2. PICK e : e = ChaAt(v, a, d + n, d + n, MacInput(poly, v, a, d, n))
      OBVIOUS
    <2>3. ChaUpdate(c, e, PtPiece(d, n), ChaPiece(v, d, n))
      BY <1>1, <2>1, <2>2, ChaUpdates, Zenon
    <2>4. r = ChaSeal(c, PtPiece(d, n))
      BY <1>2, <1>5 DEF EncUpdate
    <2>5. r.ctx = e /\ r.out = ChaPiece(v, d, n)
      BY <1>3, <2>3, <2>4, ZenonT(60) DEF ChaUpdate
    <2>6. r.out = CtPiece("chacha", v, a, d, n)
      <3>1. \A i : CtByte("chacha", v, a, i) = ChaByte(v, i)
        BY DEF CtByte
      <3>2. CtPiece("chacha", v, a, d, n) = ChaPiece(v, d, n)
        BY <3>1, Zenon DEF CtPiece, ChaPiece
      <3>. QED BY <2>5, <3>2, Zenon
    <2>7. ASSUME good PROVE e = CtxOf("chacha", v, a, d + n, TRUE)
      <3>1. PadsOnce(begun, a, d)
        BY <1>5, <2>7 DEF OnCourse, Begins, PadsOnce, SealsTo
      <3>2. MacInput(PolyAt(v, a, d, begun), v, a, d, n) = Poly(v, a, d + n)
        BY <1>1, <3>1, PolyGoesOn
      <3>3. CtxOf("chacha", v, a, d + n, TRUE) = ChaAt(v, a, d + n, d + n, Poly(v, a, d + n))
        BY DEF CtxOf, PolyAt
      <3>. QED BY <2>1, <2>2, <2>7, <3>2, <3>3, Zenon
    <2>8. good /\ Starts1("chacha", a, d, n) => PadsOnce(TRUE, a, d + n)
      BY <1>1 DEF Starts1, PadsOnce
    <2>9. \E p : r.ctx = ChaAt(v, a, d + n, d + n, p)
      BY <2>2, <2>5, Zenon
    <2>10. good => r.ctx = CtxOf("chacha", v, a, d + n, TRUE)
      BY <2>5, <2>7, Zenon
    <2>. QED BY <1>1, <1>2, <1>5, <2>6, <2>8, <2>9, <2>10 DEF OnCourse, Begins, PadsOnce, SealsTo
  <1>6. CASE aead = "ascon"
    <2>1. ASSUME good
          PROVE  r.ctx = CtxOf("ascon", v, a, d + n, TRUE) /\ r.out = CtPiece("ascon", v, a, d, n)
      <3>1. c = AsconData(v, a, d)
        BY <1>6, <2>1 DEF OnCourse, CtxOf
      <3>2. r = Bytewise(AsconSealByte, c, PtPiece(d, n))
        BY <1>2, <1>6 DEF EncUpdate
      <3>3. Bytewise(AsconSealByte, AsconData(v, a, d), PtPiece(d, n))
              = [ctx |-> AsconData(v, a, d + n),
                 out |-> [i \in 1..n |-> AsconByte1(v, a, d + i)]]
        BY AsconSealPiece
      <3>4. r = [ctx |-> AsconData(v, a, d + n),
                 out |-> [i \in 1..n |-> AsconByte1(v, a, d + i)]]
        BY <3>1, <3>2, <3>3
      <3>5. CtxOf("ascon", v, a, d + n, TRUE) = AsconData(v, a, d + n)
        BY DEF CtxOf
      <3>6. \A i : CtByte("ascon", v, a, i) = AsconByte1(v, a, i)
        BY DEF CtByte
      <3>7. CtPiece("ascon", v, a, d, n) = [i \in 1..n |-> AsconByte1(v, a, d + i)]
        BY <3>6, Zenon DEF CtPiece
      <3>. QED BY <1>3, <3>4, <3>5, <3>7, Zenon
    <2>. QED BY <1>1, <1>2, <1>6, <2>1 DEF OnCourse, Begins, PadsOnce, SealsTo
  <1>. QED BY <1>4, <1>5, <1>6 DEF Algorithm

\* The update r of a context that opens.
OpensTo(r, alg, v, a, d, n, after) ==
  /\ OnCourse(alg, r.ctx, v, a, d + n, TRUE, after)
  /\ r.out = PtPiece(d, n)

\* The next piece of data, opened, when all calls were regular.
LEMMA OpenCourse ==
  ASSUME Rate, Counters, Bounds, Algorithm(aead), NEW c, NEW v, Iv(v), NEW a, NEW d,
         NEW begun, OnCourse(aead, c, v, a, d, begun, TRUE),
         NEW n, Within(d, n, MaxData), Starts1(aead, a, d, n)
  PROVE  OpensTo(DecUpdate(c, CtPiece(aead, v, a, d, n)), aead, v, a, d, n, TRUE)
  <1>1. /\ d \in Nat /\ n \in Nat /\ d + n \in 0..MaxData /\ a \in 0..MaxAad /\ a \in Nat
        /\ d \in 0..MaxData /\ Begins(begun, d)
    BY DEF Within, OnCourse, Bounds
  <1>2. PICK in : in = CtPiece(aead, v, a, d, n)
    OBVIOUS
  <1>3. PICK r : r = DecUpdate(c, in)
    OBVIOUS
  <1>4. \A x, y : [ctx |-> x, out |-> y].ctx = x /\ [ctx |-> x, out |-> y].out = y
    OBVIOUS
  <1>5. CASE aead = "gcm"
    <2>1. c = CtxOf("gcm", v, a, d, begun)
      BY <1>5 DEF OnCourse
    <2>2. GcmFinishAad(c) = GcmData(v, a, d)
      <3>1. GcmFinishAad(CtxOf("gcm", v, a, d, begun)) = GcmData(v, a, d)
        BY <1>1, GcmReady
      <3>. QED BY <2>1, <3>1, Zenon
    <2>3. in = [i \in 1..n |-> GcmByte(v, d + i)]
      <3>1. \A i : CtByte("gcm", v, a, i) = GcmByte(v, i)
        BY DEF CtByte
      <3>. QED BY <1>2, <1>5, <3>1, Zenon DEF CtPiece
    <2>4. GcmOpen(c, in) = [ctx |-> GcmData(v, a, d + n), out |-> PtPiece(d, n)]
      BY <1>1, <2>2, <2>3, GcmOpenPiece
    <2>5. r = GcmOpen(c, in)
      BY <1>3, <1>5 DEF DecUpdate
    <2>6. r.ctx = CtxOf("gcm", v, a, d + n, TRUE) /\ r.out = PtPiece(d, n)
      <3>1. CtxOf("gcm", v, a, d + n, TRUE) = GcmData(v, a, d + n)
        BY DEF CtxOf
      <3>. QED BY SMTT(40), <1>4, <2>4, <2>5, <3>1, Zenon
    <2>. QED BY <1>1, <1>2, <1>3, <1>5, <2>6 DEF OnCourse, Begins, OpensTo
  <1>6. CASE aead = "chacha"
    <2>1. c = ChaAt(v, a, d, d, PolyAt(v, a, d, begun)) /\ PadsOnce(begun, a, d)
      <3>1. c = CtxOf("chacha", v, a, d, begun) /\ PadsOnce(begun, a, d)
        BY <1>6 DEF OnCourse
      <3>. QED BY <3>1 DEF CtxOf
    <2>2. PICK e : e = ChaAt(v, a, d + n, d + n, Poly(v, a, d + n))
      OBVIOUS
    <2>3. ChaUpdate(c, e, PtPiece(d, n), ChaPiece(v, d, n))
      <3>1. PICK poly : poly = PolyAt(v, a, d, begun)
        OBVIOUS
      <3>2. MacInput(PolyAt(v, a, d, begun), v, a, d, n) = Poly(v, a, d + n)
        BY <1>1, <2>1, PolyGoesOn
      <3>3. ChaUpdate(ChaAt(v, a, d, d, poly),
                      ChaAt(v, a, d + n, d + n, MacInput(poly, v, a, d, n)),
                      PtPiece(d, n), ChaPiece(v, d, n))
        BY <1>1, ChaUpdates
      <3>. QED BY <2>1, <2>2, <3>1, <3>2, <3>3, Zenon
    <2>4. in = ChaPiece(v, d, n)
      <3>1. \A i : CtByte("chacha", v, a, i) = ChaByte(v, i)
        BY DEF CtByte
      <3>. QED BY <1>2, <1>6, <3>1, Zenon DEF CtPiece, ChaPiece
    <2>5. r = ChaOpen(c, in)
      BY <1>3, <1>6 DEF DecUpdate
    <2>6. r.ctx = e /\ r.out = PtPiece(d, n)
      BY <1>4, <2>3, <2>4, <2>5, ZenonT(60) DEF ChaUpdate
    <2>7. e = CtxOf("chacha", v, a, d + n, TRUE)
      <3>1. CtxOf("chacha", v, a, d + n, TRUE) = ChaAt(v, a, d + n, d + n, Poly(v, a, d + n))
        BY DEF CtxOf, PolyAt
      <3>. QED BY <2>2, <3>1, Zenon
    <2>8. Starts1("chacha", a, d, n) => PadsOnce(TRUE, a, d + n)
      BY <1>1 DEF Starts1, PadsOnce
    <2>9. \E p : r.ctx = ChaAt(v, a, d + n, d + n, p)
      BY <2>2, <2>6, Zenon
    <2>. QED BY <1>1, <1>2, <1>3, <1>6, <2>6, <2>7, <2>8, <2>9 DEF OnCourse, Begins, OpensTo
  <1>7. CASE aead = "ascon"
    <2>1. c = AsconData(v, a, d)
      BY <1>7 DEF OnCourse, CtxOf
    <2>2. in = [i \in 1..n |-> AsconByte1(v, a, d + i)]
      <3>1. \A i : CtByte("ascon", v, a, i) = AsconByte1(v, a, i)
        BY DEF CtByte
      <3>. QED BY <1>2, <1>7, <3>1, Zenon DEF CtPiece
    <2>3. r = Bytewise(AsconOpenByte, c, in)
      BY <1>3, <1>7 DEF DecUpdate
    <2>4. Bytewise(AsconOpenByte, AsconData(v, a, d), in)
            = [ctx |-> AsconData(v, a, d + n), out |-> PtPiece(d, n)]
      BY <2>2, AsconOpenPiece
    <2>5. r = [ctx |-> AsconData(v, a, d + n), out |-> PtPiece(d, n)]
      BY <2>1, <2>3, <2>4
    <2>6. CtxOf("ascon", v, a, d + n, TRUE) = AsconData(v, a, d + n)
      BY DEF CtxOf
    <2>7. r.ctx = CtxOf("ascon", v, a, d + n, TRUE) /\ r.out = PtPiece(d, n)
      BY <1>4, <2>5, <2>6, Zenon
    <2>. QED BY <1>1, <1>2, <1>3, <1>7, <2>7 DEF OnCourse, Begins, OpensTo
  <1>. QED BY <1>5, <1>6, <1>7 DEF Algorithm

\* Before the tag, the additional data has been finished or there is none.
LEMMA LastCourse ==
  ASSUME Rate, Counters, Bounds, Algorithm(aead), NEW c, NEW v, Iv(v), NEW a, NEW d,
         NEW begun, OnCourse(aead, c, v, a, d, begun, TRUE),
         aead # "ascon" /\ a # 0 => begun
  PROVE  c = CtxOf(aead, v, a, d, TRUE)
  <1>1. /\ d \in Nat /\ a \in 0..MaxAad /\ a \in Nat /\ d \in 0..MaxData
        /\ Begins(begun, d) /\ c = CtxOf(aead, v, a, d, begun)
    BY DEF OnCourse, Bounds
  <1>2. CASE begun
    <2>1. begun = TRUE
      BY <1>1, <1>2 DEF Begins
    <2>. QED BY <1>1, <2>1, Zenon
  <1>3. CASE ~begun /\ aead = "gcm"
    <2>1. a = 0 /\ d = 0 /\ begun = FALSE
      BY <1>1, <1>3 DEF Begins
    <2>2. CtxOf("gcm", v, a, d, FALSE) = GcmHead(v, a)
      BY DEF CtxOf
    <2>3. CtxOf("gcm", v, a, d, TRUE) = GcmData(v, a, d)
      BY DEF CtxOf
    <2>4. GcmData(v, a, 0) = GcmFinishAad(GcmHead(v, a))
      BY <1>1, NoData
    <2>5. PICK h : GcmHead(v, a) = GcmAt(v, a, 0, h, FALSE)
      BY <1>1, GcmHeadIs DEF TakesAad
    <2>6. GcmFinishAad(GcmAt(v, a, 0, h, FALSE)) = GcmAt(v, a, 0, h, FALSE)
      <3>1. a % R = 0
        BY <2>1 DEF Rate
      <3>2. GcmAt(v, a, 0, h, FALSE).aad_len = a
        BY DEF GcmAt
      <3>. QED BY <3>1, <3>2 DEF GcmFinishAad
    <2>. QED BY <1>1, <1>3, <2>1, <2>2, <2>3, <2>4, <2>5, <2>6, Zenon
  <1>4. CASE ~begun /\ aead = "chacha"
    <2>1. a = 0 /\ d = 0 /\ begun = FALSE
      BY <1>1, <1>4 DEF Begins
    <2>2. AadOf(0) = <<>> /\ MacHead(0) = <<>>
      BY DEF AadOf, MacHead
    <2>3. Poly(v, a, 0) = MacHead(a)
      BY <1>1, PolyGrows
    <2>4. PolyAt(v, a, d, TRUE) = PolyAt(v, a, d, FALSE)
      <3>1. PolyAt(v, a, d, TRUE) = Poly(v, a, d) /\ PolyAt(v, a, d, FALSE) = AadOf(a)
        BY DEF PolyAt
      <3>. QED BY <2>1, <2>2, <2>3, <3>1, Zenon
    <2>5. \A b : CtxOf("chacha", v, a, d, b) = ChaAt(v, a, d, d, PolyAt(v, a, d, b))
      BY DEF CtxOf
    <2>6. CtxOf("chacha", v, a, d, TRUE) = CtxOf("chacha", v, a, d, FALSE)
      BY <2>4, <2>5, Zenon
    <2>. QED BY <1>1, <1>4, <2>1, <2>6, Zenon
  <1>5. CASE aead = "ascon"
    <2>1. \A b : CtxOf("ascon", v, a, d, b) = AsconData(v, a, d)
      BY DEF CtxOf
    <2>. QED BY <1>1, <1>5, <2>1, Zenon
  <1>. QED BY <1>2, <1>3, <1>4, <1>5 DEF Algorithm

\* Pieces put one after the other, and cut out of the whole.
LEMMA PiecesJoin ==
  ASSUME NEW d \in Nat, NEW n \in Nat, NEW alg, NEW v, NEW a
  PROVE  /\ PtOf(d) \o PtPiece(d, n) = PtOf(d + n)
         /\ CtPiece(alg, v, a, 0, d) \o CtPiece(alg, v, a, d, n) = CtPiece(alg, v, a, 0, d + n)
  <1>1. PtOf(d) \o PtPiece(d, n) = PtOf(d + n)
    <2>. DEFINE T == {Plain(i) : i \in Nat}
    <2>1. PICK f : f = PtOf(d + n)
      OBVIOUS
    <2>2. f \in [1..(d + n) -> T]
      BY <2>1 DEF PtOf
    <2>. HIDE DEF T
    <2>3. Front(f, d) \o Later(f, d, n) = Front(f, d + n)
      BY <2>2, CatGrows, ZenonT(60)
    <2>4. ASSUME NEW i \in 1..(d + n) PROVE f[i] = Plain(i)
      BY <2>1, Zenon DEF PtOf
    <2>5. Front(f, d + n) = PtOf(d + n)
      BY <2>4, Zenon DEF Front, PtOf
    <2>6. Front(f, d) = PtOf(d)
      <3>1. ASSUME NEW i \in 1..d PROVE f[i] = Plain(i)
        <4>1. i \in 1..(d + n)
          OBVIOUS
        <4>. QED BY <2>4, <4>1, Zenon
      <3>. QED BY <3>1, Zenon DEF Front, PtOf
    <2>7. Later(f, d, n) = PtPiece(d, n)
      <3>1. ASSUME NEW i \in 1..n PROVE f[d + i] = Plain(d + i)
        <4>1. d + i \in 1..(d + n)
          OBVIOUS
        <4>. QED BY <2>4, <4>1, Zenon
      <3>. QED BY <3>1, Zenon DEF Later, PtPiece
    <2>. QED BY <2>3, <2>5, <2>6, <2>7, Zenon
  <1>2. CtPiece(alg, v, a, 0, d) \o CtPiece(alg, v, a, d, n) = CtPiece(alg, v, a, 0, d + n)
    <2>. DEFINE B(i) == CtByte(alg, v, a, i)
                T == {B(i) : i \in Nat}
    <2>1. PICK f : f = [i \in 1..(d + n) |-> B(i)]
      OBVIOUS
    <2>2. f \in [1..(d + n) -> T]
      BY <2>1
    <2>. HIDE DEF T
    <2>3. Front(f, d) \o Later(f, d, n) = Front(f, d + n)
      BY <2>2, CatGrows, ZenonT(60)
    <2>4. ASSUME NEW i \in 1..(d + n) PROVE f[i] = B(i)
      BY <2>1, Zenon
    <2>5. Front(f, d + n) = CtPiece(alg, v, a, 0, d + n)
      <3>1. ASSUME NEW i \in 1..(d + n) PROVE f[i] = CtByte(alg, v, a, 0 + i)
        <4>1. 0 + i = i
          OBVIOUS
        <4>. QED BY <2>4, <4>1, Zenon
      <3>. QED BY <3>1, Zenon DEF Front, CtPiece
    <2>6. Front(f, d) = CtPiece(alg, v, a, 0, d)
      <3>1. ASSUME NEW i \in 1..d PROVE f[i] = CtByte(alg, v, a, 0 + i)
        <4>1. 0 + i = i /\ i \in 1..(d + n)
          OBVIOUS
        <4>. QED BY <2>4, <4>1, Zenon
      <3>. QED BY <3>1, Zenon DEF Front, CtPiece
    <2>7. Later(f, d, n) = CtPiece(alg, v, a, d, n)
      <3>1. ASSUME NEW i \in 1..n PROVE f[d + i] = CtByte(alg, v, a, d + i)
        <4>1. d + i \in 1..(d + n)
          OBVIOUS
        <4>. QED BY <2>4, <4>1, Zenon
      <3>. QED BY <3>1, Zenon DEF Later, CtPiece
    <2>. QED BY <2>3, <2>5, <2>6, <2>7, Zenon
  <1>. QED BY <1>1, <1>2

\* The next n elements of a sequence after the first d.
Middle(f, d, n) == SubSeq(f, d + 1, d + n)
CutsLater(f, d, n) == Middle(f, d, n) = Later(f, d, n)

\* They are values of the function that it is.
LEMMA MiddleIs ==
  ASSUME NEW T, NEW m \in Nat, NEW f \in [1..m -> T], NEW d, NEW n, Within(d, n, m)
  PROVE  CutsLater(f, d, n)
  <1>1. d \in Nat /\ n \in Nat /\ d + n <= m
    BY DEF Within
  <1>2. SubSeq(f, d + 1, d + n) = [i \in 1..((d + n) - (d + 1) + 1) |-> f[(d + 1) + i - 1]]
    <2>1. f \in Seq(T)
      BY FunIsSeq
    <2>. QED BY <1>1, <2>1 
  <1>3. (d + n) - (d + 1) + 1 = n /\ \A i \in 1..n : (d + 1) + i - 1 = d + i
    BY <1>1
  <1>. QED BY <1>2, <1>3 DEF Later, Middle, CutsLater

\* The next pieces of what arrives.
LEMMA PiecesCut ==
  ASSUME NEW alg, NEW v, NEW a, NEW d, NEW n, NEW m, Within(d, n, m)
  PROVE  /\ Middle(AadOf(m), d, n) = AadPiece(d, n)
         /\ Middle(CtPiece(alg, v, a, 0, m), d, n) = CtPiece(alg, v, a, d, n)
         /\ Len(CtPiece(alg, v, a, d, n)) = n
  <1>1. d \in Nat /\ n \in Nat /\ m \in Nat /\ d + n <= m
    BY DEF Within
  <1>2. Middle(AadOf(m), d, n) = AadPiece(d, n)
    <2>. DEFINE T == {<<"aad", i>> : i \in Nat}
    <2>1. PICK f : f = AadOf(m)
      OBVIOUS
    <2>2. f \in [1..m -> T]
      BY <2>1 DEF AadOf
    <2>. HIDE DEF T
    <2>3. Middle(f, d, n) = Later(f, d, n)
      <3>1. CutsLater(f, d, n)
        BY <1>1, <2>2, MiddleIs
      <3>. QED BY <3>1 DEF CutsLater
    <2>4. ASSUME NEW i \in 1..n PROVE f[d + i] = <<"aad", d + i>>
      <3>1. d + i \in 1..m
        BY <1>1
      <3>. QED BY <2>1, <3>1 DEF AadOf
    <2>5. Later(f, d, n) = AadPiece(d, n)
      BY <2>4, Zenon DEF Later, AadPiece
    <2>. QED BY <2>1, <2>3, <2>5, Zenon
  <1>3. Middle(CtPiece(alg, v, a, 0, m), d, n) = CtPiece(alg, v, a, d, n)
    <2>. DEFINE B(i) == CtByte(alg, v, a, i)
                T == {B(i) : i \in Nat}
    <2>1. PICK f : f = CtPiece(alg, v, a, 0, m)
      OBVIOUS
    <2>2. ASSUME NEW i \in 1..m PROVE f[i] = B(i)
      <3>1. 0 + i = i
        OBVIOUS
      <3>. QED BY <2>1, <3>1, Zenon DEF CtPiece
    <2>3. f \in [1..m -> T]
      <3>1. f = [i \in 1..m |-> f[i]]
        BY <2>1, Zenon DEF CtPiece
      <3>. HIDE DEF B
      <3>2. \A i \in 1..m : f[i] \in T
        BY <2>2
      <3>. HIDE DEF T
      <3>. QED BY <3>1, <3>2
    <2>. HIDE DEF T
    <2>4. Middle(f, d, n) = Later(f, d, n)
      <3>1. CutsLater(f, d, n)
        BY <1>1, <2>3, MiddleIs
      <3>. QED BY <3>1 DEF CutsLater
    <2>5. ASSUME NEW i \in 1..n PROVE f[d + i] = CtByte(alg, v, a, d + i)
      <3>1. d + i \in 1..m
        BY <1>1
      <3>. QED BY <2>2, <3>1, Zenon
    <2>6. Later(f, d, n) = CtPiece(alg, v, a, d, n)
      BY <2>5, Zenon DEF Later, CtPiece
    <2>. QED BY <2>1, <2>4, <2>6, Zenon
  <1>4. Len(CtPiece(alg, v, a, d, n)) = n
    <2>1. CtPiece(alg, v, a, d, n) = [i \in 1..n |-> CtPiece(alg, v, a, d, n)[i]]
      BY Zenon DEF CtPiece
    <2>. QED BY <1>1, <2>1, FunLength, Zenon
  <1>. QED BY <1>2, <1>3, <1>4

-----------------------------------------------------------------------------
(* Key stream.                                                             *)

\* A smaller number of blocks.
LEMMA BlocksBelow ==
  ASSUME NEW r \in Nat, r >= 2, NEW m \in Nat, NEW i \in Nat, i < m * r
  PROVE  i \div r \in Nat /\ i \div r < m
  <1>1. PICK q \in Nat, p \in 0..(r - 1) : p = i % r /\ q = i \div r /\ i = q * r + p
    BY Parts, Zenon
  <1>2. SUFFICES ASSUME q >= m PROVE FALSE
    BY <1>1
  <1>3. PICK t \in Nat : q = m + t
    BY <1>2
  <1>4. (m + t) * r = m * r + t * r /\ t * r \in Nat /\ m * r \in Nat
    OBVIOUS
  <1>. QED BY <1>1, <1>3, <1>4

\* Bytes at different places differ in their block or in their position.
LEMMA PlacesDiffer ==
  ASSUME NEW r \in Nat, r >= 2, NEW i \in Nat, NEW j \in Nat, i # j
  PROVE  i \div r # j \div r \/ i % r # j % r
  <1>1. PICK q \in Nat, p \in 0..(r - 1) : p = i % r /\ q = i \div r /\ i = q * r + p
    BY Parts, Zenon
  <1>2. PICK q2 \in Nat, p2 \in 0..(r - 1) : p2 = j % r /\ q2 = j \div r /\ j = q2 * r + p2
    BY Parts, Zenon
  <1>. QED BY <1>1, <1>2

\* The key stream of GCM, within the length it accepts.
LEMMA GcmStreamOnce ==
  ASSUME Rate, Counters, NEW v, Iv(v), NEW d \in Nat, ~ TooLong(d),
         NEW i \in 1..d, NEW j \in 1..d
  PROVE  /\ GcmByte(v, i).past # v
         /\ i # j => GcmByte(v, i).past # GcmByte(v, j).past \/ GcmByte(v, i).at # GcmByte(v, j).at
  <1>1. PICK k, x : v = <<k, x>> /\ x \in 0..(CtrMod - 1)
    BY DEF Iv
  <1>2. PICK m \in Nat : m = CtrMod - 1 /\ m >= 1 /\ d <= m * R
    <2>1. PICK m \in Nat : m = CtrMod - 1 /\ m >= 1
      BY DEF Counters
    <2>2. PICK top \in Nat : top = m * R
      BY DEF Rate
    <2>3. ~ (d > (CtrMod - 1) * R)
      BY Zenon DEF TooLong
    <2>4. d <= top
      <3>1. ~ (d > top)
        BY <2>1, <2>2, <2>3, Zenon
      <3>. QED BY <3>1
    <2>. QED BY <2>1, <2>2, <2>4
  <1>3. PICK i1 \in Nat, j1 \in Nat : i1 = i - 1 /\ j1 = j - 1 /\ i1 < m * R /\ j1 < m * R
    <2>1. m * R \in Nat
      BY DEF Rate
    <2>. QED BY <1>2, <2>1
  <1>4. PICK q \in Nat, s \in Nat : q = i1 \div R /\ s = j1 \div R /\ q < m /\ s < m
    <2>1. i1 \div R \in Nat /\ i1 \div R < m /\ j1 \div R \in Nat /\ j1 \div R < m
      BY <1>3, BlocksBelow DEF Rate
    <2>. QED BY <2>1
  <1>5. /\ GcmByte(v, i).past = <<k, (x + q + 1) % CtrMod>>
        /\ GcmByte(v, j).past = <<k, (x + s + 1) % CtrMod>>
        /\ GcmByte(v, i).at = i1 % R /\ GcmByte(v, j).at = j1 % R
    <2>1. v[1] = k /\ v[2] = x
      BY <1>1
    <2>2. /\ GcmBlock(v, i1) = <<k, (x + q + 1) % CtrMod>>
          /\ GcmBlock(v, j1) = <<k, (x + s + 1) % CtrMod>>
      BY <1>4, <2>1, Zenon DEF GcmBlock
    <2>3. \A p, t, b : Cover(p, t, b).past = p /\ Cover(p, t, b).at = t
      BY DEF Cover
    <2>4. /\ GcmByte(v, i).past = GcmBlock(v, i - 1) /\ GcmByte(v, i).at = (i - 1) % R
          /\ GcmByte(v, j).past = GcmBlock(v, j - 1) /\ GcmByte(v, j).at = (j - 1) % R
      BY <2>3, Zenon DEF GcmByte
    <2>. QED BY <1>3, <2>2, <2>4, Zenon
  <1>6. \A y \in Nat, e \in 1..(CtrMod - 1) : (y + e) % CtrMod # y % CtrMod
    BY CountersDiffer DEF Counters
  <1>7. (x + q + 1) % CtrMod # x
    <2>1. x % CtrMod = x
      BY <1>1 DEF Counters
    <2>2. q + 1 \in 1..(CtrMod - 1) /\ x \in Nat /\ x + (q + 1) = x + q + 1
      BY <1>1, <1>2, <1>4 DEF Counters
    <2>3. (x + (q + 1)) % CtrMod # x % CtrMod
      BY <1>6, <2>2
    <2>. QED BY <2>1, <2>2, <2>3
  <1>8. q # s => (x + q + 1) % CtrMod # (x + s + 1) % CtrMod
    <2>0. x \in Nat /\ CtrMod \in Nat
      BY <1>1 DEF Counters
    <2>1. CASE q < s
      <3>1. PICK y \in Nat, e \in 1..(CtrMod - 1) : y = x + q + 1 /\ e = s - q /\ y + e = x + s + 1
        <4>1. s - q \in 1..(CtrMod - 1) /\ x + q + 1 \in Nat /\ (x + q + 1) + (s - q) = x + s + 1
          BY <1>2, <1>4, <2>0, <2>1
        <4>. QED BY <4>1
      <3>2. (y + e) % CtrMod # y % CtrMod
        BY <1>6
      <3>. QED BY <3>1, <3>2
    <2>2. CASE s < q
      <3>1. PICK y \in Nat, e \in 1..(CtrMod - 1) : y = x + s + 1 /\ e = q - s /\ y + e = x + q + 1
        <4>1. q - s \in 1..(CtrMod - 1) /\ x + s + 1 \in Nat /\ (x + s + 1) + (q - s) = x + q + 1
          BY <1>2, <1>4, <2>0, <2>2
        <4>. QED BY <4>1
      <3>2. (y + e) % CtrMod # y % CtrMod
        BY <1>6
      <3>. QED BY <3>1, <3>2
    <2>. QED BY <1>4, <2>1, <2>2
  <1>9. i # j => q # s \/ i1 % R # j1 % R
    <2>1. i # j => i1 # j1
      BY <1>3
    <2>2. i1 # j1 => i1 \div R # j1 \div R \/ i1 % R # j1 % R
      BY <1>3, PlacesDiffer DEF Rate
    <2>. QED BY <1>4, <2>1, <2>2
  <1>. QED BY <1>1, <1>5, <1>7, <1>8, <1>9

\* The key stream of ChaCha20; block 0 is not used for data.
LEMMA ChaStreamOnce ==
  ASSUME Rate, NEW v, NEW d \in Nat, NEW i \in 1..d, NEW j \in 1..d
  PROVE  /\ ChaByte(v, i).past # <<v, 0>>
         /\ i # j => ChaByte(v, i).past # ChaByte(v, j).past \/ ChaByte(v, i).at # ChaByte(v, j).at
  <1>1. PICK i1 \in Nat, j1 \in Nat : i1 = i - 1 /\ j1 = j - 1
    OBVIOUS
  <1>2. PICK q \in Nat, s \in Nat : q = i1 \div R /\ s = j1 \div R
    <2>1. i1 \div R \in Nat /\ j1 \div R \in Nat
      BY DEF Rate
    <2>. QED BY <2>1
  <1>3. /\ ChaByte(v, i).past = <<v, q + 1>> /\ ChaByte(v, j).past = <<v, s + 1>>
        /\ ChaByte(v, i).at = i1 % R /\ ChaByte(v, j).at = j1 % R
    <2>1. \A p, t, b : Cover(p, t, b).past = p /\ Cover(p, t, b).at = t
      BY DEF Cover
    <2>2. /\ ChaByte(v, i).past = <<v, ((i - 1) \div R) + 1>>
          /\ ChaByte(v, j).past = <<v, ((j - 1) \div R) + 1>>
          /\ ChaByte(v, i).at = (i - 1) % R /\ ChaByte(v, j).at = (j - 1) % R
      BY <2>1, Zenon DEF ChaByte
    <2>. QED BY <1>1, <1>2, <2>2, Zenon
  <1>4. i1 # j1 => i1 \div R # j1 \div R \/ i1 % R # j1 % R
    BY <1>1, PlacesDiffer DEF Rate
  <1>. QED BY <1>1, <1>2, <1>3, <1>4

-----------------------------------------------------------------------------
(* The inductive invariant.                                                *)

TagOf(alg, c) == CASE alg = "gcm"    -> GcmTag(c)
                   [] alg = "chacha" -> ChaTag(c)
                   [] alg = "ascon"  -> AsconTag(c)

Sealing == {"seal-aad", "seal"}
Opening == {"open-aad", "open"}

\* While a message is sealed, nothing else happens.
SealPart(a, d) ==
  stage \in Sealing =>
    /\ ~tampered /\ verdict = "none" /\ opened = Nothing
    /\ \E ct : wire = [aad |-> <<>>, ct |-> ct, tag |-> <<>>]
    /\ ~refused => OnCourse(aead, cryptor, iv, a, d, stage = "seal", regular)

\* The ciphertext, of d bytes.
CtPart(a, d) ==
  ~tampered /\ ~refused =>
    /\ InRange(aead, d)
    /\ aead # "ascon" \/ regular => wire.ct = CtPiece(aead, iv, a, 0, d)

\* What arrives with it.
WirePart(a, d) ==
  stage \notin Sealing /\ ~tampered /\ ~refused /\ regular =>
    /\ wire.aad = AadOf(a)
    /\ wire.tag = TagOf(aead, CtxOf(aead, iv, a, d, TRUE))

\* The b and e bytes that were opened of it.
Opened(a, d, b, e) ==
  /\ b \in 0..a /\ e \in 0..d
  /\ opened = [aad |-> AadOf(b), pt |-> PtOf(e)]
  /\ stage = "open" => b = a
  /\ OnCourse(aead, cryptor, iv, b, e, stage = "open", TRUE)

OpenPart(a, d) ==
  /\ stage = "wire" => opened = Nothing
  /\ stage # "done" => verdict = "none"
  /\ stage \in Opening /\ ~tampered /\ ~refused /\ regular =>
       \E b, e : Opened(a, d, b, e)

\* The end.
DonePart(d) ==
  stage = "done" /\ ~tampered /\ ~refused /\ regular =>
    verdict = "ok" /\ opened.pt = PtOf(d)

Types ==
  /\ Algorithm(aead) /\ Iv(iv)
  /\ stage \in Sealing \union Opening \union {"wire", "done"}
  /\ tampered \in BOOLEAN /\ refused \in BOOLEAN /\ regular \in BOOLEAN

Message(a, d) ==
  /\ a \in 0..MaxAad /\ d \in 0..MaxData
  /\ sealed = [aad |-> AadOf(a), pt |-> PtOf(d)]

Course(a, d) ==
  /\ Message(a, d) /\ SealPart(a, d) /\ CtPart(a, d) /\ WirePart(a, d)
  /\ OpenPart(a, d) /\ DonePart(d)

AeadInv == Types /\ \E a, d : Course(a, d)

\* What the constants are.
LEMMA Given ==
  /\ Rate /\ Counters /\ Bounds
  /\ Chunks \subseteq Nat /\ Starts \subseteq 0..(CtrMod - 1)
  /\ Aeads \subseteq {"gcm", "chacha", "ascon"}
  BY AeadAssumption DEF AeadAssumption, RateAssumption, Rate, Counters, Bounds

\* Data of no bytes is the only one that is empty.
LEMMA Emptiness ==
  \A n \in Nat : /\ AadOf(n) = <<>> <=> n = 0
                 /\ PtOf(n) = <<>> <=> n = 0
                 /\ Len(AadOf(n)) = n /\ Len(PtOf(n)) = n
  <1>. SUFFICES ASSUME NEW n \in Nat
                PROVE  /\ AadOf(n) = <<>> <=> n = 0
                       /\ PtOf(n) = <<>> <=> n = 0
                       /\ Len(AadOf(n)) = n /\ Len(PtOf(n)) = n
    OBVIOUS
  <1>1. Within(0, 0, n)
    BY DEF Within
  <1>2. Len(AadOf(n)) = n /\ Len(PtOf(n)) = n
    BY <1>1, PiecesAre, Zenon
  <1>3. AadOf(0) = <<>> /\ PtOf(0) = <<>> /\ Len(<<>>) = 0
    BY DEF AadOf, PtOf
  <1>. QED BY <1>2, <1>3, Zenon

\* AeadInit.
LEMMA AeadInitInv == AeadInit => AeadInv
  <1>. SUFFICES ASSUME AeadInit PROVE AeadInv
    OBVIOUS
  <1>1. Types
    <2>1. Algorithm(aead)
      BY Given DEF AeadInit, Algorithm
    <2>2. Iv(iv)
      <3>1. PICK x \in Starts : iv = <<1, x>>
        BY DEF AeadInit
      <3>. QED BY <3>1, Given DEF Iv
    <2>. QED BY <2>1, <2>2 DEF AeadInit, Types, Sealing
  <1>2. AadOf(0) = <<>> /\ PtOf(0) = <<>>
    BY Emptiness
  <1>3. Message(0, 0)
    BY <1>2, Given DEF AeadInit, Nothing, Message, Bounds
  <1>4. SealPart(0, 0)
    <2>1. PICK c : cryptor = SetKey(c, iv)
      BY Zenon DEF AeadInit
    <2>2. OnCourse(aead, cryptor, iv, 0, 0, FALSE, TRUE)
      BY <1>1, <2>1, Given, SetKeyCourse, Zenon DEF Types
    <2>3. (stage = "seal") = FALSE /\ regular = TRUE
      BY DEF AeadInit
    <2>4. OnCourse(aead, cryptor, iv, 0, 0, stage = "seal", regular)
      BY <2>2, <2>3, Zenon
    <2>5. \E ct : wire = [aad |-> <<>>, ct |-> ct, tag |-> <<>>]
      BY Zenon DEF AeadInit
    <2>. QED BY <2>4, <2>5 DEF SealPart, AeadInit
  <1>5. CtPart(0, 0)
    <2>1. CtPiece(aead, iv, 0, 0, 0) = <<>>
      BY DEF CtPiece
    <2>2. ~ TooLong(0)
      <3>1. CtrMod - 1 \in Nat /\ R \in Nat
        BY Given DEF Rate, Counters
      <3>2. (CtrMod - 1) * R \in Nat
        BY <3>1
      <3>. QED BY <3>2 DEF TooLong
    <2>3. wire.ct = <<>>
      BY DEF AeadInit
    <2>. QED BY <2>1, <2>2, <2>3 DEF CtPart, InRange
  <1>6. WirePart(0, 0) /\ OpenPart(0, 0) /\ DonePart(0)
    BY DEF AeadInit, WirePart, OpenPart, DonePart, Sealing, Opening
  <1>. QED BY <1>1, <1>3, <1>4, <1>5, <1>6, Zenon DEF AeadInv, Course

\* StartAgain begins another message.
LEMMA StartAgainInv == AeadInv /\ StartAgain => AeadInv'
  <1>. SUFFICES ASSUME AeadInv, StartAgain PROVE AeadInv'
    OBVIOUS
  <1>1. PICK a, d : Types /\ Course(a, d)
    BY Zenon DEF AeadInv
  <1>2. Types'
    <2>1. Iv(iv')
      <3>1. PICK k, x : iv = <<k, x>> /\ x \in 0..(CtrMod - 1)
        BY <1>1 DEF Types, Iv
      <3>2. iv' = <<k + 1, x>>
        BY <3>1 DEF StartAgain
      <3>. QED BY <3>1, <3>2 DEF Iv
    <2>. QED BY <1>1, <2>1 DEF StartAgain, Types, Sealing, Iv
  <1>3. AadOf(0) = <<>> /\ PtOf(0) = <<>>
    BY Emptiness
  <1>4. Message(0, 0)'
    BY <1>3, Given DEF StartAgain, Nothing, Message, Bounds
  <1>5. /\ ~tampered /\ verdict = "none" /\ opened = Nothing
        /\ \E ct : wire = [aad |-> <<>>, ct |-> ct, tag |-> <<>>]
    BY <1>1, Zenon DEF Course, SealPart, StartAgain, Sealing
  <1>6. wire' = [aad |-> <<>>, ct |-> <<>>, tag |-> <<>>]
    BY <1>5 DEF StartAgain
  <1>7. SealPart(0, 0)'
    <2>1. OnCourse(aead, cryptor', iv', 0, 0, FALSE, TRUE)
      BY <1>1, Given, SetKeyCourse, Zenon DEF Types, StartAgain
    <2>2. (stage' = "seal") = FALSE /\ regular' = TRUE /\ aead' = aead
      BY DEF StartAgain
    <2>3. OnCourse(aead', cryptor', iv', 0, 0, stage' = "seal", regular')
      BY <2>1, <2>2, Zenon
    <2>. QED BY <1>5, <1>6, <2>3 DEF SealPart, StartAgain
  <1>8. CtPart(0, 0)'
    <2>1. CtPiece(aead', iv', 0, 0, 0) = <<>>
      BY DEF CtPiece
    <2>2. ~ TooLong(0)
      <3>1. CtrMod - 1 \in Nat /\ R \in Nat
        BY Given DEF Rate, Counters
      <3>2. (CtrMod - 1) * R \in Nat
        BY <3>1
      <3>. QED BY <3>2 DEF TooLong
    <2>3. wire'.ct = <<>>
      BY <1>6
    <2>. QED BY <2>1, <2>2, <2>3 DEF CtPart, InRange
  <1>9. WirePart(0, 0)' /\ OpenPart(0, 0)' /\ DonePart(0)'
    BY <1>5 DEF StartAgain, WirePart, OpenPart, DonePart, Sealing, Opening
  <1>. QED BY <1>2, <1>4, <1>7, <1>8, <1>9, Zenon DEF AeadInv, Course

\* EncInit adds a piece of additional data.
LEMMA EncInitInv == ASSUME NEW n \in Chunks PROVE AeadInv /\ EncInit(n) => AeadInv'
  <1>. SUFFICES ASSUME AeadInv, EncInit(n) PROVE AeadInv'
    OBVIOUS
  <1>1. PICK a, d : Types /\ Course(a, d)
    BY Zenon DEF AeadInv
  <1>2. /\ n \in Nat /\ a \in Nat /\ d \in Nat /\ a \in 0..MaxAad /\ d \in 0..MaxData
        /\ sealed = [aad |-> AadOf(a), pt |-> PtOf(d)]
    BY <1>1, Given DEF Course, Message, Bounds
  <1>3. sealed.aad = AadOf(a) /\ Len(sealed.aad) = a
    BY <1>2, Emptiness
  <1>4. Within(a, n, MaxAad)
    BY <1>2, <1>3, Given DEF EncInit, Within, Bounds
  <1>5. [i \in 1..n |-> <<"aad", Len(sealed.aad) + i>>] = AadPiece(a, n)
    BY <1>3, Zenon DEF AadPiece
  <1>6. /\ cryptor' = AddAad(cryptor, AadPiece(a, n))
        /\ sealed' = [sealed EXCEPT !.aad = @ \o AadPiece(a, n)]
    BY <1>5, Zenon DEF EncInit
  <1>7. Types'
    BY <1>1 DEF Types, EncInit, Iv
  <1>8. Message(a + n, d)'
    <2>1. AadOf(a) \o AadPiece(a, n) = AadOf(a + n)
      BY <1>2, Given, PolyGrows
    <2>2. sealed' = [sealed EXCEPT !.aad = AadOf(a + n)]
      BY <1>3, <1>6, <2>1, Zenon
    <2>3. sealed' = [aad |-> AadOf(a + n), pt |-> PtOf(d)]
      BY <1>2, <2>2
    <2>. QED BY <1>2, <1>4, <2>3 DEF Message, Within
  <1>9. /\ ~tampered /\ verdict = "none" /\ opened = Nothing
        /\ \E ct : wire = [aad |-> <<>>, ct |-> ct, tag |-> <<>>]
        /\ ~refused => OnCourse(aead, cryptor, iv, a, d, stage = "seal", regular)
    BY <1>1, Zenon DEF Course, SealPart, EncInit, Sealing
  <1>10. ~refused => OnCourse(aead, cryptor, iv, a, d, FALSE, regular)
    <2>1. (stage = "seal") = FALSE
      BY DEF EncInit
    <2>. QED BY <1>9, <2>1, Zenon
  <1>11. regular' = (regular /\ (aead = "ascon" => n = 0 \/ a = 0))
    <2>1. sealed.aad = <<>> <=> a = 0
      BY <1>2, <1>3, Emptiness
    <2>. QED BY <2>1 DEF EncInit, OneAad
  <1>12. SealPart(a + n, d)'
    <2>1. ASSUME ~refused
          PROVE  OnCourse(aead, cryptor', iv, a + n, d, FALSE, regular')
      <3>1. regular \in BOOLEAN
        BY <1>1 DEF Types
      <3>2. OnCourse(aead, AddAad(cryptor, AadPiece(a, n)), iv, a + n, d, FALSE,
                     regular /\ (aead = "ascon" => n = 0 \/ a = 0))
        BY <1>1, <1>4, <1>10, <2>1, <3>1, Given, AadCourse, Zenon DEF Types
      <3>. QED BY <1>6, <1>11, <3>2, Zenon
    <2>2. (stage' = "seal") = FALSE
      BY DEF EncInit
    <2>3. ~refused => OnCourse(aead, cryptor', iv, a + n, d, stage' = "seal", regular')
      BY <2>1, <2>2, Zenon
    <2>. QED BY <1>9, <2>3, Zenon DEF SealPart, EncInit
  <1>13. CtPart(a + n, d)'
    <2>. SUFFICES ASSUME ~refused
                  PROVE  CtPart(a + n, d)'
      BY DEF CtPart, EncInit
    <2>1. d = 0
      BY <1>10 DEF OnCourse, Begins
    <2>2. \A x : CtPiece(aead, iv, x, 0, 0) = <<>>
      BY DEF CtPiece
    <2>3. InRange(aead, d) /\ (aead # "ascon" \/ regular => wire.ct = CtPiece(aead, iv, a, 0, d))
      BY <1>1, <1>9, Zenon DEF Course, CtPart
    <2>. QED BY <1>11, <2>1, <2>2, <2>3 DEF CtPart, EncInit
  <1>14. WirePart(a + n, d)' /\ OpenPart(a + n, d)' /\ DonePart(d)'
    BY <1>9 DEF EncInit, WirePart, OpenPart, DonePart, Sealing, Opening
  <1>. QED BY <1>7, <1>8, <1>12, <1>13, <1>14, Zenon DEF AeadInv, Course

\* An update that is not refused does not run out of counters.
LEMMA NotRefused ==
  ASSUME Rate, Counters, Bounds, NEW c, NEW v, Iv(v), NEW a, NEW d, NEW begun,
         NEW good, OnCourse(aead, c, v, a, d, begun, good),
         NEW n, Within(d, n, MaxData), InRange(aead, d),
         ~ \E i \in 1..n : EncUpdate(c, PtPiece(d, n)).out[i] = Nought
  PROVE  InRange(aead, d + n)
  <1>. SUFFICES ASSUME aead = "gcm", TooLong(d + n) PROVE FALSE
    BY DEF InRange
  <1>1. d \in Nat /\ n \in Nat /\ a \in 0..MaxAad /\ d \in 0..MaxData /\ Begins(begun, d)
    BY DEF Within, OnCourse
  <1>2. c.len = d
    <2>1. c = CtxOf("gcm", v, a, d, begun)
      BY DEF OnCourse
    <2>2. CtxOf("gcm", v, a, d, begun).len = d
      BY <1>1, GcmReady
    <2>. QED BY <2>1, <2>2, Zenon
  <1>3. n # 0
    <2>1. n = 0 => d + n = d
      BY <1>1
    <2>. QED BY <2>1, Zenon DEF InRange
  <1>4. PICK in : in = PtPiece(d, n)
    OBVIOUS
  <1>5. Len(in) = n
    BY <1>4, PiecesAre, Zenon
  <1>6. EncUpdate(c, in) = GcmSeal(c, in)
    BY DEF EncUpdate
  <1>7. TooLong(c.len + Len(in))
    BY <1>2, <1>5, Zenon
  <1>8. PICK o, x : GcmSeal(c, in) = [ctx |-> x, out |-> o] /\ o = [i \in 1..n |-> Nought]
    BY <1>5, <1>7, Zenon DEF GcmSeal
  <1>9. EncUpdate(c, in).out = o
    BY <1>6, <1>8
  <1>10. 1 \in 1..n /\ o[1] = Nought
    BY <1>1, <1>3, <1>8
  <1>. QED BY <1>4, <1>9, <1>10, Zenon

\* EncUpdates seals the next piece.
LEMMA EncUpdatesInv == ASSUME NEW n \in Chunks PROVE AeadInv /\ EncUpdates(n) => AeadInv'
  <1>. SUFFICES ASSUME AeadInv, EncUpdates(n) PROVE AeadInv'
    OBVIOUS
  <1>1. PICK a, d : Types /\ Course(a, d)
    BY Zenon DEF AeadInv
  <1>2. /\ n \in Nat /\ a \in Nat /\ d \in Nat /\ a \in 0..MaxAad /\ d \in 0..MaxData
        /\ sealed = [aad |-> AadOf(a), pt |-> PtOf(d)]
    BY <1>1, Given DEF Course, Message, Bounds
  <1>3. sealed.aad = AadOf(a) /\ sealed.pt = PtOf(d) /\ Len(sealed.pt) = d
    BY <1>2, Emptiness
  <1>4. Within(d, n, MaxData)
    BY <1>2, <1>3, Given DEF EncUpdates, Within, Bounds
  <1>5. [i \in 1..n |-> Plain(Len(sealed.pt) + i)] = PtPiece(d, n)
    BY <1>3, Zenon DEF PtPiece
  <1>6. PICK r : r = EncUpdate(cryptor, PtPiece(d, n))
    OBVIOUS
  <1>7. /\ cryptor' = r.ctx
        /\ sealed' = [sealed EXCEPT !.pt = @ \o PtPiece(d, n)]
        /\ wire' = [wire EXCEPT !.ct = @ \o r.out]
        /\ refused' = (refused \/ \E i \in 1..n : r.out[i] = Nought)
    BY <1>5, <1>6, Zenon DEF EncUpdates
  <1>8. Types'
    BY <1>1, <1>7 DEF Types, EncUpdates, Iv, Sealing
  <1>9. Message(a, d + n)'
    <2>1. PtOf(d) \o PtPiece(d, n) = PtOf(d + n)
      BY <1>2, PiecesJoin
    <2>2. sealed' = [sealed EXCEPT !.pt = PtOf(d + n)]
      BY <1>3, <1>7, <2>1, Zenon
    <2>3. sealed' = [aad |-> AadOf(a), pt |-> PtOf(d + n)]
      BY <1>2, <2>2
    <2>. QED BY <1>2, <1>4, <2>3 DEF Message, Within
  <1>10. /\ ~tampered /\ verdict = "none" /\ opened = Nothing
         /\ \E ct : wire = [aad |-> <<>>, ct |-> ct, tag |-> <<>>]
         /\ ~refused => OnCourse(aead, cryptor, iv, a, d, stage = "seal", regular)
    BY <1>1, Zenon DEF Course, SealPart, EncUpdates, Sealing
  <1>11. regular' = (regular /\ Starts1(aead, a, d, n))
    <2>1. (sealed.aad = <<>> <=> a = 0) /\ (sealed.pt = <<>> <=> d = 0)
      BY <1>2, <1>3, Emptiness
    <2>. QED BY <2>1 DEF EncUpdates, OneStart, Starts1
  <1>12. regular \in BOOLEAN /\ Algorithm(aead) /\ Iv(iv) /\ refused \in BOOLEAN
    BY <1>1 DEF Types
  <1>13. PICK w : wire' = [aad |-> <<>>, ct |-> wire.ct \o w, tag |-> <<>>] /\ w = r.out
    <2>1. PICK ct : wire = [aad |-> <<>>, ct |-> ct, tag |-> <<>>]
      BY <1>10
    <2>2. PICK x : x = wire.ct \o r.out
      OBVIOUS
    <2>3. wire' = [wire EXCEPT !.ct = x]
      BY <1>7, <2>2, Zenon
    <2>4. wire' = [aad |-> <<>>, ct |-> x, tag |-> <<>>]
      BY <2>1, <2>3
    <2>. QED BY <2>2, <2>4, Zenon
  <1>14. ASSUME ~refused'
         PROVE  /\ OnCourse(aead, cryptor', iv, a, d + n, TRUE, regular')
                /\ InRange(aead, d + n)
                /\ aead # "ascon" \/ regular => r.out = CtPiece(aead, iv, a, d, n)
                /\ aead # "ascon" \/ regular => wire.ct = CtPiece(aead, iv, a, 0, d)
    <2>1. ~refused /\ ~ \E i \in 1..n : r.out[i] = Nought
      BY <1>7, <1>14, Zenon
    <2>2. PICK begun : OnCourse(aead, cryptor, iv, a, d, begun, regular)
      BY <1>10, <2>1, Zenon
    <2>3. InRange(aead, d) /\ (aead # "ascon" \/ regular => wire.ct = CtPiece(aead, iv, a, 0, d))
      BY <1>1, <1>10, <2>1, Zenon DEF Course, CtPart
    <2>4. InRange(aead, d + n)
      BY <1>4, <1>6, <1>12, <2>1, <2>2, <2>3, Given, NotRefused
    <2>5. /\ OnCourse(aead, r.ctx, iv, a, d + n, TRUE, regular /\ Starts1(aead, a, d, n))
          /\ aead # "ascon" \/ regular => r.out = CtPiece(aead, iv, a, d, n)
      <3>1. SealsTo(EncUpdate(cryptor, PtPiece(d, n)), aead, iv, a, d, n, regular, regular')
        BY <1>4, <1>11, <1>12, <2>2, <2>4, Given, SealCourse
      <3>. QED BY <1>6, <1>11, <3>1, Zenon DEF SealsTo
    <2>. QED BY <1>7, <1>11, <2>3, <2>4, <2>5, Zenon
  <1>15. SealPart(a, d + n)'
    <2>1. (stage' = "seal") = TRUE
      BY DEF EncUpdates
    <2>2. ~refused' => OnCourse(aead, cryptor', iv, a, d + n, stage' = "seal", regular')
      BY <1>14, <2>1, Zenon
    <2>. QED BY <1>10, <1>13, <2>2, Zenon DEF SealPart, EncUpdates
  <1>16. CtPart(a, d + n)'
    <2>. SUFFICES ASSUME ~refused'
                  PROVE  /\ InRange(aead, d + n)
                         /\ aead # "ascon" \/ regular' =>
                              wire'.ct = CtPiece(aead, iv, a, 0, d + n)
      BY DEF CtPart, EncUpdates
    <2>1. CtPiece(aead, iv, a, 0, d) \o CtPiece(aead, iv, a, d, n)
            = CtPiece(aead, iv, a, 0, d + n)
      BY <1>2, PiecesJoin
    <2>2. wire'.ct = wire.ct \o r.out
      <3>1. \A x : [aad |-> <<>>, ct |-> x, tag |-> <<>>].ct = x
        OBVIOUS
      <3>. QED BY <1>13, <3>1, Zenon
    <2>3. regular' => regular
      BY <1>11, Zenon
    <2>. QED BY <1>14, <2>1, <2>2, <2>3, Zenon
  <1>17. WirePart(a, d + n)' /\ OpenPart(a, d + n)' /\ DonePart(d + n)'
    BY <1>10 DEF EncUpdates, WirePart, OpenPart, DonePart, Sealing, Opening
  <1>. QED BY <1>8, <1>9, <1>15, <1>16, <1>17, Zenon DEF AeadInv, Course

\* EncFinal sends it.
LEMMA EncFinalInv == AeadInv /\ EncFinal => AeadInv'
  <1>. SUFFICES ASSUME AeadInv, EncFinal PROVE AeadInv'
    OBVIOUS
  <1>1. PICK a, d : Types /\ Course(a, d)
    BY Zenon DEF AeadInv
  <1>2. /\ a \in Nat /\ d \in Nat /\ sealed.aad = AadOf(a)
    BY <1>1, Given DEF Course, Message, Bounds
  <1>3. Types'
    BY <1>1 DEF Types, EncFinal, Iv, Sealing
  <1>4. Message(a, d)'
    BY <1>1 DEF Course, Message, EncFinal
  <1>5. /\ ~tampered /\ verdict = "none" /\ opened = Nothing
        /\ \E ct : wire = [aad |-> <<>>, ct |-> ct, tag |-> <<>>]
        /\ ~refused => OnCourse(aead, cryptor, iv, a, d, stage = "seal", regular)
    BY <1>1, Zenon DEF Course, SealPart, EncFinal, Sealing
  <1>6. wire' = [aad |-> AadOf(a), ct |-> wire.ct, tag |-> Tag(cryptor)]
    BY <1>2, <1>5 DEF EncFinal
  <1>7. SealPart(a, d)'
    BY DEF EncFinal, SealPart, Sealing
  <1>8. CtPart(a, d)'
    <2>1. wire'.ct = wire.ct
      BY <1>6
    <2>2. CtPart(a, d)
      BY <1>1, Zenon DEF Course
    <2>. QED BY <2>1, <2>2 DEF CtPart, EncFinal
  <1>9. WirePart(a, d)'
    <2>. SUFFICES ASSUME ~refused, regular'
                  PROVE  wire'.aad = AadOf(a) /\ wire'.tag = TagOf(aead, CtxOf(aead, iv, a, d, TRUE))
      BY DEF WirePart, EncFinal
    <2>1. regular = TRUE /\ Started(sealed.aad)
      BY <1>1 DEF EncFinal, Types
    <2>2. PICK begun : begun = (stage = "seal")
      OBVIOUS
    <2>3. OnCourse(aead, cryptor, iv, a, d, begun, TRUE)
      BY <1>5, <2>1, <2>2, Zenon
    <2>4. aead # "ascon" /\ a # 0 => begun
      <3>1. sealed.aad = <<>> <=> a = 0
        BY <1>2, Emptiness
      <3>. QED BY <1>1, <2>1, <2>2, <3>1 DEF Started, Types, Algorithm, EncFinal
    <2>5. cryptor = CtxOf(aead, iv, a, d, TRUE)
      BY <1>1, <2>3, <2>4, Given, LastCourse DEF Types
    <2>6. Tag(cryptor) = TagOf(aead, cryptor)
      BY Zenon DEF Tag, TagOf
    <2>. QED BY <1>6, <2>5, <2>6
  <1>10. OpenPart(a, d)' /\ DonePart(d)'
    BY <1>5 DEF EncFinal, OpenPart, DonePart, Opening
  <1>. QED BY <1>3, <1>4, <1>7, <1>8, <1>9, <1>10, Zenon DEF AeadInv, Course

\* Tamper: from here on, nothing is claimed.
LEMMA TamperInv == ASSUME NEW other PROVE AeadInv /\ Tamper(other) => AeadInv'
  <1>. SUFFICES ASSUME AeadInv, Tamper(other) PROVE AeadInv'
    OBVIOUS
  <1>1. PICK a, d : Types /\ Course(a, d)
    BY Zenon DEF AeadInv
  <1>2. Types'
    BY <1>1 DEF Types, Tamper, Iv
  <1>3. Message(a, d)'
    BY <1>1 DEF Course, Message, Tamper
  <1>4. OpenPart(a, d)
    BY <1>1, Zenon DEF Course
  <1>5. /\ SealPart(a, d)' /\ CtPart(a, d)' /\ WirePart(a, d)' /\ OpenPart(a, d)'
        /\ DonePart(d)'
    BY <1>4 DEF Tamper, SealPart, CtPart, WirePart, OpenPart, DonePart, Sealing, Opening
  <1>. QED BY <1>2, <1>3, <1>5, Zenon DEF AeadInv, Course

\* StartOpening sets the key up again.
LEMMA StartOpeningInv == AeadInv /\ StartOpening => AeadInv'
  <1>. SUFFICES ASSUME AeadInv, StartOpening PROVE AeadInv'
    OBVIOUS
  <1>1. PICK a, d : Types /\ Course(a, d)
    BY Zenon DEF AeadInv
  <1>2. Types'
    BY <1>1 DEF Types, StartOpening, Iv, Opening
  <1>3. Message(a, d)' /\ CtPart(a, d)'
    BY <1>1 DEF Course, Message, CtPart, StartOpening
  <1>4. SealPart(a, d)' /\ DonePart(d)'
    BY DEF StartOpening, SealPart, DonePart, Sealing
  <1>5. WirePart(a, d)'
    BY <1>1 DEF Course, WirePart, StartOpening, Sealing
  <1>6. opened = Nothing /\ verdict = "none"
    BY <1>1 DEF Course, OpenPart, StartOpening
  <1>7. OpenPart(a, d)'
    <2>1. OnCourse(aead, cryptor', iv, 0, 0, FALSE, TRUE)
      BY <1>1, Given, SetKeyCourse, Zenon DEF Types, StartOpening
    <2>2. (stage' = "open") = FALSE /\ stage' = "open-aad"
      BY DEF StartOpening
    <2>3. OnCourse(aead, cryptor', iv, 0, 0, stage' = "open", TRUE)
      BY <2>1, <2>2, Zenon
    <2>4. AadOf(0) = <<>> /\ PtOf(0) = <<>>
      BY Emptiness
    <2>5. opened' = [aad |-> AadOf(0), pt |-> PtOf(0)]
      BY <1>6, <2>4 DEF StartOpening, Nothing
    <2>6. 0 \in 0..a /\ 0 \in 0..d
      BY <1>1, Given DEF Course, Message, Bounds
    <2>7. aead' = aead /\ iv' = iv /\ verdict' = verdict
      BY DEF StartOpening
    <2>8. Opened(a, d, 0, 0)'
      <3>1. stage' # "open"
        BY <2>2
      <3>. QED BY <2>3, <2>5, <2>6, <2>7, <3>1, Zenon DEF Opened
    <2>. QED BY <1>6, <2>2, <2>7, <2>8 DEF OpenPart, StartOpening
  <1>. QED BY <1>2, <1>3, <1>4, <1>5, <1>7, Zenon DEF AeadInv, Course

\* DecInit takes the next piece of additional data.
LEMMA DecInitInv == ASSUME NEW n \in Chunks PROVE AeadInv /\ DecInit(n) => AeadInv'
  <1>. SUFFICES ASSUME AeadInv, DecInit(n) PROVE AeadInv'
    OBVIOUS
  <1>1. PICK a, d : Types /\ Course(a, d)
    BY Zenon DEF AeadInv
  <1>2. Types'
    BY <1>1 DEF Types, DecInit, Iv
  <1>3. Message(a, d)' /\ CtPart(a, d)'
    BY <1>1 DEF Course, Message, CtPart, DecInit
  <1>4. SealPart(a, d)' /\ DonePart(d)'
    BY DEF DecInit, SealPart, DonePart, Sealing
  <1>5. WirePart(a, d)'
    BY <1>1 DEF Course, WirePart, DecInit
  <1>6. OpenPart(a, d)
    BY <1>1, Zenon DEF Course
  <1>7. ASSUME ~tampered, ~refused, regular'
        PROVE  \E b, e : Opened(a, d, b, e)'
    <2>1. regular
      BY <1>7 DEF DecInit
    <2>2. PICK b, e : Opened(a, d, b, e)
      BY <1>6, <1>7, <2>1 DEF OpenPart, DecInit, Opening
    <2>3. wire.aad = AadOf(a)
      BY <1>1, <1>7, <2>1 DEF Course, WirePart, DecInit, Sealing
    <2>4. /\ a \in Nat /\ a <= MaxAad /\ d \in Nat /\ b \in Nat /\ e \in 0..d /\ n \in Nat
          /\ b \in 0..a
      BY <1>1, <2>2, Given DEF Course, Message, Opened, Bounds
    <2>5. opened = [aad |-> AadOf(b), pt |-> PtOf(e)]
      BY <2>2, Zenon DEF Opened
    <2>6. opened.aad = AadOf(b) /\ Len(opened.aad) = b /\ Len(wire.aad) = a
      BY <2>3, <2>4, <2>5, Emptiness
    <2>7. b + n <= a
      BY <2>6 DEF DecInit
    <2>8. Within(b, n, a) /\ Within(b, n, MaxAad)
      BY <2>4, <2>7, Given DEF Within, Bounds
    <2>9. SubSeq(wire.aad, Len(opened.aad) + 1, Len(opened.aad) + n) = AadPiece(b, n)
      <3>1. Middle(AadOf(a), b, n) = AadPiece(b, n)
        BY <2>8, PiecesCut
      <3>. QED BY <2>3, <2>6, <3>1, Zenon DEF Middle
    <2>10. /\ cryptor' = AddAad(cryptor, AadPiece(b, n))
           /\ opened' = [opened EXCEPT !.aad = @ \o AadPiece(b, n)]
      BY <2>9, Zenon DEF DecInit
    <2>11. opened' = [aad |-> AadOf(b + n), pt |-> PtOf(e)]
      <3>1. AadOf(b) \o AadPiece(b, n) = AadOf(b + n)
        BY <2>4, Given, PolyGrows
      <3>2. opened' = [opened EXCEPT !.aad = AadOf(b + n)]
        BY <2>6, <2>10, <3>1, Zenon
      <3>. QED BY <2>5, <3>2
    <2>12. (stage = "open") = FALSE /\ (stage' = "open") = FALSE /\ stage' # "open"
      BY DEF DecInit
    <2>13. OnCourse(aead, cryptor', iv, b + n, e, FALSE, TRUE)
      <3>1. OnCourse(aead, cryptor, iv, b, e, FALSE, TRUE)
        BY <2>2, <2>12, Zenon DEF Opened
      <3>2. OnCourse(aead, AddAad(cryptor, AadPiece(b, n)), iv, b + n, e, FALSE,
                     TRUE /\ (aead = "ascon" => n = 0 \/ b = 0))
        BY <1>1, <2>8, <3>1, Given, AadCourse, Zenon DEF Types
      <3>3. aead = "ascon" => n = 0 \/ b = 0
        <4>1. opened.aad = <<>> <=> b = 0
          BY <2>4, <2>6, Emptiness
        <4>. QED BY <1>7, <4>1 DEF DecInit, OneAad
      <3>4. (TRUE /\ (aead = "ascon" => n = 0 \/ b = 0)) = TRUE
        BY <3>3
      <3>. QED BY <2>10, <3>2, <3>4, Zenon
    <2>14. Opened(a, d, b + n, e)'
      <3>1. b + n \in 0..a
        BY <2>4, <2>7
      <3>2. aead' = aead /\ iv' = iv
        BY DEF DecInit
      <3>3. OnCourse(aead', cryptor', iv', b + n, e, stage' = "open", TRUE)
        BY <2>12, <2>13, <3>2, Zenon
      <3>. QED BY <2>4, <2>11, <2>12, <3>1, <3>3, Zenon DEF Opened
    <2>. QED BY <2>14, Zenon
  <1>8. OpenPart(a, d)'
    BY <1>6, <1>7 DEF OpenPart, DecInit, Opening
  <1>. QED BY <1>2, <1>3, <1>4, <1>5, <1>8, Zenon DEF AeadInv, Course

\* DecUpdates opens the next piece.
LEMMA DecUpdatesInv == ASSUME NEW n \in Chunks PROVE AeadInv /\ DecUpdates(n) => AeadInv'
  <1>. SUFFICES ASSUME AeadInv, DecUpdates(n) PROVE AeadInv'
    OBVIOUS
  <1>1. PICK a, d : Types /\ Course(a, d)
    BY Zenon DEF AeadInv
  <1>2. Types'
    BY <1>1 DEF Types, DecUpdates, Iv, Opening
  <1>3. Message(a, d)' 
    BY <1>1 DEF Course, Message, DecUpdates
  <1>4. SealPart(a, d)' /\ DonePart(d)'
    BY DEF DecUpdates, SealPart, DonePart, Sealing
  <1>5. WirePart(a, d)' /\ CtPart(a, d)'
    BY <1>1 DEF Course, WirePart, CtPart, DecUpdates, Sealing
  <1>6. OpenPart(a, d)
    BY <1>1, Zenon DEF Course
  <1>7. ASSUME ~tampered, ~refused, regular'
        PROVE  \E b, e : Opened(a, d, b, e)'
    <2>1. regular
      BY <1>7 DEF DecUpdates
    <2>2. PICK b, e : Opened(a, d, b, e)
      BY <1>6, <1>7, <2>1 DEF OpenPart, DecUpdates, Opening
    <2>3. wire.aad = AadOf(a) /\ wire.ct = CtPiece(aead, iv, a, 0, d)
      BY <1>1, <1>7, <2>1 DEF Course, WirePart, CtPart, DecUpdates, Sealing
    <2>4. /\ a \in Nat /\ d \in Nat /\ d <= MaxData /\ b \in Nat /\ e \in Nat /\ n \in Nat
          /\ e \in 0..d
      BY <1>1, <2>2, Given DEF Course, Message, Opened, Bounds
    <2>5. opened = [aad |-> AadOf(b), pt |-> PtOf(e)]
      BY <2>2, Zenon DEF Opened
    <2>6. /\ opened.aad = AadOf(b) /\ Len(opened.aad) = b /\ Len(wire.aad) = a
          /\ opened.pt = PtOf(e) /\ Len(opened.pt) = e
      BY <2>3, <2>4, <2>5, Emptiness
    <2>7. Len(wire.ct) = d
      <3>1. PICK s : s = wire.ct
        OBVIOUS
      <3>2. d \in Nat /\ s = CtPiece(aead, iv, a, 0, d)
        BY <3>1, <2>3, <2>4, Zenon
      <3>3. s = [i \in 1..d |-> s[i]]
        BY <3>2, Zenon DEF CtPiece
      <3>4. Len(s) = d
        BY <3>2, <3>3, FunLength, Zenon
      <3>. QED BY <3>1, <3>4, Zenon
    <2>8. b = a /\ e + n <= d
      BY <2>6, <2>7 DEF DecUpdates
    <2>9. Within(e, n, d) /\ Within(e, n, MaxData)
      BY <2>4, <2>8, Given DEF Within, Bounds
    <2>10. SubSeq(wire.ct, Len(opened.pt) + 1, Len(opened.pt) + n) = CtPiece(aead, iv, a, e, n)
      <3>1. Middle(CtPiece(aead, iv, a, 0, d), e, n) = CtPiece(aead, iv, a, e, n)
        BY <2>9, PiecesCut
      <3>. QED BY <2>3, <2>6, <3>1, Zenon DEF Middle
    <2>11. PICK r : r = DecUpdate(cryptor, CtPiece(aead, iv, a, e, n))
      OBVIOUS
    <2>12. cryptor' = r.ctx /\ opened' = [opened EXCEPT !.pt = @ \o r.out]
      BY <2>10, <2>11, Zenon DEF DecUpdates
    <2>13. PICK begun : begun = (stage = "open")
      OBVIOUS
    <2>14. OnCourse(aead, cryptor, iv, a, e, begun, TRUE)
      BY <2>2, <2>8, <2>13, Zenon DEF Opened
    <2>15. Starts1(aead, a, e, n)
      <3>1. (wire.aad = <<>> <=> a = 0) /\ (opened.pt = <<>> <=> e = 0)
        BY <2>3, <2>4, <2>6, Emptiness
      <3>. QED BY <1>7, <3>1 DEF DecUpdates, OneStart, Starts1
    <2>16. OnCourse(aead, r.ctx, iv, a, e + n, TRUE, TRUE) /\ r.out = PtPiece(e, n)
      <3>1. OpensTo(DecUpdate(cryptor, CtPiece(aead, iv, a, e, n)), aead, iv, a, e, n, TRUE)
        BY <1>1, <2>9, <2>14, <2>15, Given, OpenCourse DEF Types
      <3>. QED BY <2>11, <3>1, Zenon DEF OpensTo
    <2>17. opened' = [aad |-> AadOf(a), pt |-> PtOf(e + n)]
      <3>1. PtOf(e) \o PtPiece(e, n) = PtOf(e + n)
        BY <2>4, PiecesJoin
      <3>2. opened' = [opened EXCEPT !.pt = PtOf(e + n)]
        BY <2>6, <2>12, <2>16, <3>1, Zenon
      <3>. QED BY <2>5, <2>8, <3>2
    <2>18. Opened(a, d, a, e + n)'
      <3>1. a \in 0..a /\ e + n \in 0..d
        BY <2>4, <2>8
      <3>2. aead' = aead /\ iv' = iv /\ (stage' = "open") = TRUE
        BY DEF DecUpdates
      <3>3. OnCourse(aead', cryptor', iv', a, e + n, stage' = "open", TRUE)
        BY <2>12, <2>16, <3>2, Zenon
      <3>. QED BY <2>17, <3>1, <3>3, Zenon DEF Opened
    <2>. QED BY <2>18, Zenon
  <1>8. OpenPart(a, d)'
    BY <1>6, <1>7 DEF OpenPart, DecUpdates, Opening
  <1>. QED BY <1>2, <1>3, <1>4, <1>5, <1>8, Zenon DEF AeadInv, Course

\* DecFinal compares the tags.
LEMMA DecFinalInv == AeadInv /\ DecFinal => AeadInv'
  <1>. SUFFICES ASSUME AeadInv, DecFinal PROVE AeadInv'
    OBVIOUS
  <1>1. PICK a, d : Types /\ Course(a, d)
    BY Zenon DEF AeadInv
  <1>2. Types'
    BY <1>1 DEF Types, DecFinal, Iv
  <1>3. Message(a, d)'
    BY <1>1 DEF Course, Message, DecFinal
  <1>4. SealPart(a, d)' /\ OpenPart(a, d)'
    BY DEF DecFinal, SealPart, OpenPart, Sealing, Opening
  <1>5. WirePart(a, d)' /\ CtPart(a, d)'
    BY <1>1 DEF Course, WirePart, CtPart, DecFinal, Sealing
  <1>6. ASSUME ~tampered, ~refused, regular'
        PROVE  verdict' = "ok" /\ opened'.pt = PtOf(d)
    <2>1. regular /\ Started(wire.aad)
      BY <1>6 DEF DecFinal
    <2>2. PICK b, e : Opened(a, d, b, e)
      BY <1>1, <1>6, <2>1 DEF Course, OpenPart, DecFinal, Opening
    <2>3. /\ wire.aad = AadOf(a) /\ wire.ct = CtPiece(aead, iv, a, 0, d)
          /\ wire.tag = TagOf(aead, CtxOf(aead, iv, a, d, TRUE))
      BY <1>1, <1>6, <2>1 DEF Course, WirePart, CtPart, DecFinal, Sealing
    <2>4. /\ a \in Nat /\ d \in Nat /\ b \in Nat /\ e \in Nat
      BY <1>1, <2>2, Given DEF Course, Message, Opened, Bounds
    <2>5. opened = [aad |-> AadOf(b), pt |-> PtOf(e)]
      BY <2>2, Zenon DEF Opened
    <2>6. /\ Len(opened.aad) = b /\ Len(wire.aad) = a
          /\ opened.pt = PtOf(e) /\ Len(opened.pt) = e
      BY <2>3, <2>4, <2>5, Emptiness
    <2>7. Len(wire.ct) = d
      <3>1. PICK s : s = wire.ct
        OBVIOUS
      <3>2. d \in Nat /\ s = CtPiece(aead, iv, a, 0, d)
        BY <3>1, <2>3, <2>4, Zenon
      <3>3. s = [i \in 1..d |-> s[i]]
        BY <3>2, Zenon DEF CtPiece
      <3>4. Len(s) = d
        BY <3>2, <3>3, FunLength, Zenon
      <3>. QED BY <3>1, <3>4, Zenon
    <2>8. b = a /\ e = d
      BY <2>6, <2>7 DEF DecFinal
    <2>9. PICK begun : begun = (stage = "open")
      OBVIOUS
    <2>10. OnCourse(aead, cryptor, iv, a, d, begun, TRUE)
      BY <2>2, <2>8, <2>9, Zenon DEF Opened
    <2>11. aead # "ascon" /\ a # 0 => begun
      <3>1. wire.aad = <<>> <=> a = 0
        BY <2>3, <2>4, Emptiness
      <3>. QED BY <1>1, <2>1, <2>9, <3>1 DEF Started, Types, Algorithm, DecFinal
    <2>12. cryptor = CtxOf(aead, iv, a, d, TRUE)
      BY <1>1, <2>10, <2>11, Given, LastCourse DEF Types
    <2>13. Tag(cryptor) = TagOf(aead, cryptor)
      BY Zenon DEF Tag, TagOf
    <2>14. Tag(cryptor) = wire.tag
      BY <2>3, <2>12, <2>13, Zenon
    <2>. QED BY <2>6, <2>8, <2>14 DEF DecFinal
  <1>7. DonePart(d)'
    BY <1>6 DEF DonePart, DecFinal
  <1>. QED BY <1>2, <1>3, <1>4, <1>5, <1>7, Zenon DEF AeadInv, Course

\* The invariant is inductive.
LEMMA AeadNextInv == AeadInv /\ [AeadNext]_aeadVars => AeadInv'
  <1>. SUFFICES ASSUME AeadInv, [AeadNext]_aeadVars PROVE AeadInv'
    OBVIOUS
  <1>1. CASE StartAgain
    BY <1>1, StartAgainInv
  <1>2. CASE EncFinal
    BY <1>2, EncFinalInv
  <1>3. CASE StartOpening
    BY <1>3, StartOpeningInv
  <1>4. CASE DecFinal
    BY <1>4, DecFinalInv
  <1>5. ASSUME NEW n \in Chunks, EncInit(n) \/ EncUpdates(n) \/ DecInit(n) \/ DecUpdates(n)
        PROVE  AeadInv'
    BY <1>5, EncInitInv, EncUpdatesInv, DecInitInv, DecUpdatesInv, Zenon
  <1>6. ASSUME NEW other \in Arrivals, Tamper(other) PROVE AeadInv'
    BY <1>6, TamperInv, Zenon
  <1>7. CASE UNCHANGED aeadVars
    <2>1. PICK a, d : Types /\ Course(a, d)
      BY Zenon DEF AeadInv
    <2>2. Types' /\ Message(a, d)'
      BY <1>7, <2>1 DEF aeadVars, Types, Course, Message
    <2>3. SealPart(a, d)' /\ CtPart(a, d)' /\ WirePart(a, d)' /\ DonePart(d)'
      BY <1>7, <2>1 DEF aeadVars, Course, SealPart, CtPart, WirePart, DonePart
    <2>4. OpenPart(a, d)'
      <3>1. \A b, e : Opened(a, d, b, e)' <=> Opened(a, d, b, e)
        BY <1>7 DEF aeadVars, Opened
      <3>. QED BY <1>7, <2>1, <3>1 DEF aeadVars, Course, OpenPart
    <2>. QED BY <2>2, <2>3, <2>4, Zenon DEF AeadInv, Course
  <1>. QED BY <1>1, <1>2, <1>3, <1>4, <1>5, <1>6, <1>7, Zenon DEF AeadNext

\* The contexts of GCM, ChaCha20-Poly1305 and Ascon are at every call where
\* the bytes given so far put them, however they were cut.
THEOREM AeadInvHolds == AeadSpec => []AeadInv
  BY AeadInitInv, AeadNextInv, PTL DEF AeadSpec

-----------------------------------------------------------------------------
(* What follows.                                                           *)

\* What was sealed opens to the same message, whatever the pieces on either
\* side, and even if the context was used before and given up half way:
\* gcm_enc_update and gcm_dec_update, cc20_crypt with the padding of
\* lc_chacha20_poly1305_aad_pad, lc_ascon_enc_update and lc_ascon_dec_update.
THEOREM SealedMessagesOpen == AeadSpec => []OpensWhatWasSealed
  <1>1. AeadInv => OpensWhatWasSealed
    <2>. SUFFICES ASSUME AeadInv, verdict # "none", regular, ~tampered, ~refused
                  PROVE  verdict = "ok" /\ opened.pt = sealed.pt
      BY DEF OpensWhatWasSealed
    <2>1. PICK a, d : Course(a, d)
      BY Zenon DEF AeadInv
    <2>2. stage = "done"
      BY <2>1 DEF Course, OpenPart
    <2>3. verdict = "ok" /\ opened.pt = PtOf(d)
      BY <2>1, <2>2 DEF Course, DonePart
    <2>4. sealed.pt = PtOf(d)
      BY <2>1 DEF Course, Message
    <2>. QED BY <2>3, <2>4
  <1>. QED BY <1>1, AeadInvHolds, PTL

\* No byte of key stream of GCM or ChaCha20 encrypts two bytes of a message,
\* and none of the block that protects the tag encrypts any: the length that
\* gcm_enc_update accepts ends before the counter comes round to the block of
\* gcm_setiv, and the data of ChaCha20-Poly1305 begins with block 1.
THEOREM KeyStreamIsUsedOnce == AeadSpec => []KeyStreamOnce
  <1>1. AeadInv => KeyStreamOnce
    <2>. SUFFICES ASSUME AeadInv, aead # "ascon", ~refused, ~tampered
                  PROVE  \A i, j \in 1..Len(wire.ct) :
                           /\ wire.ct[i].past # TagBlock
                           /\ i # j => \/ wire.ct[i].past # wire.ct[j].past
                                       \/ wire.ct[i].at # wire.ct[j].at
      BY DEF KeyStreamOnce
    <2>1. PICK a, d : Types /\ Course(a, d)
      BY Zenon DEF AeadInv
    <2>2. InRange(aead, d) /\ wire.ct = CtPiece(aead, iv, a, 0, d) /\ d \in Nat
      BY <2>1, Given DEF Course, CtPart, Message, Bounds
    <2>3. Len(wire.ct) = d
      <3>1. PICK s : s = wire.ct
        OBVIOUS
      <3>2. d \in Nat /\ s = CtPiece(aead, iv, a, 0, d)
        BY <3>1, <2>2, Zenon
      <3>3. s = [i \in 1..d |-> s[i]]
        BY <3>2, Zenon DEF CtPiece
      <3>4. Len(s) = d
        BY <3>2, <3>3, FunLength, Zenon
      <3>. QED BY <3>1, <3>4, Zenon
    <2>. SUFFICES ASSUME NEW i \in 1..d, NEW j \in 1..d
                  PROVE  /\ wire.ct[i].past # TagBlock
                         /\ i # j => \/ wire.ct[i].past # wire.ct[j].past
                                     \/ wire.ct[i].at # wire.ct[j].at
      BY <2>3
    <2>4. wire.ct[i] = CtByte(aead, iv, a, i) /\ wire.ct[j] = CtByte(aead, iv, a, j)
      <3>1. 0 + i = i /\ 0 + j = j
        OBVIOUS
      <3>. QED BY <2>2, <3>1, Zenon DEF CtPiece
    <2>5. CASE aead = "gcm"
      <3>1. ~ TooLong(d)
        BY <2>2, <2>5 DEF InRange
      <3>2. wire.ct[i] = GcmByte(iv, i) /\ wire.ct[j] = GcmByte(iv, j)
        BY <2>4, <2>5 DEF CtByte
      <3>3. TagBlock = iv
        BY <2>5 DEF TagBlock
      <3>4. /\ GcmByte(iv, i).past # iv
            /\ i # j => \/ GcmByte(iv, i).past # GcmByte(iv, j).past
                        \/ GcmByte(iv, i).at # GcmByte(iv, j).at
        BY <2>1, <2>2, <3>1, Given, GcmStreamOnce DEF Types
      <3>. QED BY <3>2, <3>3, <3>4, Zenon
    <2>6. CASE aead = "chacha"
      <3>1. wire.ct[i] = ChaByte(iv, i) /\ wire.ct[j] = ChaByte(iv, j)
        BY <2>4, <2>6 DEF CtByte
      <3>2. TagBlock = <<iv, 0>>
        BY <2>6 DEF TagBlock
      <3>3. /\ ChaByte(iv, i).past # <<iv, 0>>
            /\ i # j => \/ ChaByte(iv, i).past # ChaByte(iv, j).past
                        \/ ChaByte(iv, i).at # ChaByte(iv, j).at
        BY <2>2, Given, ChaStreamOnce
      <3>. QED BY <3>1, <3>2, <3>3, Zenon
    <2>. QED BY <2>1, <2>5, <2>6 DEF Types, Algorithm
  <1>. QED BY <1>1, AeadInvHolds, PTL

-----------------------------------------------------------------------------
(* What is mixed into a state.                                             *)

\* The symbols that were XORed into a sponge state and not taken out again.
Symbols(s) ==
  {e[2] : e \in s.cur} \union UNION {{e[2] : e \in s.past[k]} : k \in 1..Len(s.past)}

\* A state: the earlier values of the permutation and what was mixed in since.
IsSponge(s) == \E T, q, u : q \in Seq(T) /\ s = [past |-> q, cur |-> u]

\* From S to T the symbols X were mixed in: each of them is in one of the two.
Mixes(S, T, X) == T \subseteq S \union X /\ S \subseteq T \union X /\ X \subseteq S \union T

\* The bytes of a list.
Elements(in) == {in[i] : i \in 1..Len(in)}

\* The XOR of a state and a piece.
LEMMA XorMixes ==
  ASSUME NEW s, IsSponge(s), NEW at, NEW in
  PROVE  IsSponge(Xor(s, at, in)) /\ Mixes(Symbols(s), Symbols(Xor(s, at, in)), Elements(in))
  <1>1. PICK T, q, u : q \in Seq(T) /\ s = [past |-> q, cur |-> u]
    BY Zenon DEF IsSponge
  <1>2. PICK new : new = {<<at + i - 1, in[i]>> : i \in 1..Len(in)}
    OBVIOUS
  <1>3. PICK w : w = (u \ new) \union (new \ u)
    OBVIOUS
  <1>4. Xor(s, at, in) = [past |-> q, cur |-> w]
    <2>1. Xor(s, at, in) = [s EXCEPT !.cur = (@ \ new) \union (new \ @)]
      BY <1>2, Zenon DEF Xor
    <2>. QED BY <1>1, <1>3, <2>1
  <1>5. PICK P : P = UNION {{e[2] : e \in q[k]} : k \in 1..Len(q)}
    OBVIOUS
  <1>6. Symbols(s) = {e[2] : e \in u} \union P
    <2>1. s.cur = u /\ s.past = q
      BY <1>1
    <2>. QED BY <1>5, <2>1, Zenon DEF Symbols
  <1>7. Symbols(Xor(s, at, in)) = {e[2] : e \in w} \union P
    <2>1. PICK t : t = Xor(s, at, in)
      OBVIOUS
    <2>2. t.cur = w /\ t.past = q
      BY <1>4, <2>1
    <2>. QED BY <1>5, <2>1, <2>2, Zenon DEF Symbols
  <1>8. {e[2] : e \in new} = Elements(in)
    <2>1. \A x, y : <<x, y>>[2] = y
      OBVIOUS
    <2>2. ASSUME NEW x \in Elements(in) PROVE x \in {e[2] : e \in new}
      <3>1. PICK i \in 1..Len(in) : x = in[i]
        BY Zenon DEF Elements
      <3>. QED BY <1>2, <2>1, <3>1, Zenon
    <2>3. ASSUME NEW e \in new PROVE e[2] \in Elements(in)
      <3>1. PICK i \in 1..Len(in) : e = <<at + i - 1, in[i]>>
        BY <1>2, Zenon
      <3>. QED BY <2>1, <3>1, Zenon DEF Elements
    <2>. QED BY <2>2, <2>3, Zenon
  <1>9. Mixes({e[2] : e \in u} \union P, {e[2] : e \in w} \union P, {e[2] : e \in new})
    BY <1>3, Zenon DEF Mixes
  <1>. QED BY <1>1, <1>4, <1>6, <1>7, <1>8, <1>9, Zenon DEF IsSponge

\* The permutation keeps what was mixed in.
LEMMA PermuteKeeps ==
  ASSUME NEW s, IsSponge(s)
  PROVE  IsSponge(Permute(s)) /\ Symbols(Permute(s)) = Symbols(s)
  <1>1. PICK T, q, u : q \in Seq(T) /\ s = [past |-> q, cur |-> u]
    BY Zenon DEF IsSponge
  <1>2. PICK h : h = Append(q, u)
    OBVIOUS
  <1>3. Permute(s) = [past |-> h, cur |-> {}]
    BY <1>1, <1>2, Zenon DEF Permute
  <1>4. /\ h \in Seq(T \union {u}) /\ Len(h) = Len(q) + 1 /\ Len(q) \in Nat
        /\ h[Len(q) + 1] = u /\ \A k \in 1..Len(q) : h[k] = q[k]
    BY <1>1, <1>2
  <1>5. PICK n \in Nat : n = Len(q)
    BY <1>4
  <1>6. UNION {{e[2] : e \in h[k]} : k \in 1..(n + 1)}
          = {e[2] : e \in u} \union UNION {{e[2] : e \in q[k]} : k \in 1..n}
    <2>1. \A k \in 1..(n + 1) : k = n + 1 \/ k \in 1..n
      OBVIOUS
    <2>2. n + 1 \in 1..(n + 1) /\ \A k \in 1..n : k \in 1..(n + 1)
      OBVIOUS
    <2>3. h[n + 1] = u /\ \A k \in 1..n : h[k] = q[k]
      BY <1>4, <1>5
    <2>. QED BY <2>1, <2>2, <2>3, Zenon
  <1>7. PICK t : t = Permute(s)
    OBVIOUS
  <1>8. t.past = h /\ t.cur = {} /\ s.past = q /\ s.cur = u
    BY <1>1, <1>3, <1>7
  <1>9. Symbols(t) = {e[2] : e \in {}} \union UNION {{e[2] : e \in h[k]} : k \in 1..(n + 1)}
    BY <1>4, <1>5, <1>8, Zenon DEF Symbols
  <1>10. Symbols(s) = {e[2] : e \in u} \union UNION {{e[2] : e \in q[k]} : k \in 1..n}
    BY <1>5, <1>8, Zenon DEF Symbols
  <1>11. IsSponge(t)
    BY <1>3, <1>4, <1>7, Zenon DEF IsSponge
  <1>12. {e[2] : e \in {}} = {}
    OBVIOUS
  <1>. QED BY <1>6, <1>7, <1>9, <1>10, <1>11, <1>12, Zenon

\* Nothing is mixed into an empty state.
LEMMA EmptyHolds == IsSponge(EmptyState) /\ Symbols(EmptyState) = {}
  <1>1. <<>> \in Seq({}) /\ Len(<<>>) = 0
    OBVIOUS
  <1>2. EmptyState = [past |-> <<>>, cur |-> {}]
    BY DEF EmptyState
  <1>3. EmptyState.past = <<>> /\ EmptyState.cur = {}
    BY <1>2
  <1>4. 1..Len(<<>>) = {}
    BY <1>1
  <1>5. Symbols(EmptyState) = {}
    <2>1. {e[2] : e \in {}} = {} /\ UNION {{e[2] : e \in <<>>[k]} : k \in {}} = {}
      OBVIOUS
    <2>. QED BY <1>3, <1>4, <2>1, Zenon DEF Symbols
  <1>. QED BY <1>1, <1>2, <1>5, Zenon DEF IsSponge

-----------------------------------------------------------------------------
(* Marks: symbols that tell one state from another.                        *)

\* One of the symbols M is in S.
Has(S, M) == \E x \in M : x \in S

\* From S to T the symbols g[1], ..., g[n] were mixed in one by one.
MixedBy(S, T, g, n) ==
  /\ n \in Nat
  /\ \E f : /\ f[0] = S /\ f[n] = T
            /\ \A i \in 1..n : Mixes(f[i - 1], f[i], {g[i]})

\* None of X is among M.
Avoids(X, M) == \A x \in X : x \notin M

\* A mark is kept while other symbols are mixed in.
LEMMA MarkKept ==
  ASSUME NEW S, NEW T, NEW X, Mixes(S, T, X), NEW M, Avoids(X, M)
  PROVE  Has(S, M) <=> Has(T, M)
  BY Zenon DEF Mixes, Has, Avoids

\* It appears when one of them is a mark and none was there.
LEMMA MarkAppears ==
  ASSUME NEW S, NEW T, NEW X, Mixes(S, T, X), NEW M, ~ Has(S, M), NEW x \in X, x \in M
  PROVE  Has(T, M)
  BY Zenon DEF Mixes, Has

\* The same one by one.
LEMMA MarksKept ==
  ASSUME NEW S, NEW T, NEW g, NEW n, MixedBy(S, T, g, n), NEW M,
         \A i \in 1..n : g[i] \notin M
  PROVE  Has(S, M) <=> Has(T, M)
  <1>1. PICK f : /\ n \in Nat /\ f[0] = S /\ f[n] = T
                 /\ \A i \in 1..n : Mixes(f[i - 1], f[i], {g[i]})
    BY Zenon DEF MixedBy
  <1>. DEFINE K == {k \in Nat : k <= n => (Has(S, M) <=> Has(f[k], M))}
  <1>2. 0 \in K
    BY <1>1
  <1>3. ASSUME NEW k \in Nat, k \in K PROVE k + 1 \in K
    <2>. SUFFICES ASSUME k + 1 <= n PROVE Has(S, M) <=> Has(f[k + 1], M)
      OBVIOUS
    <2>1. PICK m \in 1..n : m = k + 1 /\ m - 1 = k /\ k <= n
      BY <1>1
    <2>2. Mixes(f[k], f[m], {g[m]})
      <3>1. Mixes(f[m - 1], f[m], {g[m]})
        BY <1>1, Zenon
      <3>. QED BY <2>1, <3>1
    <2>3. Has(f[k], M) <=> Has(f[m], M)
      <3>1. Avoids({g[m]}, M)
        BY Zenon DEF Avoids
      <3>. QED BY <2>2, <3>1, MarkKept, Zenon
    <2>. QED BY <1>3, <2>1, <2>3
  <1>. HIDE DEF K
  <1>4. n \in K
    BY <1>1, <1>2, <1>3, SetInduction
  <1>. QED BY <1>1, <1>4 DEF K

\* A mark among them stays to the end.
LEMMA MarksAppear ==
  ASSUME NEW S, NEW T, NEW g, NEW n, MixedBy(S, T, g, n), NEW M, ~ Has(S, M),
         NEW j \in 1..n, g[j] \in M, \A i \in 1..n : i # j => g[i] \notin M
  PROVE  Has(T, M)
  <1>1. PICK f : /\ n \in Nat /\ f[0] = S /\ f[n] = T
                 /\ \A i \in 1..n : Mixes(f[i - 1], f[i], {g[i]})
    BY Zenon DEF MixedBy
  <1>. DEFINE K == {k \in Nat : k <= n => (Has(f[k], M) <=> k >= j)}
  <1>2. 0 \in K
    BY <1>1
  <1>3. ASSUME NEW k \in Nat, k \in K PROVE k + 1 \in K
    <2>. SUFFICES ASSUME k + 1 <= n PROVE Has(f[k + 1], M) <=> k + 1 >= j
      OBVIOUS
    <2>1. PICK m \in 1..n : m = k + 1 /\ m - 1 = k /\ k <= n
      BY <1>1
    <2>2. Mixes(f[k], f[m], {g[m]})
      <3>1. Mixes(f[m - 1], f[m], {g[m]})
        BY <1>1, Zenon
      <3>. QED BY <2>1, <3>1
    <2>3. Has(f[k], M) <=> k >= j
      BY <1>3, <2>1
    <2>4. CASE k + 1 = j
      <3>1. ~ Has(f[k], M)
        BY <2>3, <2>4
      <3>2. g[m] \in {g[m]} /\ g[m] \in M
        BY <2>1, <2>4
      <3>3. Has(f[m], M)
        BY <2>2, <3>1, <3>2, MarkAppears, Zenon
      <3>. QED BY <2>1, <2>4, <3>3
    <2>5. CASE k + 1 # j
      <3>1. Avoids({g[m]}, M)
        <4>1. m # j
          BY <2>1, <2>5
        <4>. QED BY <4>1, Zenon DEF Avoids
      <3>2. Has(f[k], M) <=> Has(f[m], M)
        BY <2>2, <3>1, MarkKept, Zenon
      <3>. QED BY <2>1, <2>3, <2>5, <3>2
    <2>. QED BY <2>4, <2>5
  <1>. HIDE DEF K
  <1>4. n \in K
    BY <1>1, <1>2, <1>3, SetInduction
  <1>. QED BY <1>1, <1>4 DEF K

-----------------------------------------------------------------------------
(* Loops, once more.                                                       *)

\* All calls yield a context and a byte.
LEMMA MoreCalls ==
  /\ IsCall("gcm-open") /\ IsCall("ascon-open")
  /\ IsCall("cha-seal") /\ IsCall("cha-open")
  <1>1. ASSUME NEW r, NEW x, NEW y, r = [ctx |-> x, out |-> y]
        PROVE  r = [ctx |-> r.ctx, out |-> r.out]
    BY <1>1
  <1>2. ASSUME NEW c, NEW b
        PROVE  /\ Turn("gcm-open", c, b) = GcmOpenByte(c, b)
               /\ Turn("ascon-open", c, b) = AsconOpenByte(c, b)
               /\ Turn("cha-seal", c, b) = ChaSealByte(c, b)
               /\ Turn("cha-open", c, b) = ChaOpenByte(c, b)
    BY DEF Turn
  <1>3. IsCall("gcm-open")
    <2>1. ASSUME NEW c, NEW b
          PROVE  Turn("gcm-open", c, b) = [ctx |-> Turn("gcm-open", c, b).ctx,
                                           out |-> Turn("gcm-open", c, b).out]
      <3>1. PICK x, y : GcmOpenByte(c, b) = [ctx |-> x, out |-> y]
        BY Zenon DEF GcmOpenByte
      <3>2. Turn("gcm-open", c, b) = [ctx |-> x, out |-> y]
        BY <1>2, <3>1, Zenon
      <3>. QED BY <1>1, <3>2, Zenon
    <2>. QED BY <2>1, Zenon DEF IsCall
  <1>4. IsCall("ascon-open")
    <2>1. ASSUME NEW c, NEW b
          PROVE  Turn("ascon-open", c, b) = [ctx |-> Turn("ascon-open", c, b).ctx,
                                             out |-> Turn("ascon-open", c, b).out]
      <3>1. PICK x, y : AsconOpenByte(c, b) = [ctx |-> x, out |-> y]
        BY Zenon DEF AsconOpenByte
      <3>2. Turn("ascon-open", c, b) = [ctx |-> x, out |-> y]
        BY <1>2, <3>1, Zenon
      <3>. QED BY <1>1, <3>2, Zenon
    <2>. QED BY <2>1, Zenon DEF IsCall
  <1>5. IsCall("cha-seal")
    <2>1. ASSUME NEW c, NEW b
          PROVE  Turn("cha-seal", c, b) = [ctx |-> Turn("cha-seal", c, b).ctx,
                                           out |-> Turn("cha-seal", c, b).out]
      <3>1. PICK x, y : ChaSealByte(c, b) = [ctx |-> x, out |-> y]
        BY Zenon DEF ChaSealByte
      <3>2. Turn("cha-seal", c, b) = [ctx |-> x, out |-> y]
        BY <1>2, <3>1, Zenon
      <3>. QED BY <1>1, <3>2, Zenon
    <2>. QED BY <2>1, Zenon DEF IsCall
  <1>6. IsCall("cha-open")
    <2>1. ASSUME NEW c, NEW b
          PROVE  Turn("cha-open", c, b) = [ctx |-> Turn("cha-open", c, b).ctx,
                                           out |-> Turn("cha-open", c, b).out]
      <3>1. PICK x, y : ChaOpenByte(c, b) = [ctx |-> x, out |-> y]
        BY Zenon DEF ChaOpenByte
      <3>2. Turn("cha-open", c, b) = [ctx |-> x, out |-> y]
        BY <1>2, <3>1, Zenon
      <3>. QED BY <1>1, <3>2, Zenon
    <2>. QED BY <2>1, Zenon DEF IsCall
  <1>. QED BY <1>3, <1>4, <1>5, <1>6

\* Every loop runs.
LEMMA LoopRuns ==
  ASSUME NEW call, IsCall(call), NEW c, NEW in, Len(in) \in Nat
  PROVE  \E C, O : Runs(call, c, in, C, O)
  <1>1. PICK n \in Nat : n = Len(in)
    OBVIOUS
  <1>2. IsPiece(in, in, 0, n)
    <2>1. 0 + n <= n
      OBVIOUS
    <2>2. \A i \in 1..n : in[i] = in[0 + i]
      <3>1. \A i \in 1..n : i = 0 + i
        OBVIOUS
      <3>. QED BY <3>1, Zenon
    <2>. QED BY <1>1, <2>1, <2>2 DEF IsPiece
  <1>3. \E C, O : Runs(call, CtxAt(call, c, in, 0), in, C, O)
    BY <1>2, PieceRuns, Zenon
  <1>4. CtxAt(call, c, in, 0) = c
    BY LoopTurns, Zenon DEF Turns
  <1>. QED BY <1>3, <1>4, Zenon

-----------------------------------------------------------------------------
(* What is mixed into the hash of GCM.                                     *)

\* A context of GCM after a bytes of additional data and e bytes of data.
GcmShape(c, a, e) ==
  \E s, y, v, r :
    /\ IsSponge(s)
    /\ c = [buf |-> s, y |-> y, base |-> v, aad_len |-> a, len |-> e,
            rem_aad_inserted |-> r]

\* One byte is hashed.
LEMMA HashMixes ==
  ASSUME NEW c, IsSponge(c.buf), NEW at, NEW b
  PROVE  /\ IsSponge(GcmHashed(c, at, b))
         /\ Mixes(Symbols(c.buf), Symbols(GcmHashed(c, at, b)), {b})
  <1>1. PICK t : t = Xor(c.buf, at, <<b>>)
    OBVIOUS
  <1>2. Elements(<<b>>) = {b}
    BY DEF Elements
  <1>3. IsSponge(t) /\ Mixes(Symbols(c.buf), Symbols(t), {b})
    <2>1. \A in : /\ IsSponge(Xor(c.buf, at, in))
                  /\ Mixes(Symbols(c.buf), Symbols(Xor(c.buf, at, in)), Elements(in))
      BY XorMixes, Zenon
    <2>. QED BY <1>1, <1>2, <2>1, Zenon
  <1>4. IsSponge(Permute(t)) /\ Symbols(Permute(t)) = Symbols(t)
    BY <1>3, PermuteKeeps, Zenon
  <1>5. GcmHashed(c, at, b) = IF at + 1 = R THEN Permute(t) ELSE t
    BY <1>1, Zenon DEF GcmHashed
  <1>. QED BY <1>3, <1>4, <1>5, Zenon

\* What a turn of a loop of GCM hashes, and the lengths behind i turns.
GcmAdds(call, b, o) ==
  CASE call = "gcm-aad"  -> b
    [] call = "gcm-seal" -> Authentic(o)
    [] call = "gcm-open" -> Authentic(b)
GcmLens(call, c, a, e, i) ==
  IF call = "gcm-aad" THEN GcmShape(c, a + i, e) ELSE GcmShape(c, a, e + i)

\* What it puts out.
GcmSealed(call, o, b) == call = "gcm-seal" => \E p, k : o = Cover(p, k, b)

\* A turn.
LEMMA GcmTurnMixes ==
  ASSUME NEW call \in {"gcm-aad", "gcm-seal", "gcm-open"}, NEW c, NEW a, NEW e,
         GcmShape(c, a, e), NEW b, NEW t, t = Turn(call, c, b)
  PROVE  /\ GcmLens(call, t.ctx, a, e, 1)
         /\ Mixes(Symbols(c.buf), Symbols(t.ctx.buf), {GcmAdds(call, b, t.out)})
         /\ GcmSealed(call, t.out, b)
  <1>1. PICK s, y, v, r :
          /\ IsSponge(s)
          /\ c = [buf |-> s, y |-> y, base |-> v, aad_len |-> a, len |-> e,
                  rem_aad_inserted |-> r]
    BY Zenon DEF GcmShape
  <1>2. IsSponge(c.buf)
    BY <1>1
  <1>3. CASE call = "gcm-aad"
    <2>1. PICK h : h = GcmHashed(c, c.aad_len % R, b)
      OBVIOUS
    <2>2. IsSponge(h) /\ Mixes(Symbols(c.buf), Symbols(h), {b})
      BY <1>2, <2>1, HashMixes, Zenon
    <2>3. PICK f : f = [c EXCEPT !.buf = h, !.aad_len = @ + 1]
      OBVIOUS
    <2>4. t = [ctx |-> f, out |-> b]
      BY <1>3, <2>1, <2>3, Zenon DEF Turn, GcmAadByte
    <2>5. f = [buf |-> h, y |-> y, base |-> v, aad_len |-> a + 1, len |-> e,
               rem_aad_inserted |-> r]
      BY <1>1, <2>3
    <2>6. GcmShape(f, a + 1, e)
      BY <2>2, <2>5, Zenon DEF GcmShape
    <2>7. t.ctx = f /\ f.buf = h
      BY <2>4, <2>5
    <2>. QED BY <1>3, <2>2, <2>6, <2>7 DEF GcmLens, GcmAdds, GcmSealed
  <1>4. PICK d : d = GcmCounted(c)
    OBVIOUS
  <1>5. PICK z : d = [buf |-> s, y |-> z, base |-> v, aad_len |-> a, len |-> e,
                      rem_aad_inserted |-> r]
    <2>1. CASE c.len % R = 0
      <3>1. d = [c EXCEPT !.y = [c.y EXCEPT ![2] = (@ + 1) % CtrMod]]
        <4>1. d = [c EXCEPT !.y[2] = (@ + 1) % CtrMod]
          BY <1>4, <2>1, Zenon DEF GcmCounted
        <4>. QED BY <4>1
      <3>2. PICK z : z = [c.y EXCEPT ![2] = (@ + 1) % CtrMod]
        OBVIOUS
      <3>3. d = [c EXCEPT !.y = z]
        BY <3>1, <3>2, Zenon
      <3>. QED BY <1>1, <3>3
    <2>2. CASE c.len % R # 0
      BY <1>1, <1>4, <2>2 DEF GcmCounted
    <2>. QED BY <2>1, <2>2, Zenon
  <1>6. d.buf = s /\ c.buf = s /\ IsSponge(d.buf)
    BY <1>1, <1>5
  <1>7. ASSUME NEW h, IsSponge(h), NEW f, f = [d EXCEPT !.buf = h, !.len = @ + 1]
        PROVE  GcmShape(f, a, e + 1) /\ f.buf = h
    <2>1. f = [buf |-> h, y |-> z, base |-> v, aad_len |-> a, len |-> e + 1,
               rem_aad_inserted |-> r]
      BY <1>5, <1>7
    <2>2. f.buf = h
      BY <2>1
    <2>3. IsSponge(h)
      BY <1>7
    <2>. QED BY <2>1, <2>2, <2>3, Zenon DEF GcmShape
  <1>8. CASE call = "gcm-seal"
    <2>1. PICK o : o = Cover(d.y, c.len % R, b)
      OBVIOUS
    <2>2. PICK h : h = GcmHashed(d, c.len % R, Authentic(o))
      OBVIOUS
    <2>3. IsSponge(h) /\ Mixes(Symbols(d.buf), Symbols(h), {Authentic(o)})
      BY <1>6, <2>2, HashMixes, Zenon
    <2>4. PICK f : f = [d EXCEPT !.buf = h, !.len = @ + 1]
      OBVIOUS
    <2>5. t = [ctx |-> f, out |-> o]
      <3>1. GcmSealByte(c, b) = [ctx |-> f, out |-> o]
        BY <1>4, <2>1, <2>2, <2>4, Zenon DEF GcmSealByte
      <3>. QED BY <1>8, <3>1 DEF Turn
    <2>6. GcmShape(f, a, e + 1) /\ f.buf = h
      BY <1>7, <2>3, <2>4, Zenon
    <2>7. t.ctx = f /\ t.out = o
      BY <2>5
    <2>8. GcmLens(call, f, a, e, 1) /\ GcmAdds(call, b, o) = Authentic(o)
      BY <1>8, <2>6 DEF GcmLens, GcmAdds
    <2>9. c.buf = d.buf
      BY <1>6
    <2>. QED BY <2>1, <2>3, <2>6, <2>7, <2>8, <2>9, Zenon DEF GcmSealed
  <1>9. CASE call = "gcm-open"
    <2>1. PICK o : o = Uncover(d.y, c.len % R, b)
      OBVIOUS
    <2>2. PICK h : h = GcmHashed(d, c.len % R, Authentic(b))
      OBVIOUS
    <2>3. IsSponge(h) /\ Mixes(Symbols(d.buf), Symbols(h), {Authentic(b)})
      BY <1>6, <2>2, HashMixes, Zenon
    <2>4. PICK f : f = [d EXCEPT !.buf = h, !.len = @ + 1]
      OBVIOUS
    <2>5. t = [ctx |-> f, out |-> o]
      <3>1. GcmOpenByte(c, b) = [ctx |-> f, out |-> o]
        BY <1>4, <2>1, <2>2, <2>4, Zenon DEF GcmOpenByte
      <3>. QED BY <1>9, <3>1 DEF Turn
    <2>6. GcmShape(f, a, e + 1) /\ f.buf = h
      BY <1>7, <2>3, <2>4, Zenon
    <2>7. t.ctx = f /\ t.out = o
      BY <2>5
    <2>8. GcmLens(call, f, a, e, 1) /\ GcmAdds(call, b, o) = Authentic(b)
      BY <1>9, <2>6 DEF GcmLens, GcmAdds
    <2>9. c.buf = d.buf /\ call # "gcm-seal"
      BY <1>6, <1>9
    <2>. QED BY <2>3, <2>6, <2>7, <2>8, <2>9, Zenon DEF GcmSealed
  <1>. QED BY <1>3, <1>8, <1>9

\* A call.
LEMMA GcmCallMixes ==
  ASSUME NEW call \in {"gcm-aad", "gcm-seal", "gcm-open"}, NEW c, NEW a \in Nat, NEW e \in Nat,
         GcmShape(c, a, e), NEW in, NEW C, NEW O, NEW n, n = Len(in), Runs(call, c, in, C, O)
  PROVE  /\ GcmLens(call, C[n], a, e, n)
         /\ MixedBy(Symbols(c.buf), Symbols(C[n].buf),
                    [i \in 1..n |-> GcmAdds(call, in[i], O[i])], n)
         /\ \A i \in 1..n : GcmSealed(call, O[i], in[i])
  <1>1. /\ n \in Nat /\ C[0] = c
        /\ \A i \in 1..n : Turn(call, C[i - 1], in[i]) = [ctx |-> C[i], out |-> O[i]]
    BY DEF Runs
  <1>2. ASSUME NEW i \in 1..n, NEW x \in Nat, NEW y \in Nat, GcmShape(C[i - 1], x, y)
        PROVE  /\ GcmLens(call, C[i], x, y, 1)
               /\ Mixes(Symbols(C[i - 1].buf), Symbols(C[i].buf), {GcmAdds(call, in[i], O[i])})
               /\ GcmSealed(call, O[i], in[i])
    <2>1. PICK t : t = Turn(call, C[i - 1], in[i])
      OBVIOUS
    <2>2. t.ctx = C[i] /\ t.out = O[i]
      <3>1. t = [ctx |-> C[i], out |-> O[i]]
        BY <1>1, <2>1, Zenon
      <3>. QED BY <3>1
    <2>3. /\ GcmLens(call, t.ctx, x, y, 1)
          /\ Mixes(Symbols(C[i - 1].buf), Symbols(t.ctx.buf), {GcmAdds(call, in[i], t.out)})
          /\ GcmSealed(call, t.out, in[i])
      BY <1>2, <2>1, GcmTurnMixes, Zenon
    <2>. QED BY <2>2, <2>3, Zenon
  <1>. DEFINE K == {k \in Nat : k <= n => GcmLens(call, C[k], a, e, k)}
  <1>3. 0 \in K
    <2>1. a + 0 = a /\ e + 0 = e
      OBVIOUS
    <2>. QED BY <1>1, <2>1 DEF GcmLens
  <1>4. ASSUME NEW k \in Nat, k \in K PROVE k + 1 \in K
    <2>. SUFFICES ASSUME k + 1 <= n PROVE GcmLens(call, C[k + 1], a, e, k + 1)
      OBVIOUS
    <2>1. PICK m \in 1..n : m = k + 1 /\ m - 1 = k
      BY <1>1
    <2>2. GcmLens(call, C[m - 1], a, e, k)
      <3>1. k <= n
        BY <1>1
      <3>. QED BY <1>4, <2>1, <3>1
    <2>3. CASE call = "gcm-aad"
      <3>1. GcmShape(C[m - 1], a + k, e) /\ a + k \in Nat
        BY <2>2, <2>3 DEF GcmLens
      <3>2. GcmLens(call, C[m], a + k, e, 1)
        BY <1>2, <3>1, Zenon
      <3>3. (a + k) + 1 = a + (k + 1)
        OBVIOUS
      <3>. QED BY <2>1, <2>3, <3>2, <3>3 DEF GcmLens
    <2>4. CASE call # "gcm-aad"
      <3>1. GcmShape(C[m - 1], a, e + k) /\ e + k \in Nat
        BY <2>2, <2>4 DEF GcmLens
      <3>2. GcmLens(call, C[m], a, e + k, 1)
        BY <1>2, <3>1, Zenon
      <3>3. (e + k) + 1 = e + (k + 1)
        OBVIOUS
      <3>. QED BY <2>1, <2>4, <3>2, <3>3 DEF GcmLens
    <2>. QED BY <2>3, <2>4
  <1>. HIDE DEF K
  <1>5. \A k \in Nat : k \in K
    BY <1>3, <1>4, SetInduction
  <1>6. ASSUME NEW i \in 1..n
        PROVE  /\ Mixes(Symbols(C[i - 1].buf), Symbols(C[i].buf), {GcmAdds(call, in[i], O[i])})
               /\ GcmSealed(call, O[i], in[i])
    <2>1. i - 1 \in Nat /\ i - 1 <= n
      BY <1>1
    <2>2. GcmLens(call, C[i - 1], a, e, i - 1)
      BY <1>5, <2>1 DEF K
    <2>3. \E x, y \in Nat : GcmShape(C[i - 1], x, y)
      BY <2>1, <2>2 DEF GcmLens
    <2>. QED BY <1>2, <2>3, Zenon
  <1>7. MixedBy(Symbols(c.buf), Symbols(C[n].buf),
                [i \in 1..n |-> GcmAdds(call, in[i], O[i])], n)
    <2>. DEFINE f == [i \in 0..n |-> Symbols(C[i].buf)]
                g == [i \in 1..n |-> GcmAdds(call, in[i], O[i])]
    <2>1. f[0] = Symbols(c.buf) /\ f[n] = Symbols(C[n].buf)
      <3>1. 0 \in 0..n /\ n \in 0..n
        BY <1>1
      <3>. QED BY <1>1, <3>1, Zenon
    <2>2. ASSUME NEW i \in 1..n PROVE Mixes(f[i - 1], f[i], {g[i]})
      <3>1. i \in 0..n /\ i - 1 \in 0..n
        BY <1>1
      <3>2. f[i] = Symbols(C[i].buf) /\ f[i - 1] = Symbols(C[i - 1].buf)
        BY <3>1, Zenon
      <3>. QED BY <1>6, <3>2, Zenon
    <2>. HIDE DEF f, g
    <2>3. MixedBy(Symbols(c.buf), Symbols(C[n].buf), g, n)
      BY <1>1, <2>1, <2>2, Zenon DEF MixedBy
    <2>. QED BY <2>3 DEF g
  <1>8. GcmLens(call, C[n], a, e, n)
    BY <1>1, <1>5 DEF K
  <1>. QED BY <1>6, <1>7, <1>8, Zenon

\* A list of n elements.
IsList(s, n) == n \in Nat /\ s = [i \in 1..n |-> s[i]]

\* Its length, and what a loop puts out.
LEMMA Lists ==
  /\ \A s, n : IsList(s, n) => Len(s) = n
  /\ \A f, n : n \in Nat => IsList(Front(f, n), n)
  <1>1. ASSUME NEW s, NEW n, IsList(s, n) PROVE Len(s) = n
    <2>1. n \in Nat /\ s = [i \in 1..n |-> s[i]]
      BY <1>1, Zenon DEF IsList
    <2>. QED BY <2>1, FunLength, Zenon
  <1>2. ASSUME NEW f, NEW n \in Nat PROVE IsList(Front(f, n), n)
    <2>1. \A i \in 1..n : Front(f, n)[i] = f[i]
      BY Zenon DEF Front
    <2>2. Front(f, n) = [i \in 1..n |-> Front(f, n)[i]]
      BY Zenon DEF Front
    <2>. QED BY <2>2, Zenon DEF IsList
  <1>. QED BY <1>1, <1>2, Zenon

\* The rest of the additional data is hashed as it is.
LEMMA FinishKeeps ==
  ASSUME NEW c, NEW a, NEW e, GcmShape(c, a, e)
  PROVE  /\ GcmShape(GcmFinishAad(c), a, e)
         /\ Symbols(GcmFinishAad(c).buf) = Symbols(c.buf)
  <1>1. PICK s, y, v, r :
          /\ IsSponge(s)
          /\ c = [buf |-> s, y |-> y, base |-> v, aad_len |-> a, len |-> e,
                  rem_aad_inserted |-> r]
    BY Zenon DEF GcmShape
  <1>2. PICK t : t = Permute(s)
    OBVIOUS
  <1>3. IsSponge(t) /\ Symbols(t) = Symbols(s)
    BY <1>1, <1>2, PermuteKeeps, Zenon
  <1>4. c.buf = s
    BY <1>1
  <1>5. PICK d : d = GcmFinishAad(c)
    OBVIOUS
  <1>6. CASE d = c
    BY <1>5, <1>6
  <1>7. CASE d # c
    <2>1. d = [c EXCEPT !.buf = Permute(@), !.rem_aad_inserted = TRUE]
      BY <1>5, <1>7, Zenon DEF GcmFinishAad
    <2>2. d = [buf |-> t, y |-> y, base |-> v, aad_len |-> a, len |-> e,
               rem_aad_inserted |-> TRUE]
      <3>1. [c EXCEPT !.buf = Permute(@), !.rem_aad_inserted = TRUE]
              = [c EXCEPT !.buf = t, !.rem_aad_inserted = TRUE]
        BY <1>1, <1>2
      <3>. QED BY <1>1, <2>1, <3>1
    <2>3. d.buf = t
      BY <2>2
    <2>4. GcmShape(d, a, e)
      BY <1>3, <2>2, Zenon DEF GcmShape
    <2>. QED BY <1>3, <1>4, <1>5, <2>3, <2>4
  <1>. QED BY <1>6, <1>7

\* The symbols of a call.
AddsAll(S, T, in, n) == \E g : MixedBy(S, T, g, n) /\ \A i \in 1..n : g[i] = in[i]
AddsCt(S, T, in, n) == \E g : MixedBy(S, T, g, n) /\ \A i \in 1..n : g[i] = Authentic(in[i])

\* gcm_aad.
LEMMA GcmAadAdds ==
  ASSUME NEW c, NEW a \in Nat, NEW e \in Nat, GcmShape(c, a, e), NEW in, NEW n,
         IsList(in, n), NEW r, r = GcmAad(c, in)
  PROVE  GcmShape(r, a + n, e) /\ AddsAll(Symbols(c.buf), Symbols(r.buf), in, n)
  <1>1. Len(in) = n /\ n \in Nat
    BY Lists, Zenon DEF IsList
  <1>2. PICK C, O : Runs("gcm-aad", c, in, C, O)
    BY <1>1, Calls, LoopRuns, Zenon
  <1>3. r = C[n]
    <2>1. PICK x, y : x = C[n] /\ y = Front(O, n)
      OBVIOUS
    <2>2. Bytewise(GcmAadByte, c, in) = [ctx |-> x, out |-> y]
      BY <1>1, <1>2, <2>1, GcmAadLoop, Zenon
    <2>3. r = Bytewise(GcmAadByte, c, in).ctx
      BY Zenon DEF GcmAad
    <2>. QED BY <2>1, <2>2, <2>3
  <1>4. PICK g : g = [i \in 1..n |-> GcmAdds("gcm-aad", in[i], O[i])]
    OBVIOUS
  <1>5. GcmLens("gcm-aad", C[n], a, e, n) /\ MixedBy(Symbols(c.buf), Symbols(C[n].buf), g, n)
    <2>1. "gcm-aad" \in {"gcm-aad", "gcm-seal", "gcm-open"}
      OBVIOUS
    <2>. QED BY <1>1, <1>2, <1>4, <2>1, GcmCallMixes, ZenonT(40)
  <1>6. GcmShape(r, a + n, e)
    BY <1>3, <1>5 DEF GcmLens
  <1>7. \A i \in 1..n : g[i] = in[i]
    BY <1>4 DEF GcmAdds
  <1>. QED BY <1>3, <1>5, <1>6, <1>7, Zenon DEF AddsAll

\* gcm_dec_update.
LEMMA GcmOpenAdds ==
  ASSUME NEW c, NEW a \in Nat, NEW e \in Nat, GcmShape(c, a, e), NEW in, NEW n,
         IsList(in, n), NEW r, r = GcmOpen(c, in)
  PROVE  /\ GcmShape(r.ctx, a, e + n) /\ IsList(r.out, n)
         /\ AddsCt(Symbols(c.buf), Symbols(r.ctx.buf), in, n)
  <1>1. Len(in) = n /\ n \in Nat
    BY Lists, Zenon DEF IsList
  <1>2. PICK d : d = GcmFinishAad(c)
    OBVIOUS
  <1>3. GcmShape(d, a, e) /\ Symbols(d.buf) = Symbols(c.buf)
    BY <1>2, FinishKeeps, Zenon
  <1>4. PICK C, O : Runs("gcm-open", d, in, C, O)
    BY <1>1, MoreCalls, LoopRuns, Zenon
  <1>5. r.ctx = C[n] /\ r.out = Front(O, n)
    <2>1. PICK x, y : x = C[n] /\ y = Front(O, n)
      OBVIOUS
    <2>2. r = [ctx |-> x, out |-> y]
      BY <1>1, <1>2, <1>4, <2>1, GcmOpenLoop, Zenon DEF GcmOpen
    <2>. QED BY <2>1, <2>2
  <1>6. PICK g : g = [i \in 1..n |-> GcmAdds("gcm-open", in[i], O[i])]
    OBVIOUS
  <1>7. GcmLens("gcm-open", C[n], a, e, n) /\ MixedBy(Symbols(d.buf), Symbols(C[n].buf), g, n)
    <2>1. "gcm-open" \in {"gcm-aad", "gcm-seal", "gcm-open"}
      OBVIOUS
    <2>. QED BY <1>1, <1>3, <1>4, <1>6, <2>1, GcmCallMixes, ZenonT(40)
  <1>8. GcmShape(r.ctx, a, e + n)
    BY <1>5, <1>7 DEF GcmLens
  <1>9. \A i \in 1..n : g[i] = Authentic(in[i])
    BY <1>6 DEF GcmAdds
  <1>10. AddsCt(Symbols(c.buf), Symbols(r.ctx.buf), in, n)
    BY <1>3, <1>5, <1>7, <1>9, Zenon DEF AddsCt
  <1>11. IsList(r.out, n)
    <2>1. IsList(Front(O, n), n)
      BY <1>1, Lists, Zenon
    <2>. QED BY <1>5, <2>1, Zenon
  <1>. QED BY <1>8, <1>10, <1>11, Zenon

\* A byte that sealing p puts out, and what sealing adds: nothing, or these.
SealsByte(b, p) == b = Nought \/ \E q, k : b = Cover(q, k, p)
AddsSealed(S, T, in, n) ==
  \/ S = T
  \/ \E g : /\ MixedBy(S, T, g, n)
            /\ \A i \in 1..n : \E q, k : g[i] = Authentic(Cover(q, k, in[i]))

\* gcm_enc_update, also beyond its limit.
LEMMA GcmSealAdds ==
  ASSUME NEW c, NEW a \in Nat, NEW e \in Nat, GcmShape(c, a, e), NEW in, NEW n,
         IsList(in, n), NEW r, r = GcmSeal(c, in)
  PROVE  /\ GcmShape(r.ctx, a, e + n) /\ IsList(r.out, n)
         /\ AddsSealed(Symbols(c.buf), Symbols(r.ctx.buf), in, n)
         /\ \A i \in 1..n : SealsByte(r.out[i], in[i])
  <1>1. Len(in) = n /\ n \in Nat
    BY Lists, Zenon DEF IsList
  <1>2. PICK d : d = GcmFinishAad(c)
    OBVIOUS
  <1>3. GcmShape(d, a, e) /\ Symbols(d.buf) = Symbols(c.buf)
    BY <1>2, FinishKeeps, Zenon
  <1>4. CASE TooLong(c.len + Len(in))
    <2>1. PICK x, y : x = [d EXCEPT !.len = @ + n] /\ y = [i \in 1..n |-> Nought]
      OBVIOUS
    <2>2. r = [ctx |-> x, out |-> y]
      BY <1>1, <1>2, <1>4, <2>1, Zenon DEF GcmSeal
    <2>3. r.ctx = x /\ r.out = y
      BY <2>2
    <2>4. GcmShape(x, a, e + n) /\ x.buf = d.buf
      <3>1. PICK s, t, v, w :
              /\ IsSponge(s)
              /\ d = [buf |-> s, y |-> t, base |-> v, aad_len |-> a, len |-> e,
                      rem_aad_inserted |-> w]
        BY <1>3, Zenon DEF GcmShape
      <3>2. x = [buf |-> s, y |-> t, base |-> v, aad_len |-> a, len |-> e + n,
                 rem_aad_inserted |-> w]
        BY <2>1, <3>1
      <3>3. x.buf = d.buf
        BY <3>1, <3>2
      <3>. QED BY <3>1, <3>2, <3>3, Zenon DEF GcmShape
    <2>5. IsList(y, n) /\ \A i \in 1..n : y[i] = Nought
      BY <1>1, <2>1 DEF IsList
    <2>6. AddsSealed(Symbols(c.buf), Symbols(x.buf), in, n)
      BY <1>3, <2>4, Zenon DEF AddsSealed
    <2>. QED BY <2>3, <2>4, <2>5, <2>6, Zenon DEF SealsByte
  <1>5. CASE ~ TooLong(c.len + Len(in))
    <2>1. PICK C, O : Runs("gcm-seal", d, in, C, O)
      BY <1>1, Calls, LoopRuns, Zenon
    <2>2. r.ctx = C[n] /\ r.out = Front(O, n)
      <3>1. PICK x, y : x = C[n] /\ y = Front(O, n)
        OBVIOUS
      <3>2. r = Bytewise(GcmSealByte, d, in)
        BY <1>2, <1>5, Zenon DEF GcmSeal
      <3>3. r = [ctx |-> x, out |-> y]
        BY <1>1, <2>1, <3>1, <3>2, GcmSealLoop, Zenon
      <3>. QED BY <3>1, <3>3
    <2>3. PICK g : g = [i \in 1..n |-> GcmAdds("gcm-seal", in[i], O[i])]
      OBVIOUS
    <2>4. /\ GcmLens("gcm-seal", C[n], a, e, n)
          /\ MixedBy(Symbols(d.buf), Symbols(C[n].buf), g, n)
          /\ \A i \in 1..n : GcmSealed("gcm-seal", O[i], in[i])
      <3>1. "gcm-seal" \in {"gcm-aad", "gcm-seal", "gcm-open"}
        OBVIOUS
      <3>. QED BY <1>1, <1>3, <2>1, <2>3, <3>1, GcmCallMixes, ZenonT(40)
    <2>5. GcmShape(r.ctx, a, e + n)
      BY <2>2, <2>4 DEF GcmLens
    <2>6. ASSUME NEW i \in 1..n
          PROVE  \E q, k : O[i] = Cover(q, k, in[i]) /\ g[i] = Authentic(O[i])
      <3>1. g[i] = Authentic(O[i])
        BY <2>3 DEF GcmAdds
      <3>. QED BY <2>4, <3>1, Zenon DEF GcmSealed
    <2>7. AddsSealed(Symbols(c.buf), Symbols(r.ctx.buf), in, n)
      <3>1. \A i \in 1..n : \E q, k : g[i] = Authentic(Cover(q, k, in[i]))
        BY <2>6, Zenon
      <3>. QED BY <1>3, <2>2, <2>4, <3>1, Zenon DEF AddsSealed
    <2>8. \A i \in 1..n : SealsByte(r.out[i], in[i])
      <3>1. \A i \in 1..n : r.out[i] = O[i]
        BY <2>2, Zenon DEF Front
      <3>. QED BY <2>6, <3>1, Zenon DEF SealsByte
    <2>9. IsList(r.out, n)
      <3>1. IsList(Front(O, n), n)
        BY <1>1, Lists, Zenon
      <3>. QED BY <2>2, <3>1, Zenon
    <2>. QED BY <2>5, <2>7, <2>8, <2>9, Zenon
  <1>. QED BY <1>4, <1>5

-----------------------------------------------------------------------------
(* What Poly1305 is given.                                                 *)

\* A list is a sequence.
LEMMA ListIsSeq ==
  ASSUME NEW s, NEW n, IsList(s, n)
  PROVE  n \in Nat /\ s \in Seq(Elements(s)) /\ Len(s) = n
  <1>1. n \in Nat /\ Len(s) = n /\ s = [i \in 1..n |-> s[i]]
    BY Lists, Zenon DEF IsList
  <1>2. \A i \in 1..n : s[i] \in Elements(s)
    BY <1>1, Zenon DEF Elements
  <1>3. PICK T : T = Elements(s)
    OBVIOUS
  <1>4. s \in [1..n -> T]
    BY <1>1, <1>2, <1>3
  <1>5. s \in Seq(T)
    BY <1>1, <1>4, FunIsSeq
  <1>. QED BY <1>1, <1>3, <1>5

\* A sequence is a list.
LEMMA SeqIsList ==
  ASSUME NEW T, NEW s \in Seq(T)
  PROVE  IsList(s, Len(s))
  <1>1. s = [i \in 1..Len(s) |-> s[i]] /\ Len(s) \in Nat
    OBVIOUS
  <1>. QED BY <1>1 DEF IsList

\* The list h is s and behind it t.
Joined(s, n, t, m, h) ==
  /\ \A i \in 1..n : h[i] = s[i]
  /\ \A i \in 1..m : h[n + i] = t[i]

\* Two lists, one behind the other.
LEMMA JoinLists ==
  ASSUME NEW s, NEW n, IsList(s, n), NEW t, NEW m, IsList(t, m)
  PROVE  /\ IsList(s \o t, n + m) /\ Joined(s, n, t, m, s \o t)
         /\ Elements(s \o t) = Elements(s) \union Elements(t)
  <1>1. PICK T : T = Elements(s) \union Elements(t)
    OBVIOUS
  <1>2. n \in Nat /\ s \in Seq(T) /\ Len(s) = n /\ m \in Nat /\ t \in Seq(T) /\ Len(t) = m
    <2>1. /\ n \in Nat /\ s \in Seq(Elements(s)) /\ Len(s) = n
          /\ m \in Nat /\ t \in Seq(Elements(t)) /\ Len(t) = m
      BY ListIsSeq, Zenon
    <2>2. PICK A, B : A = Elements(s) /\ B = Elements(t)
      OBVIOUS
    <2>3. T = A \union B /\ s \in Seq(A) /\ t \in Seq(B)
      BY <1>1, <2>1, <2>2, Zenon
    <2>4. s \in Seq(T) /\ t \in Seq(T)
      BY <2>3
    <2>. QED BY <2>1, <2>4
  <1>3. PICK h : h = s \o t
    OBVIOUS
  <1>4. /\ h \in Seq(T) /\ Len(h) = n + m
        /\ \A i \in 1..n : h[i] = s[i]
        /\ \A i \in 1..m : h[n + i] = t[i]
    <2>1. /\ s \o t \in Seq(T) /\ Len(s \o t) = Len(s) + Len(t)
          /\ \A i \in 1..(Len(s) + Len(t)) :
               (s \o t)[i] = IF i <= Len(s) THEN s[i] ELSE t[i - Len(s)]
      BY <1>2, ConcatProperties
    <2>2. \A i \in 1..(n + m) : h[i] = IF i <= n THEN s[i] ELSE t[i - n]
      BY <1>2, <1>3, <2>1, Zenon
    <2>3. \A i \in 1..n : i \in 1..(n + m) /\ i <= n
      BY <1>2
    <2>4. \A i \in 1..m : n + i \in 1..(n + m) /\ ~ (n + i <= n) /\ (n + i) - n = i
      BY <1>2
    <2>5. h \in Seq(T) /\ Len(h) = n + m
      BY <1>2, <1>3, <2>1, Zenon
    <2>6. \A i \in 1..n : h[i] = s[i]
      BY <2>2, <2>3, Zenon
    <2>7. ASSUME NEW i \in 1..m PROVE h[n + i] = t[i]
      <3>1. PICK j \in 1..(n + m) : j = n + i /\ ~ (j <= n) /\ j - n = i
        BY <2>4
      <3>2. h[j] = t[j - n]
        BY <2>2, <3>1, Zenon
      <3>. QED BY <3>1, <3>2, Zenon
    <2>. QED BY <2>5, <2>6, <2>7, Zenon
  <1>5. IsList(h, n + m)
    BY <1>4, SeqIsList
  <1>6. Elements(h) = Elements(s) \union Elements(t)
    <2>1. ASSUME NEW x \in Elements(h) PROVE x \in Elements(s) \union Elements(t)
      <3>1. PICK i \in 1..(n + m) : x = h[i]
        BY <1>4, Zenon DEF Elements
      <3>2. CASE i \in 1..n
        BY <1>2, <1>4, <3>1, <3>2, Zenon DEF Elements
      <3>3. CASE i \notin 1..n
        <4>1. PICK j \in 1..m : i = n + j
          <5>1. i - n \in 1..m /\ i = n + (i - n)
            BY <1>2, <3>1, <3>3
          <5>. QED BY <5>1
        <4>2. x = t[j]
          BY <1>4, <3>1, <4>1, Zenon
        <4>. QED BY <1>2, <4>2, Zenon DEF Elements
      <3>. QED BY <3>2, <3>3
    <2>2. ASSUME NEW x \in Elements(s) PROVE x \in Elements(h)
      <3>1. PICK i \in 1..n : x = s[i]
        BY <1>2, Zenon DEF Elements
      <3>2. i \in 1..(n + m) /\ x = h[i]
        BY <1>2, <1>4, <3>1
      <3>. QED BY <1>4, <3>2, Zenon DEF Elements
    <2>3. ASSUME NEW x \in Elements(t) PROVE x \in Elements(h)
      <3>1. PICK i \in 1..m : x = t[i]
        BY <1>2, Zenon DEF Elements
      <3>2. n + i \in 1..(n + m) /\ x = h[n + i]
        BY <1>2, <1>4, <3>1
      <3>. QED BY <1>4, <3>2, Zenon DEF Elements
    <2>. QED BY <2>1, <2>2, <2>3, Zenon
  <1>7. Joined(s, n, t, m, h)
    BY <1>4, Zenon DEF Joined
  <1>. QED BY <1>3, <1>5, <1>6, <1>7, Zenon

\* A context of ChaCha20-Poly1305, likewise, that was given p.
ChaForm(c, p, a, e) ==
  \E k, m, o : c = [key |-> k, counter |-> m, keystream_ptr |-> o,
                    poly1305 |-> p, aadlen |-> a, datalen |-> e]
ChaShape(c, a, e) == \E l : IsList(c.poly1305, l) /\ ChaForm(c, c.poly1305, a, e)

\* A turn of cc20_crypt does not touch the MAC.
LEMMA ChaTurnKeeps ==
  ASSUME NEW call \in {"cha-seal", "cha-open"}, NEW c, NEW p, NEW a, NEW e,
         ChaForm(c, p, a, e), NEW b, NEW t, t = Turn(call, c, b)
  PROVE  /\ ChaForm(t.ctx, p, a, e)
         /\ call = "cha-seal" => SealsByte(t.out, b)
  <1>1. PICK k, m, o : c = [key |-> k, counter |-> m, keystream_ptr |-> o,
                            poly1305 |-> p, aadlen |-> a, datalen |-> e]
    BY Zenon DEF ChaForm
  <1>2. PICK d : d = ChaStream(c)
    OBVIOUS
  <1>3. ChaForm(d, p, a, e)
    BY <1>1, <1>2 DEF ChaStream, ChaForm
  <1>4. CASE call = "cha-seal"
    <2>1. PICK x : x = Cover(ChaBlock(d), d.keystream_ptr - 1, b)
      OBVIOUS
    <2>2. t = [ctx |-> d, out |-> x]
      <3>1. ChaSealByte(c, b) = [ctx |-> d, out |-> x]
        BY <1>2, <2>1, Zenon DEF ChaSealByte
      <3>. QED BY <1>4, <3>1 DEF Turn
    <2>3. t.ctx = d /\ t.out = x
      BY <2>2
    <2>. QED BY <1>3, <2>1, <2>3, Zenon DEF SealsByte
  <1>5. CASE call = "cha-open"
    <2>1. PICK x : x = Uncover(ChaBlock(d), d.keystream_ptr - 1, b)
      OBVIOUS
    <2>2. t = [ctx |-> d, out |-> x]
      <3>1. ChaOpenByte(c, b) = [ctx |-> d, out |-> x]
        BY <1>2, <2>1, Zenon DEF ChaOpenByte
      <3>. QED BY <1>5, <3>1 DEF Turn
    <2>3. t.ctx = d /\ call # "cha-seal"
      BY <1>5, <2>2
    <2>. QED BY <1>3, <2>3, Zenon
  <1>. QED BY <1>4, <1>5

\* Nor does a call.
LEMMA ChaCallKeeps ==
  ASSUME NEW call \in {"cha-seal", "cha-open"}, NEW c, NEW p, NEW a, NEW e,
         ChaForm(c, p, a, e), NEW in, NEW C, NEW O, NEW n, n = Len(in),
         Runs(call, c, in, C, O)
  PROVE  /\ ChaForm(C[n], p, a, e)
         /\ call = "cha-seal" => \A i \in 1..n : SealsByte(O[i], in[i])
  <1>1. /\ n \in Nat /\ C[0] = c
        /\ \A i \in 1..n : Turn(call, C[i - 1], in[i]) = [ctx |-> C[i], out |-> O[i]]
    BY DEF Runs
  <1>2. ASSUME NEW i \in 1..n, ChaForm(C[i - 1], p, a, e)
        PROVE  /\ ChaForm(C[i], p, a, e)
               /\ call = "cha-seal" => SealsByte(O[i], in[i])
    <2>1. PICK t : t = Turn(call, C[i - 1], in[i])
      OBVIOUS
    <2>2. t.ctx = C[i] /\ t.out = O[i]
      <3>1. t = [ctx |-> C[i], out |-> O[i]]
        BY <1>1, <2>1, Zenon
      <3>. QED BY <3>1
    <2>3. ChaForm(t.ctx, p, a, e) /\ (call = "cha-seal" => SealsByte(t.out, in[i]))
      BY <1>2, <2>1, ChaTurnKeeps, Zenon
    <2>. QED BY <2>2, <2>3, Zenon
  <1>. DEFINE K == {k \in Nat : k <= n => ChaForm(C[k], p, a, e)}
  <1>3. 0 \in K
    BY <1>1
  <1>4. ASSUME NEW k \in Nat, k \in K PROVE k + 1 \in K
    <2>. SUFFICES ASSUME k + 1 <= n PROVE ChaForm(C[k + 1], p, a, e)
      OBVIOUS
    <2>1. PICK m \in 1..n : m = k + 1 /\ m - 1 = k
      BY <1>1
    <2>2. ChaForm(C[m - 1], p, a, e)
      <3>1. k <= n
        BY <1>1
      <3>. QED BY <1>4, <2>1, <3>1
    <2>. QED BY <1>2, <2>1, <2>2
  <1>. HIDE DEF K
  <1>5. \A k \in Nat : k \in K
    BY <1>3, <1>4, SetInduction
  <1>6. ASSUME NEW i \in 1..n PROVE call = "cha-seal" => SealsByte(O[i], in[i])
    <2>1. i - 1 \in Nat /\ i - 1 <= n
      BY <1>1
    <2>2. ChaForm(C[i - 1], p, a, e)
      BY <1>5, <2>1 DEF K
    <2>. QED BY <1>2, <2>2, Zenon
  <1>7. ChaForm(C[n], p, a, e)
    BY <1>1, <1>5 DEF K
  <1>. QED BY <1>6, <1>7, Zenon

\* Ciphertext as input of the MAC.
Authentics(ct, n) == {Authentic(ct[i]) : i \in 1..n}

\* P becomes Q by what is in X, and zeros.
Grows(P, Q, X) ==
  P \subseteq Q /\ X \subseteq Q /\ Q \subseteq P \union X \union {<<"zero">>}

\* The fields of the context, and d as c with t added.
ChaRec(k, q, o, p, a, e) ==
  [key |-> k, counter |-> q, keystream_ptr |-> o, poly1305 |-> p, aadlen |-> a, datalen |-> e]

ChaJoins(c, d, t, a, e, x, y) ==
  \E k, q, o, p : c = ChaRec(k, q, o, p, a, e) /\ d = ChaRec(k, q, o, p \o t, x, y)

\* The MAC goes on with a list.
LEMMA ChaGoesOn ==
  ASSUME NEW c, NEW a, NEW e, ChaShape(c, a, e), NEW t, NEW m, IsList(t, m),
         NEW x, NEW y, NEW d, ChaJoins(c, d, t, a, e, x, y)
  PROVE  /\ ChaShape(d, x, y)
         /\ Elements(d.poly1305) = Elements(c.poly1305) \union Elements(t)
  <1>1. PICK k, q, o, p : c = ChaRec(k, q, o, p, a, e) /\ d = ChaRec(k, q, o, p \o t, x, y)
    BY Zenon DEF ChaJoins
  <1>2. PICK h : h = p \o t
    OBVIOUS
  <1>3. d = ChaRec(k, q, o, h, x, y)
    BY <1>1, <1>2, Zenon
  <1>4. c.poly1305 = p
    BY <1>1 DEF ChaRec
  <1>5. d.poly1305 = h
    BY <1>3 DEF ChaRec
  <1>6. PICK l : IsList(p, l)
    BY <1>4, Zenon DEF ChaShape
  <1>7. IsList(h, l + m) /\ Elements(h) = Elements(p) \union Elements(t)
    BY <1>2, <1>6, JoinLists, Zenon
  <1>8. ChaForm(d, h, x, y)
    BY <1>3, Zenon DEF ChaForm, ChaRec
  <1>. QED BY <1>4, <1>5, <1>7, <1>8, Zenon DEF ChaShape

\* lc_chacha20_poly1305_aad.
LEMMA ChaAadAdds ==
  ASSUME NEW c, NEW a, NEW e, ChaShape(c, a, e), NEW in, NEW n, IsList(in, n)
  PROVE  /\ ChaShape(ChaAad(c, in), a + n, e)
         /\ Elements(ChaAad(c, in).poly1305) = Elements(c.poly1305) \union Elements(in)
  <1>1. Len(in) = n
    BY Lists, Zenon
  <1>2. PICK k, q, o, p : c = ChaRec(k, q, o, p, a, e)
    BY Zenon DEF ChaShape, ChaForm, ChaRec
  <1>3. PICK d : d = ChaAad(c, in)
    OBVIOUS
  <1>4. PICK h, x : h = p \o in /\ x = a + n
    OBVIOUS
  <1>5. d = [c EXCEPT !.poly1305 = h, !.aadlen = x]
    <2>1. d = [c EXCEPT !.poly1305 = c.poly1305 \o in, !.aadlen = c.aadlen + n]
      BY <1>1, <1>3, Zenon DEF ChaAad
    <2>2. c.poly1305 = p /\ c.aadlen = a
      BY <1>2 DEF ChaRec
    <2>. QED BY <1>4, <2>1, <2>2, Zenon
  <1>6. d = ChaRec(k, q, o, h, x, e)
    <2>1. PICK b : b = [c EXCEPT !.poly1305 = h]
      OBVIOUS
    <2>2. b = ChaRec(k, q, o, h, a, e)
      BY <1>2, <2>1 DEF ChaRec
    <2>3. [b EXCEPT !.aadlen = x] = ChaRec(k, q, o, h, x, e)
      BY <2>2 DEF ChaRec
    <2>. QED BY <1>5, <2>1, <2>3, Zenon
  <1>7. ChaJoins(c, d, in, a, e, x, e)
    BY <1>2, <1>4, <1>6, Zenon DEF ChaJoins
  <1>8. ChaShape(d, x, e) /\ Elements(d.poly1305) = Elements(c.poly1305) \union Elements(in)
    BY <1>7, ChaGoesOn
  <1>. QED BY <1>3, <1>4, <1>8, Zenon

\* lc_chacha20_poly1305_aad_pad.
LEMMA ChaPadAdds ==
  ASSUME Rate, NEW c, NEW a \in Nat, NEW e, ChaShape(c, a, e)
  PROVE  /\ ChaShape(ChaPadAad(c), a, e)
         /\ Grows(Elements(c.poly1305), Elements(ChaPadAad(c).poly1305), {})
  <1>1. PICK d : d = ChaPadAad(c)
    OBVIOUS
  <1>2. CASE d = c
    BY <1>1, <1>2, Zenon DEF Grows
  <1>3. CASE d # c
    <2>1. PICK k, q, o, p : c = ChaRec(k, q, o, p, a, e)
      BY Zenon DEF ChaShape, ChaForm, ChaRec
    <2>2. c.aadlen = a /\ c.poly1305 = p
      BY <2>1 DEF ChaRec
    <2>3. PICK m \in Nat : m = R - (a % R)
      BY DEF Rate
    <2>4. PICK z : z = Zeros(m)
      OBVIOUS
    <2>5. IsList(z, m) /\ \A i \in 1..m : z[i] = <<"zero">>
      BY <2>3, <2>4 DEF IsList, Zeros
    <2>6. PICK h : h = p \o z
      OBVIOUS
    <2>7. d = [c EXCEPT !.poly1305 = h]
      <3>1. d = [c EXCEPT !.poly1305 = c.poly1305 \o Zeros(R - (c.aadlen % R))]
        BY <1>1, <1>3, Zenon DEF ChaPadAad
      <3>. QED BY <2>2, <2>3, <2>4, <2>6, <3>1, Zenon
    <2>8. d = ChaRec(k, q, o, h, a, e)
      BY <2>1, <2>7 DEF ChaRec
    <2>9. ChaJoins(c, d, z, a, e, a, e)
      BY <2>1, <2>6, <2>8, Zenon DEF ChaJoins
    <2>10. ChaShape(d, a, e) /\ Elements(d.poly1305) = Elements(c.poly1305) \union Elements(z)
      BY <2>5, <2>9, ChaGoesOn
    <2>11. \A x \in Elements(z) : x = <<"zero">>
      <3>1. Len(z) = m
        BY <2>5, Lists, Zenon
      <3>. QED BY <2>5, <3>1, Zenon DEF Elements
    <2>12. Grows(Elements(c.poly1305), Elements(d.poly1305), {})
      BY <2>10, <2>11, Zenon DEF Grows
    <2>. QED BY <1>1, <2>10, <2>12, Zenon
  <1>. QED BY <1>2, <1>3

\* The ciphertext is given to the MAC.
LEMMA ChaMacAdds ==
  ASSUME NEW c, NEW a, NEW e, ChaShape(c, a, e), NEW ct, NEW n, IsList(ct, n)
  PROVE  /\ ChaShape(ChaMac(c, ct), a, e + n)
         /\ Elements(ChaMac(c, ct).poly1305) = Elements(c.poly1305) \union Authentics(ct, n)
  <1>1. Len(ct) = n /\ n \in Nat
    BY Lists, Zenon DEF IsList
  <1>2. PICK t : t = [i \in 1..n |-> Authentic(ct[i])]
    OBVIOUS
  <1>3. IsList(t, n) /\ Elements(t) = Authentics(ct, n)
    <2>1. \A i \in 1..n : t[i] = Authentic(ct[i])
      BY <1>2, Zenon
    <2>2. t = [i \in 1..n |-> t[i]]
      BY <1>2, Zenon
    <2>3. IsList(t, n)
      BY <1>1, <2>2, Zenon DEF IsList
    <2>4. Len(t) = n
      BY <2>3, Lists, Zenon
    <2>. QED BY <2>1, <2>3, <2>4, Zenon DEF Elements, Authentics
  <1>4. PICK k, q, o, p : c = ChaRec(k, q, o, p, a, e)
    BY Zenon DEF ChaShape, ChaForm, ChaRec
  <1>5. PICK h, x : h = p \o t /\ x = e + n
    OBVIOUS
  <1>6. PICK d : d = ChaMac(c, ct)
    OBVIOUS
  <1>7. c.poly1305 = p /\ c.datalen = e
    BY <1>4 DEF ChaRec
  <1>8. d = [c EXCEPT !.poly1305 = h, !.datalen = x]
    <2>1. d = [c EXCEPT !.poly1305 = c.poly1305 \o t, !.datalen = c.datalen + n]
      BY <1>1, <1>2, <1>6, Zenon DEF ChaMac
    <2>. QED BY <1>5, <1>7, <2>1, Zenon
  <1>9. d = ChaRec(k, q, o, h, a, x)
    <2>1. PICK b : b = [c EXCEPT !.poly1305 = h]
      OBVIOUS
    <2>2. b = ChaRec(k, q, o, h, a, e)
      BY <1>4, <2>1 DEF ChaRec
    <2>3. [b EXCEPT !.datalen = x] = ChaRec(k, q, o, h, a, x)
      BY <2>2 DEF ChaRec
    <2>. QED BY <1>8, <2>1, <2>3, Zenon
  <1>10. ChaJoins(c, d, t, a, e, a, x)
    BY <1>4, <1>5, <1>9, Zenon DEF ChaJoins
  <1>11. ChaShape(d, a, x) /\ Elements(d.poly1305) = Elements(c.poly1305) \union Elements(t)
    BY <1>3, <1>10, ChaGoesOn
  <1>. QED BY <1>3, <1>5, <1>6, <1>11, Zenon

\* lc_chacha20_poly1305_encrypt.
LEMMA ChaSealAdds ==
  ASSUME Rate, NEW c, NEW a \in Nat, NEW e, ChaShape(c, a, e), NEW in, NEW n,
         IsList(in, n), NEW r, r = ChaSeal(c, in)
  PROVE  /\ ChaShape(r.ctx, a, e + n) /\ IsList(r.out, n)
         /\ Grows(Elements(c.poly1305), Elements(r.ctx.poly1305), Authentics(r.out, n))
         /\ \A i \in 1..n : SealsByte(r.out[i], in[i])
  <1>1. Len(in) = n /\ n \in Nat
    BY Lists, Zenon DEF IsList
  <1>2. PICK d : d = ChaPadAad(c)
    OBVIOUS
  <1>3. ChaShape(d, a, e) /\ Grows(Elements(c.poly1305), Elements(d.poly1305), {})
    BY <1>2, ChaPadAdds, Zenon
  <1>4. PICK C, O : Runs("cha-seal", d, in, C, O)
    BY <1>1, MoreCalls, LoopRuns, Zenon
  <1>5. PICK x, o : x = C[n] /\ o = Front(O, n)
    OBVIOUS
  <1>6. Bytewise(ChaSealByte, d, in) = [ctx |-> x, out |-> o]
    BY <1>1, <1>4, <1>5, ChaSealLoop, Zenon
  <1>7. "cha-seal" \in {"cha-seal", "cha-open"}
    OBVIOUS
  <1>8. ChaForm(x, d.poly1305, a, e) /\ \A i \in 1..n : SealsByte(O[i], in[i])
    BY <1>1, <1>3, <1>4, <1>5, <1>7, ChaCallKeeps, Zenon DEF ChaShape
  <1>9. x.poly1305 = d.poly1305
    BY <1>8 DEF ChaForm
  <1>10. ChaShape(x, a, e)
    BY <1>3, <1>8, <1>9, Zenon DEF ChaShape
  <1>11. IsList(o, n)
    BY <1>1, <1>5, Lists, Zenon
  <1>12. PICK y : y = ChaMac(x, o)
    OBVIOUS
  <1>13. /\ ChaShape(y, a, e + n)
         /\ Elements(y.poly1305) = Elements(x.poly1305) \union Authentics(o, n)
    BY <1>10, <1>11, <1>12, ChaMacAdds, Zenon
  <1>14. r = [ctx |-> y, out |-> o]
    <2>1. \A w : w = [ctx |-> x, out |-> o] => w.ctx = x /\ w.out = o
      OBVIOUS
    <2>2. PICK w : w = Bytewise(ChaSealByte, ChaPadAad(c), in)
      OBVIOUS
    <2>3. w = [ctx |-> x, out |-> o]
      BY <1>2, <1>6, <2>2, Zenon
    <2>4. w.ctx = x /\ w.out = o
      BY <2>1, <2>3, Zenon
    <2>5. r = [ctx |-> ChaMac(w.ctx, w.out), out |-> w.out]
      BY <2>2, Zenon DEF ChaSeal
    <2>. QED BY <1>12, <2>4, <2>5, Zenon
  <1>15. r.ctx = y /\ r.out = o
    BY <1>14
  <1>16. Grows(Elements(c.poly1305), Elements(y.poly1305), Authentics(o, n))
    BY <1>3, <1>9, <1>13, Zenon DEF Grows
  <1>17. \A i \in 1..n : o[i] = O[i]
    BY <1>5, Zenon DEF Front
  <1>18. \A i \in 1..n : SealsByte(o[i], in[i])
    BY <1>8, <1>17, Zenon
  <1>. QED BY <1>11, <1>13, <1>15, <1>16, <1>18, Zenon

\* lc_chacha20_poly1305_decrypt.
LEMMA ChaOpenAdds ==
  ASSUME Rate, NEW c, NEW a \in Nat, NEW e, ChaShape(c, a, e), NEW in, NEW n,
         IsList(in, n), NEW r, r = ChaOpen(c, in)
  PROVE  /\ ChaShape(r.ctx, a, e + n) /\ IsList(r.out, n)
         /\ Grows(Elements(c.poly1305), Elements(r.ctx.poly1305), Authentics(in, n))
  <1>1. Len(in) = n /\ n \in Nat
    BY Lists, Zenon DEF IsList
  <1>2. PICK d : d = ChaPadAad(c)
    OBVIOUS
  <1>3. ChaShape(d, a, e) /\ Grows(Elements(c.poly1305), Elements(d.poly1305), {})
    BY <1>2, ChaPadAdds, Zenon
  <1>4. PICK C, O : Runs("cha-open", d, in, C, O)
    BY <1>1, MoreCalls, LoopRuns, Zenon
  <1>5. PICK x, o : x = C[n] /\ o = Front(O, n)
    OBVIOUS
  <1>6. Bytewise(ChaOpenByte, d, in) = [ctx |-> x, out |-> o]
    BY <1>1, <1>4, <1>5, ChaOpenLoop, Zenon
  <1>7. "cha-open" \in {"cha-seal", "cha-open"}
    OBVIOUS
  <1>8. ChaForm(x, d.poly1305, a, e)
    BY <1>1, <1>3, <1>4, <1>5, <1>7, ChaCallKeeps, Zenon DEF ChaShape
  <1>9. x.poly1305 = d.poly1305
    BY <1>8 DEF ChaForm
  <1>10. ChaShape(x, a, e)
    BY <1>3, <1>8, <1>9, Zenon DEF ChaShape
  <1>11. IsList(o, n)
    BY <1>1, <1>5, Lists, Zenon
  <1>12. PICK y : y = ChaMac(x, in)
    OBVIOUS
  <1>13. /\ ChaShape(y, a, e + n)
         /\ Elements(y.poly1305) = Elements(x.poly1305) \union Authentics(in, n)
    BY <1>10, <1>12, ChaMacAdds, Zenon
  <1>14. r = [ctx |-> y, out |-> o]
    <2>1. \A w : w = [ctx |-> x, out |-> o] => w.ctx = x /\ w.out = o
      OBVIOUS
    <2>2. PICK w : w = Bytewise(ChaOpenByte, ChaPadAad(c), in)
      OBVIOUS
    <2>3. w = [ctx |-> x, out |-> o]
      BY <1>2, <1>6, <2>2, Zenon
    <2>4. w.ctx = x /\ w.out = o
      BY <2>1, <2>3, Zenon
    <2>5. r = [ctx |-> ChaMac(w.ctx, in), out |-> w.out]
      BY <2>2, Zenon DEF ChaOpen
    <2>. QED BY <1>12, <2>4, <2>5, Zenon
  <1>15. r.ctx = y /\ r.out = o
    BY <1>14
  <1>16. Grows(Elements(c.poly1305), Elements(y.poly1305), Authentics(in, n))
    BY <1>3, <1>9, <1>13, Zenon DEF Grows
  <1>. QED BY <1>11, <1>13, <1>15, <1>16, Zenon

-----------------------------------------------------------------------------
(* One call, whatever the algorithm.                                       *)

\* What a MAC may be given besides the bytes of the caller.
Padding(x) == x = <<"zero">> \/ x = <<"pad">> \/ x = <<"trail">>

\* From S to T the symbols g[1], ..., g[n] were mixed in, and padding: what
\* is not among them is kept, and what is among them once is there.
Keeps(S, T, x) == x \in S <=> x \in T
Without(g, n, x) == \A i \in 1..n : g[i] # x
Once(g, n, x) == \E j \in 1..n : g[j] = x /\ \A i \in 1..n : i # j => g[i] # x
Follows(S, T, g, n) ==
  \A x : ~ Padding(x) =>
    /\ Without(g, n, x) => Keeps(S, T, x)
    /\ Once(g, n, x) /\ x \notin S => x \in T

\* One by one.
LEMMA MixedFollows ==
  ASSUME NEW S, NEW T, NEW g, NEW n, MixedBy(S, T, g, n)
  PROVE  Follows(S, T, g, n)
  <1>1. ASSUME NEW x, Without(g, n, x) PROVE Keeps(S, T, x)
    <2>1. \A i \in 1..n : g[i] \notin {x}
      BY <1>1, Zenon DEF Without
    <2>2. Has(S, {x}) <=> Has(T, {x})
      BY <2>1, MarksKept, Zenon
    <2>. QED BY <2>2, Zenon DEF Has, Keeps
  <1>2. ASSUME NEW x, Once(g, n, x), x \notin S PROVE x \in T
    <2>1. PICK j \in 1..n : g[j] = x /\ \A i \in 1..n : i # j => g[i] # x
      BY <1>2, Zenon DEF Once
    <2>2. PICK M : M = {x}
      OBVIOUS
    <2>3. ~ Has(S, M)
      BY <1>2, <2>2, Zenon DEF Has
    <2>4. g[j] \in M
      BY <2>1, <2>2, Zenon
    <2>5. \A i \in 1..n : i # j => g[i] \notin M
      BY <2>1, <2>2, Zenon
    <2>6. Has(T, M)
      BY <2>1, <2>3, <2>4, <2>5, MarksAppear
    <2>. QED BY <2>2, <2>6, Zenon DEF Has
  <1>. QED BY <1>1, <1>2, Zenon DEF Follows

\* Nothing.
LEMMA NothingFollows ==
  ASSUME NEW S, NEW g PROVE Follows(S, S, g, 0)
  <1>1. \A x : ~ Once(g, 0, x)
    BY DEF Once
  <1>. QED BY <1>1, Zenon DEF Follows, Keeps

\* Padding, last.
LEMMA PaddingFollows ==
  ASSUME NEW S, NEW T, NEW g, NEW n, Follows(S, T, g, n), NEW U, NEW X, Mixes(T, U, X),
         \A x \in X : Padding(x)
  PROVE  Follows(S, U, g, n)
  <1>1. ASSUME NEW x, ~ Padding(x) PROVE Keeps(T, U, x)
    BY <1>1, Zenon DEF Mixes, Keeps
  <1>. QED BY <1>1, Zenon DEF Follows, Keeps

\* A piece at a time.
LEMMA FollowsOn ==
  ASSUME NEW S, NEW T, NEW g, NEW n \in Nat, Follows(S, T, g, n), NEW U,
         NEW m \in Nat, NEW in, Mixes(T, U, {in[i] : i \in 1..m}),
         \A i \in 1..m : in[i] = g[n + i]
  PROVE  Follows(S, U, g, n + m)
  <1>. SUFFICES ASSUME NEW x, ~ Padding(x)
                PROVE  /\ Without(g, n + m, x) => Keeps(S, U, x)
                       /\ Once(g, n + m, x) /\ x \notin S => x \in U
    BY Zenon DEF Follows
  <1>1. /\ \A i \in 1..n : i \in 1..(n + m)
        /\ \A i \in 1..m : n + i \in 1..(n + m) /\ n + i \notin 1..n
        /\ \A i \in 1..(n + m) : i \in 1..n \/ \E k \in 1..m : i = n + k
    <2>1. ASSUME NEW i \in 1..(n + m), i \notin 1..n PROVE \E k \in 1..m : i = n + k
      <3>1. i - n \in 1..m /\ i = n + (i - n)
        BY <2>1
      <3>. QED BY <3>1
    <2>. QED BY <2>1
  <1>2. ASSUME \A i \in 1..m : g[n + i] # x PROVE Keeps(T, U, x)
    <2>1. x \notin {in[i] : i \in 1..m}
      BY <1>2, Zenon
    <2>. QED BY <2>1, Zenon DEF Mixes, Keeps
  <1>3. ASSUME Without(g, n + m, x) PROVE Keeps(S, U, x)
    <2>1. Without(g, n, x) /\ \A i \in 1..m : g[n + i] # x
      BY <1>1, <1>3, Zenon DEF Without
    <2>. QED BY <1>2, <2>1, Zenon DEF Follows, Keeps
  <1>4. ASSUME Once(g, n + m, x), x \notin S PROVE x \in U
    <2>1. PICK j \in 1..(n + m) : g[j] = x /\ \A i \in 1..(n + m) : i # j => g[i] # x
      BY <1>4, Zenon DEF Once
    <2>2. CASE j \in 1..n
      <3>1. Once(g, n, x)
        BY <1>1, <2>1, <2>2, Zenon DEF Once
      <3>2. \A i \in 1..m : g[n + i] # x
        <4>1. \A i \in 1..m : n + i # j
          BY <1>1, <2>2, Zenon
        <4>. QED BY <1>1, <2>1, <4>1, Zenon
      <3>. QED BY <1>2, <1>4, <3>1, <3>2, Zenon DEF Follows, Keeps
    <2>3. CASE j \notin 1..n
      <3>1. PICK k \in 1..m : j = n + k
        BY <1>1, <2>1, <2>3, Zenon
      <3>2. Without(g, n, x)
        BY <1>1, <2>1, <2>3, Zenon DEF Without
      <3>3. x \notin T
        BY <1>4, <3>2, Zenon DEF Follows, Keeps
      <3>4. x \in {in[i] : i \in 1..m}
        <4>1. in[k] = x
          BY <2>1, <3>1, Zenon
        <4>. QED BY <4>1, Zenon
      <3>. QED BY <3>3, <3>4, Zenon DEF Mixes
    <2>. QED BY <2>2, <2>3
  <1>. QED BY <1>3, <1>4

\* What Poly1305 is given.
LEMMA GrowsFollows ==
  ASSUME NEW P, NEW Q, NEW g, NEW n, Grows(P, Q, {g[i] : i \in 1..n})
  PROVE  Follows(P, Q, g, n)
  <1>1. ASSUME NEW x, ~ Padding(x), Without(g, n, x) PROVE Keeps(P, Q, x)
    <2>1. x \notin {g[i] : i \in 1..n} /\ x # <<"zero">>
      BY <1>1, Zenon DEF Without, Padding
    <2>. QED BY <2>1, Zenon DEF Grows, Keeps
  <1>2. ASSUME NEW x, Once(g, n, x) PROVE x \in Q
    <2>1. x \in {g[i] : i \in 1..n}
      BY <1>2, Zenon DEF Once
    <2>. QED BY <2>1, Zenon DEF Grows
  <1>. QED BY <1>1, <1>2, Zenon DEF Follows

-----------------------------------------------------------------------------
(* What is mixed into the state of Ascon.                                  *)

\* A context of Ascon.
AsconShape(c) == \E s, o : IsSponge(s) /\ c = [state |-> s, rate_offset |-> o]

\* A turn, which mixes in the byte of the message.
AsconMixed(call, b, o, y) ==
  \/ call = "ascon-seal" /\ y = b
  \/ call = "ascon-open" /\ y = o

\* What the turn puts out.
AsconSealed(call, o, b) == call = "ascon-seal" => SealsByte(o, b)

Garbage(b, y) == \E k : y = <<"garbage", b, k>>
AsconOpened(call, o, b) == call = "ascon-open" => o \in b.xor \/ Garbage(b, o)

\* One turn of lc_ascon_enc_update or lc_ascon_dec_update.
LEMMA AsconTurnMixes ==
  ASSUME NEW call \in {"ascon-seal", "ascon-open"}, NEW c, AsconShape(c), NEW b,
         NEW t, t = Turn(call, c, b)
  PROVE  /\ AsconShape(t.ctx)
         /\ \E y : /\ AsconMixed(call, b, t.out, y)
                   /\ Mixes(Symbols(c.state), Symbols(t.ctx.state), {y})
         /\ AsconSealed(call, t.out, b) /\ AsconOpened(call, t.out, b)
  <1>1. PICK s, o : IsSponge(s) /\ c = [state |-> s, rate_offset |-> o]
    BY Zenon DEF AsconShape
  <1>2. PICK d : d = AsconTurn(c)
    OBVIOUS
  <1>3. PICK u, q : u = d.state /\ q = d.rate_offset
    OBVIOUS
  <1>4. IsSponge(u) /\ Symbols(u) = Symbols(c.state)
    <2>1. c.state = s
      BY <1>1
    <2>2. CASE c.rate_offset = R
      <3>1. d = [state |-> Permute(s), rate_offset |-> 0]
        BY <1>2, <2>1, <2>2, Zenon DEF AsconTurn
      <3>2. u = Permute(s)
        BY <1>3, <3>1
      <3>. QED BY <1>1, <2>1, <3>2, PermuteKeeps, Zenon
    <2>3. CASE c.rate_offset # R
      <3>1. d = c
        BY <1>2, <2>3, Zenon DEF AsconTurn
      <3>. QED BY <1>1, <1>3, <2>1, <3>1, Zenon
    <2>. QED BY <2>2, <2>3
  <1>5. ASSUME NEW y, NEW v, v = Xor(u, q, <<y>>)
        PROVE  IsSponge(v) /\ Mixes(Symbols(c.state), Symbols(v), {y})
    <2>1. Elements(<<y>>) = {y}
      BY DEF Elements
    <2>2. \A in : /\ IsSponge(Xor(u, q, in))
                  /\ Mixes(Symbols(u), Symbols(Xor(u, q, in)), Elements(in))
      BY <1>4, XorMixes, Zenon
    <2>. QED BY <1>4, <1>5, <2>1, <2>2, Zenon
  <1>6. CASE call = "ascon-seal"
    <2>1. PICK v : v = Xor(u, q, <<b>>)
      OBVIOUS
    <2>2. PICK w : w = Cover(v.past, q, b)
      OBVIOUS
    <2>3. PICK f : f = [state |-> v, rate_offset |-> q + 1]
      OBVIOUS
    <2>4. t = [ctx |-> f, out |-> w]
      <3>1. AsconSealByte(c, b) = [ctx |-> f, out |-> w]
        BY <1>2, <1>3, <2>1, <2>2, <2>3, Zenon DEF AsconSealByte
      <3>. QED BY <1>6, <3>1 DEF Turn
    <2>5. t.ctx = f /\ t.out = w /\ f.state = v
      BY <2>3, <2>4
    <2>6. IsSponge(v) /\ Mixes(Symbols(c.state), Symbols(v), {b})
      BY <1>5, <2>1, Zenon
    <2>7. AsconShape(f)
      BY <2>3, <2>6, Zenon DEF AsconShape
    <2>8. AsconMixed(call, b, w, b) /\ call # "ascon-open"
      BY <1>6 DEF AsconMixed
    <2>. QED BY <2>2, <2>5, <2>6, <2>7, <2>8, Zenon DEF AsconSealed, AsconOpened, SealsByte
  <1>7. CASE call = "ascon-open"
    <2>1. PICK p : p = Uncover(u.past, q, b)
      OBVIOUS
    <2>2. PICK v : v = Xor(u, q, <<p>>)
      OBVIOUS
    <2>3. PICK f : f = [state |-> v, rate_offset |-> q + 1]
      OBVIOUS
    <2>4. t = [ctx |-> f, out |-> p]
      <3>1. AsconOpenByte(c, b) = [ctx |-> f, out |-> p]
        BY <1>2, <1>3, <2>1, <2>2, <2>3, Zenon DEF AsconOpenByte
      <3>. QED BY <1>7, <3>1 DEF Turn
    <2>5. t.ctx = f /\ t.out = p /\ f.state = v
      BY <2>3, <2>4
    <2>6. IsSponge(v) /\ Mixes(Symbols(c.state), Symbols(v), {p})
      BY <1>5, <2>2, Zenon
    <2>7. AsconShape(f)
      BY <2>3, <2>6, Zenon DEF AsconShape
    <2>8. AsconMixed(call, b, p, p) /\ call # "ascon-seal"
      BY <1>7 DEF AsconMixed
    <2>9. p \in b.xor \/ Garbage(b, p)
      <3>1. CASE b.past = u.past /\ b.at = q /\ Cardinality(b.xor) = 1
        <4>1. p = CHOOSE x \in b.xor : TRUE
          BY <2>1, <3>1, Zenon DEF Uncover
        <4>2. b.xor # {}
          BY <3>1, FS_EmptySet
        <4>. QED BY <4>1, <4>2, Zenon
      <3>2. CASE ~ (b.past = u.past /\ b.at = q /\ Cardinality(b.xor) = 1)
        <4>1. p = <<"garbage", b, q>>
          BY <2>1, <3>2, Zenon DEF Uncover
        <4>. QED BY <4>1, Zenon DEF Garbage
      <3>. QED BY <3>1, <3>2, Zenon
    <2>. QED BY <2>5, <2>6, <2>7, <2>8, <2>9, Zenon DEF AsconSealed, AsconOpened
  <1>. QED BY <1>6, <1>7

\* What a turn mixes in.
AsconAdds(call, b, o) == IF call = "ascon-seal" THEN b ELSE o

\* A call.
LEMMA AsconCallMixes ==
  ASSUME NEW call \in {"ascon-seal", "ascon-open"}, NEW c, AsconShape(c), NEW in,
         NEW C, NEW O, NEW n, n = Len(in), Runs(call, c, in, C, O)
  PROVE  /\ AsconShape(C[n])
         /\ Follows(Symbols(c.state), Symbols(C[n].state),
                    [i \in 1..n |-> AsconAdds(call, in[i], O[i])], n)
         /\ \A i \in 1..n : AsconSealed(call, O[i], in[i]) /\ AsconOpened(call, O[i], in[i])
  <1>1. /\ n \in Nat /\ C[0] = c
        /\ \A i \in 1..n : Turn(call, C[i - 1], in[i]) = [ctx |-> C[i], out |-> O[i]]
    BY DEF Runs
  <1>2. ASSUME NEW i \in 1..n, AsconShape(C[i - 1])
        PROVE  /\ AsconShape(C[i])
               /\ Mixes(Symbols(C[i - 1].state), Symbols(C[i].state),
                        {AsconAdds(call, in[i], O[i])})
               /\ AsconSealed(call, O[i], in[i]) /\ AsconOpened(call, O[i], in[i])
    <2>1. PICK t : t = Turn(call, C[i - 1], in[i])
      OBVIOUS
    <2>2. t.ctx = C[i] /\ t.out = O[i]
      <3>1. t = [ctx |-> C[i], out |-> O[i]]
        BY <1>1, <2>1, Zenon
      <3>. QED BY <3>1
    <2>3. PICK b, x : b = in[i] /\ x = C[i - 1]
      OBVIOUS
    <2>4. /\ AsconShape(t.ctx)
          /\ \E y : /\ AsconMixed(call, b, t.out, y)
                    /\ Mixes(Symbols(x.state), Symbols(t.ctx.state), {y})
          /\ AsconSealed(call, t.out, b) /\ AsconOpened(call, t.out, b)
      BY <1>2, <2>1, <2>3, AsconTurnMixes
    <2>5. PICK y : /\ AsconMixed(call, b, t.out, y)
                   /\ Mixes(Symbols(x.state), Symbols(t.ctx.state), {y})
      BY <2>4, Zenon
    <2>6. y = AsconAdds(call, b, t.out)
      BY <2>5 DEF AsconMixed, AsconAdds
    <2>. QED BY <2>2, <2>3, <2>4, <2>5, <2>6, Zenon
  <1>. DEFINE K == {k \in Nat : k <= n => AsconShape(C[k])}
  <1>3. 0 \in K
    BY <1>1
  <1>4. ASSUME NEW k \in Nat, k \in K PROVE k + 1 \in K
    <2>. SUFFICES ASSUME k + 1 <= n PROVE AsconShape(C[k + 1])
      OBVIOUS
    <2>1. PICK m \in 1..n : m = k + 1 /\ m - 1 = k
      BY <1>1
    <2>2. AsconShape(C[m - 1])
      <3>1. k <= n
        BY <1>1
      <3>. QED BY <1>4, <2>1, <3>1
    <2>. QED BY <1>2, <2>1, <2>2
  <1>. HIDE DEF K
  <1>5. \A k \in Nat : k \in K
    BY <1>3, <1>4, SetInduction
  <1>6. ASSUME NEW i \in 1..n
        PROVE  /\ Mixes(Symbols(C[i - 1].state), Symbols(C[i].state),
                        {AsconAdds(call, in[i], O[i])})
               /\ AsconSealed(call, O[i], in[i]) /\ AsconOpened(call, O[i], in[i])
    <2>1. i - 1 \in Nat /\ i - 1 <= n
      BY <1>1
    <2>2. AsconShape(C[i - 1])
      BY <1>5, <2>1 DEF K
    <2>. QED BY <1>2, <2>2, Zenon
  <1>7. Follows(Symbols(c.state), Symbols(C[n].state),
                [i \in 1..n |-> AsconAdds(call, in[i], O[i])], n)
    <2>. DEFINE f == [i \in 0..n |-> Symbols(C[i].state)]
                g == [i \in 1..n |-> AsconAdds(call, in[i], O[i])]
    <2>1. f[0] = Symbols(c.state) /\ f[n] = Symbols(C[n].state)
      <3>1. 0 \in 0..n /\ n \in 0..n
        BY <1>1
      <3>. QED BY <1>1, <3>1, Zenon
    <2>2. ASSUME NEW i \in 1..n PROVE Mixes(f[i - 1], f[i], {g[i]})
      <3>1. i \in 0..n /\ i - 1 \in 0..n
        BY <1>1
      <3>2. f[i] = Symbols(C[i].state) /\ f[i - 1] = Symbols(C[i - 1].state)
        BY <3>1, Zenon
      <3>. QED BY <1>6, <3>2, Zenon
    <2>. HIDE DEF f, g
    <2>3. MixedBy(Symbols(c.state), Symbols(C[n].state), g, n)
      BY <1>1, <2>1, <2>2, Zenon DEF MixedBy
    <2>4. Follows(Symbols(c.state), Symbols(C[n].state), g, n)
      BY <2>3, MixedFollows, Zenon
    <2>. QED BY <2>4 DEF g
  <1>8. AsconShape(C[n])
    BY <1>1, <1>5 DEF K
  <1>. QED BY <1>6, <1>7, <1>8, Zenon

\* The blocks of the additional data, one after the other.
LEMMA BlockTurns ==
  ASSUME NEW s, NEW in, NEW n \in Nat, Len(in) \div R = n
  PROVE  /\ AfterBlocks(s, in)[0] = s
         /\ \A i \in 1..n :
              AfterBlocks(s, in)[i]
                = Permute(Xor(AfterBlocks(s, in)[i - 1], 0,
                              SubSeq(in, (i - 1) * R + 1, i * R)))
  <1>. DEFINE Then(x, i) == Permute(Xor(x, 0, SubSeq(in, (i - 1) * R + 1, i * R)))
              Goes(f, m) == f = [i \in 0..m |-> IF i = 0 THEN s ELSE Then(f[i - 1], i)]
              K == {m \in Nat : \E f : Goes(f, m)}
  <1>1. 0 \in K
    <2>1. Goes([i \in 0..0 |-> s], 0)
      OBVIOUS
    <2>. QED BY <2>1
  <1>2. ASSUME NEW m \in Nat, m \in K PROVE m + 1 \in K
    <2>1. PICK f : Goes(f, m)
      BY <1>2
    <2>. HIDE DEF Then
    <2>. DEFINE g == [i \in 0..(m + 1) |-> IF i <= m THEN f[i] ELSE Then(f[m], m + 1)]
    <2>. HIDE DEF Goes
    <2>2. \A i \in 0..(m + 1) : g[i] = IF i = 0 THEN s ELSE Then(g[i - 1], i)
      <3>1. \A i \in 0..m : f[i] = IF i = 0 THEN s ELSE Then(f[i - 1], i)
        BY <2>1 DEF Goes
      <3>. QED BY <3>1
    <2>3. Goes(g, m + 1)
      BY <2>2 DEF Goes
    <2>. QED BY <2>3
  <1>3. \E f : Goes(f, n)
    <2>. HIDE DEF K
    <2>1. n \in K
      BY <1>1, <1>2, SetInduction
    <2>. QED BY <2>1 DEF K
  <1>4. Goes(AfterBlocks(s, in), n)
    BY <1>3 DEF AfterBlocks
  <1>. HIDE DEF Then
  <1>5. /\ AfterBlocks(s, in)[0] = s
        /\ \A i \in 1..n : AfterBlocks(s, in)[i] = Then(AfterBlocks(s, in)[i - 1], i)
    BY <1>4
  <1>. QED BY <1>5 DEF Then

\* The m elements of a list behind the first a.
CutFrom(s, m, in, a) == IsList(s, m) /\ \A i \in 1..m : s[i] = in[a + i]

\* SubSeq gives them.
LEMMA PieceIs ==
  ASSUME NEW in, NEW n, IsList(in, n), NEW a \in Nat, NEW m \in Nat, a + m <= n, NEW b, b = a + m,
         NEW s, s = SubSeq(in, a + 1, b)
  PROVE  CutFrom(s, m, in, a)
  <1>1. PICK T : in \in Seq(T) /\ Len(in) = n /\ n \in Nat
    BY ListIsSeq, Zenon
  <1>2. s \in Seq(T) /\ Len(s) = m /\ \A i \in 1..m : s[i] = in[a + i]
    BY <1>1
  <1>3. IsList(s, m)
    BY <1>2, SeqIsList
  <1>. QED BY <1>2, <1>3, Zenon DEF CutFrom

\* The state after a piece.
LEMMA PieceFollows ==
  ASSUME NEW S, NEW s, IsSponge(s), NEW in, NEW n, IsList(in, n), NEW a \in Nat,
         Follows(S, Symbols(s), in, a), NEW m \in Nat, a + m <= n, NEW b, b = a + m,
         NEW t, t = Xor(s, 0, SubSeq(in, a + 1, b))
  PROVE  IsSponge(t) /\ Follows(S, Symbols(t), in, b)
  <1>1. PICK w : w = SubSeq(in, a + 1, b)
    OBVIOUS
  <1>2. IsList(w, m) /\ \A i \in 1..m : w[i] = in[a + i]
    <2>1. CutFrom(w, m, in, a)
      BY <1>1, PieceIs, Zenon
    <2>. QED BY <2>1, Zenon DEF CutFrom
  <1>3. Elements(w) = {w[i] : i \in 1..m}
    BY <1>2, Lists, Zenon DEF Elements
  <1>4. IsSponge(t) /\ Mixes(Symbols(s), Symbols(t), {w[i] : i \in 1..m})
    <2>1. IsSponge(Xor(s, 0, w)) /\ Mixes(Symbols(s), Symbols(Xor(s, 0, w)), Elements(w))
      BY XorMixes, Zenon
    <2>. QED BY <1>1, <1>3, <2>1, Zenon
  <1>5. PICK T : T = Symbols(t)
    OBVIOUS
  <1>6. Follows(S, T, in, a + m)
    <2>1. Mixes(Symbols(s), T, {w[i] : i \in 1..m})
      BY <1>4, <1>5, Zenon
    <2>2. \A i \in 1..m : w[i] = in[a + i]
      BY <1>2, Zenon
    <2>3. PICK V : V = Symbols(s)
      OBVIOUS
    <2>4. Follows(S, V, in, a) /\ Mixes(V, T, {w[i] : i \in 1..m})
      BY <2>1, <2>3, Zenon
    <2>. QED BY <2>2, <2>4, FollowsOn
  <1>. QED BY <1>4, <1>5, <1>6, Zenon

\* Whole blocks.
LEMMA BlocksFit ==
  ASSUME Rate, NEW n \in Nat, NEW k \in Nat, k = n \div R
  PROVE  /\ k * R \in Nat /\ k * R <= n /\ n - k * R \in Nat
         /\ \A i \in 1..k : (i - 1) * R \in Nat /\ (i - 1) * R + R = i * R /\ i * R <= n
  <1>1. R \in Nat /\ R >= 2
    BY DEF Rate
  <1>2. n % R \in Nat /\ n = k * R + (n % R)
    BY <1>1, Parts
  <1>3. k * R \in Nat
    BY <1>1
  <1>4. ASSUME NEW i \in 1..k PROVE (i - 1) * R \in Nat /\ (i - 1) * R + R = i * R /\ i * R <= k * R
    <2>1. PICK j \in Nat : i = j + 1
      <3>1. i - 1 \in Nat /\ i = (i - 1) + 1
        OBVIOUS
      <3>. QED BY <3>1
    <2>2. j * R \in Nat /\ (j + 1) * R = j * R + R
      BY <1>1
    <2>3. PICK l \in Nat : k = i + l
      <3>1. k - i \in Nat /\ k = i + (k - i)
        OBVIOUS
      <3>. QED BY <3>1
    <2>4. i * R \in Nat /\ l * R \in Nat /\ (i + l) * R = i * R + l * R
      BY <1>1
    <2>5. i - 1 = j
      BY <2>1
    <2>. QED BY <2>1, <2>2, <2>3, <2>4, <2>5
  <1>. QED BY <1>2, <1>3, <1>4

\* lc_ascon_aad.
LEMMA AsconAadMixes ==
  ASSUME Rate, NEW c, AsconShape(c), NEW in, NEW n, IsList(in, n), NEW r, r = AsconAad(c, in)
  PROVE  AsconShape(r) /\ Follows(Symbols(c.state), Symbols(r.state), in, n)
  <1>1. n \in Nat /\ Len(in) = n
    BY Lists, Zenon DEF IsList
  <1>2. CASE in = <<>>
    <2>1. n = 0
      BY <1>1, <1>2
    <2>2. r = c
      BY <1>2, Zenon DEF AsconAad
    <2>. QED BY <2>1, <2>2, NothingFollows, Zenon
  <1>3. CASE in # <<>>
    <2>1. PICK s, o : IsSponge(s) /\ c = [state |-> s, rate_offset |-> o]
      BY Zenon DEF AsconShape
    <2>2. c.state = s
      BY <2>1
    <2>3. PICK k \in Nat : k = n \div R
      BY <1>1, Parts DEF Rate
    <2>4. PICK A : A = AfterBlocks(s, in)
      OBVIOUS
    <2>5. /\ A[0] = s
          /\ \A i \in 1..k : A[i] = Permute(Xor(A[i - 1], 0, SubSeq(in, (i - 1) * R + 1, i * R)))
      <3>1. Len(in) \div R = k
        BY <1>1, <2>3
      <3>. QED BY <2>4, <3>1, BlockTurns
    <2>6. /\ k * R \in Nat /\ k * R <= n /\ n - k * R \in Nat
          /\ \A i \in 1..k : (i - 1) * R \in Nat /\ (i - 1) * R + R = i * R /\ i * R <= n
      BY <1>1, <2>3, BlocksFit, Zenon
    <2>. DEFINE K == {i \in Nat : i <= k =>
                        IsSponge(A[i]) /\ Follows(Symbols(s), Symbols(A[i]), in, i * R)}
    <2>7. 0 \in K
      <3>1. 0 * R = 0
        BY DEF Rate
      <3>. QED BY <2>1, <2>5, <3>1, NothingFollows
    <2>8. ASSUME NEW i \in Nat, i \in K PROVE i + 1 \in K
      <3>. SUFFICES ASSUME i + 1 <= k
                    PROVE  /\ IsSponge(A[i + 1])
                           /\ Follows(Symbols(s), Symbols(A[i + 1]), in, (i + 1) * R)
        OBVIOUS
      <3>1. PICK j \in 1..k : j = i + 1 /\ j - 1 = i
        OBVIOUS
      <3>2. IsSponge(A[j - 1]) /\ Follows(Symbols(s), Symbols(A[j - 1]), in, (j - 1) * R)
        <4>1. i <= k
          OBVIOUS
        <4>2. IsSponge(A[i]) /\ Follows(Symbols(s), Symbols(A[i]), in, i * R)
          BY <2>8, <4>1
        <4>. QED BY <3>1, <4>2, Zenon
      <3>3. PICK a \in Nat, b \in Nat : a = (j - 1) * R /\ b = j * R /\ a + R = b /\ b <= n
        BY SMTT(40), <2>6
      <3>4. PICK t : t = Xor(A[j - 1], 0, SubSeq(in, a + 1, b))
        OBVIOUS
      <3>5. IsSponge(t) /\ Follows(Symbols(s), Symbols(t), in, b)
        <4>1. PICK u, S : u = A[j - 1] /\ S = Symbols(s)
          OBVIOUS
        <4>2. IsSponge(u) /\ Follows(S, Symbols(u), in, a)
          BY <3>2, <3>3, <4>1, Zenon
        <4>3. t = Xor(u, 0, SubSeq(in, a + 1, b))
          BY <3>4, <4>1, Zenon
        <4>4. R \in Nat /\ a + R <= n /\ b = a + R
          BY <3>3 DEF Rate
        <4>5. IsSponge(t) /\ Follows(S, Symbols(t), in, b)
          BY <4>2, <4>3, <4>4, PieceFollows
        <4>. QED BY <4>1, <4>5, Zenon
      <3>6. A[j] = Permute(t)
        BY <2>5, <3>3, <3>4, Zenon
      <3>7. IsSponge(A[j]) /\ Symbols(A[j]) = Symbols(t)
        BY <3>5, <3>6, PermuteKeeps, Zenon
      <3>8. IsSponge(A[j]) /\ Follows(Symbols(s), Symbols(A[j]), in, j * R)
        BY <3>3, <3>5, <3>7, Zenon
      <3>. QED BY <3>1, <3>8, Zenon
    <2>. HIDE DEF K
    <2>9. k \in K
      BY <2>3, <2>7, <2>8, SetInduction
    <2>10. IsSponge(A[k]) /\ Follows(Symbols(s), Symbols(A[k]), in, k * R)
      BY <2>9 DEF K
    <2>11. PICK t : t = Xor(A[k], 0, SubSeq(in, k * R + 1, n))
      OBVIOUS
    <2>12. IsSponge(t) /\ Follows(Symbols(s), Symbols(t), in, n)
      <3>1. PICK a \in Nat, m \in Nat : a = k * R /\ a + m = n
        <4>1. PICK a : a = k * R
          OBVIOUS
        <4>2. a \in Nat /\ n - a \in Nat /\ a + (n - a) = n
          BY <1>1, <2>6, <4>1
        <4>. QED BY <4>1, <4>2
      <3>2. PICK u, S : u = A[k] /\ S = Symbols(s)
        OBVIOUS
      <3>3. IsSponge(u) /\ Follows(S, Symbols(u), in, a) /\ t = Xor(u, 0, SubSeq(in, a + 1, n))
        BY <2>10, <2>11, <3>1, <3>2, Zenon
      <3>4. a + m <= n /\ n = a + m
        BY <1>1, <3>1
      <3>5. IsSponge(t) /\ Follows(S, Symbols(t), in, n)
        BY <3>3, <3>4, PieceFollows
      <3>. QED BY <3>2, <3>5, Zenon
    <2>13. AbsorbBlocks(s, in) = t
      BY <1>1, <2>3, <2>4, <2>11, Zenon DEF AbsorbBlocks
    <2>14. PICK u : u = Xor(t, n % R, << <<"pad">> >>)
      OBVIOUS
    <2>15. PICK v : v = Xor(Permute(u), Capacity, << <<"trail">> >>)
      OBVIOUS
    <2>16. \A x : Elements(<<x>>) = {x}
      BY DEF Elements
    <2>17. IsSponge(u) /\ Mixes(Symbols(t), Symbols(u), {<<"pad">>})
      <3>1. \A at, y : /\ IsSponge(Xor(t, at, y))
                       /\ Mixes(Symbols(t), Symbols(Xor(t, at, y)), Elements(y))
        BY <2>12, XorMixes, Zenon
      <3>2. PICK q, at : q = << <<"pad">> >> /\ at = n % R
        OBVIOUS
      <3>3. u = Xor(t, at, q) /\ Elements(q) = {<<"pad">>}
        BY <2>14, <2>16, <3>2, Zenon
      <3>. QED BY <3>1, <3>3, Zenon
    <2>18. IsSponge(v) /\ Mixes(Symbols(u), Symbols(v), {<<"trail">>})
      <3>1. PICK w : w = Permute(u)
        OBVIOUS
      <3>2. IsSponge(w) /\ Symbols(w) = Symbols(u)
        BY <2>17, <3>1, PermuteKeeps, Zenon
      <3>3. \A at, y : /\ IsSponge(Xor(w, at, y))
                       /\ Mixes(Symbols(w), Symbols(Xor(w, at, y)), Elements(y))
        BY <3>2, XorMixes, Zenon
      <3>4. PICK q : q = << <<"trail">> >>
        OBVIOUS
      <3>5. v = Xor(w, Capacity, q) /\ Elements(q) = {<<"trail">>}
        BY <2>15, <2>16, <3>1, <3>4, Zenon
      <3>. QED BY <3>2, <3>3, <3>5, Zenon
    <2>19. Follows(Symbols(s), Symbols(v), in, n)
      <3>1. /\ \A x \in {<<"pad">>} : Padding(x)
            /\ \A x \in {<<"trail">>} : Padding(x)
        BY Zenon DEF Padding
      <3>2. PICK S, T, U, V : S = Symbols(s) /\ T = Symbols(t) /\ U = Symbols(u) /\ V = Symbols(v)
        OBVIOUS
      <3>3. Follows(S, T, in, n) /\ Mixes(T, U, {<<"pad">>}) /\ Mixes(U, V, {<<"trail">>})
        BY <2>12, <2>17, <2>18, <3>2, Zenon
      <3>4. Follows(S, U, in, n)
        BY <3>1, <3>3, PaddingFollows, Zenon
      <3>5. Follows(S, V, in, n)
        BY <3>1, <3>3, <3>4, PaddingFollows, Zenon
      <3>. QED BY <3>2, <3>5, Zenon
    <2>20. r = [c EXCEPT !.state = v]
      BY <1>1, <1>3, <2>2, <2>13, <2>14, <2>15, Zenon DEF AsconAad
    <2>21. r = [state |-> v, rate_offset |-> o]
      BY <2>1, <2>20
    <2>22. r.state = v
      BY <2>21
    <2>. QED BY <2>2, <2>18, <2>19, <2>21, <2>22, Zenon DEF AsconShape
  <1>. QED BY <1>2, <1>3

-----------------------------------------------------------------------------
(* The calls of aead_api.c.                                                *)

\* The symbols in what the tag is computed from.
SymbolsOf(alg, c) == CASE alg = "gcm"    -> Symbols(c.buf)
                       [] alg = "chacha" -> Elements(c.poly1305)
                       [] alg = "ascon"  -> Symbols(c.state)

\* A context after a bytes of additional data and e bytes of data.
HasShape(alg, c, a, e) == CASE alg = "gcm"    -> GcmShape(c, a, e)
                            [] alg = "chacha" -> ChaShape(c, a, e)
                            [] alg = "ascon"  -> AsconShape(c)

\* It does not matter how the bytes are written.
LEMMA SameFollows ==
  ASSUME NEW S, NEW T, NEW g, NEW n, Follows(S, T, g, n), NEW h, \A i \in 1..n : g[i] = h[i]
  PROVE  Follows(S, T, h, n)
  <1>1. ASSUME NEW x, Without(h, n, x) PROVE Without(g, n, x)
    BY <1>1, Zenon DEF Without
  <1>2. ASSUME NEW x, Once(h, n, x) PROVE Once(g, n, x)
    BY <1>2, Zenon DEF Once
  <1>. QED BY <1>1, <1>2, Zenon DEF Follows

\* Additional data.
LEMMA AadFollows ==
  ASSUME Rate, Algorithm(aead), NEW c, NEW a \in Nat, NEW e \in Nat, HasShape(aead, c, a, e),
         NEW in, NEW n, IsList(in, n), NEW r, r = AddAad(c, in)
  PROVE  HasShape(aead, r, a + n, e) /\ Follows(SymbolsOf(aead, c), SymbolsOf(aead, r), in, n)
  <1>1. Len(in) = n /\ n \in Nat
    BY Lists, Zenon DEF IsList
  <1>2. CASE aead = "gcm"
    <2>1. GcmShape(c, a, e) /\ r = GcmAad(c, in)
      BY <1>2 DEF HasShape, AddAad
    <2>2. GcmShape(r, a + n, e) /\ AddsAll(Symbols(c.buf), Symbols(r.buf), in, n)
      BY <2>1, GcmAadAdds
    <2>3. PICK g : MixedBy(Symbols(c.buf), Symbols(r.buf), g, n) /\ \A i \in 1..n : g[i] = in[i]
      BY <2>2, Zenon DEF AddsAll
    <2>4. Follows(Symbols(c.buf), Symbols(r.buf), in, n)
      BY <2>3, MixedFollows, SameFollows
    <2>. QED BY <1>2, <2>2, <2>4 DEF HasShape, SymbolsOf
  <1>3. CASE aead = "chacha"
    <2>1. ChaShape(c, a, e) /\ r = ChaAad(c, in)
      BY <1>3 DEF HasShape, AddAad
    <2>2. ChaShape(r, a + n, e) /\ Elements(r.poly1305) = Elements(c.poly1305) \union Elements(in)
      BY <2>1, ChaAadAdds
    <2>3. Grows(Elements(c.poly1305), Elements(r.poly1305), {in[i] : i \in 1..n})
      <3>1. Elements(in) = {in[i] : i \in 1..n}
        BY <1>1, Zenon DEF Elements
      <3>. QED BY <2>2, <3>1, Zenon DEF Grows
    <2>4. Follows(Elements(c.poly1305), Elements(r.poly1305), in, n)
      BY <2>3, GrowsFollows
    <2>. QED BY <1>3, <2>2, <2>4 DEF HasShape, SymbolsOf
  <1>4. CASE aead = "ascon"
    <2>1. AsconShape(c) /\ r = AsconAad(c, in)
      BY <1>4 DEF HasShape, AddAad
    <2>2. AsconShape(r) /\ Follows(Symbols(c.state), Symbols(r.state), in, n)
      BY <2>1, AsconAadMixes
    <2>. QED BY <1>4, <2>2 DEF HasShape, SymbolsOf
  <1>. QED BY <1>2, <1>3, <1>4 DEF Algorithm

\* What sealing adds: beyond the limit of GCM, nothing.
Authenticated(g, in, n) ==
  \A i \in 1..n : \E b : SealsByte(b, in[i]) /\ g[i] = Authentic(b)
Sealed(alg, S, T, in, n) ==
  /\ alg = "ascon" => Follows(S, T, in, n)
  /\ alg # "ascon" => S = T \/ \E g : Follows(S, T, g, n) /\ Authenticated(g, in, n)

\* lc_aead_enc_update.
LEMMA SealFollows ==
  ASSUME Rate, Algorithm(aead), NEW c, NEW a \in Nat, NEW e \in Nat, HasShape(aead, c, a, e),
         NEW in, NEW n, IsList(in, n), NEW r, r = EncUpdate(c, in)
  PROVE  /\ HasShape(aead, r.ctx, a, e + n) /\ IsList(r.out, n)
         /\ Sealed(aead, SymbolsOf(aead, c), SymbolsOf(aead, r.ctx), in, n)
         /\ \A i \in 1..n : SealsByte(r.out[i], in[i])
  <1>1. Len(in) = n /\ n \in Nat
    BY Lists, Zenon DEF IsList
  <1>2. CASE aead = "gcm"
    <2>1. GcmShape(c, a, e) /\ r = GcmSeal(c, in)
      BY <1>2 DEF HasShape, EncUpdate
    <2>2. /\ GcmShape(r.ctx, a, e + n) /\ IsList(r.out, n)
          /\ AddsSealed(Symbols(c.buf), Symbols(r.ctx.buf), in, n)
          /\ \A i \in 1..n : SealsByte(r.out[i], in[i])
      BY <2>1, GcmSealAdds
    <2>3. PICK S, T : S = Symbols(c.buf) /\ T = Symbols(r.ctx.buf)
      OBVIOUS
    <2>4. S = T \/ \E g : Follows(S, T, g, n) /\ Authenticated(g, in, n)
      <3>1. SUFFICES ASSUME S # T PROVE \E g : Follows(S, T, g, n) /\ Authenticated(g, in, n)
        OBVIOUS
      <3>2. PICK g : /\ MixedBy(S, T, g, n)
                     /\ \A i \in 1..n : \E q, k : g[i] = Authentic(Cover(q, k, in[i]))
        BY <2>2, <2>3, <3>1, Zenon DEF AddsSealed
      <3>3. Follows(S, T, g, n)
        BY <3>2, MixedFollows
      <3>4. Authenticated(g, in, n)
        BY <3>2, Zenon DEF Authenticated, SealsByte
      <3>. QED BY <3>3, <3>4, Zenon
    <2>5. Sealed("gcm", S, T, in, n)
      BY <2>4 DEF Sealed
    <2>6. SymbolsOf(aead, c) = S /\ SymbolsOf(aead, r.ctx) = T /\ HasShape(aead, r.ctx, a, e + n)
      BY <1>2, <2>2, <2>3 DEF HasShape, SymbolsOf
    <2>. QED BY <1>2, <2>2, <2>5, <2>6, Zenon
  <1>3. CASE aead = "chacha"
    <2>1. ChaShape(c, a, e) /\ r = ChaSeal(c, in)
      BY <1>3 DEF HasShape, EncUpdate
    <2>2. /\ ChaShape(r.ctx, a, e + n) /\ IsList(r.out, n)
          /\ Grows(Elements(c.poly1305), Elements(r.ctx.poly1305), Authentics(r.out, n))
          /\ \A i \in 1..n : SealsByte(r.out[i], in[i])
      BY <2>1, ChaSealAdds
    <2>3. PICK S, T, o : S = Elements(c.poly1305) /\ T = Elements(r.ctx.poly1305) /\ o = r.out
      OBVIOUS
    <2>4. PICK g : g = [i \in 1..n |-> Authentic(o[i])]
      OBVIOUS
    <2>5. Authentics(o, n) = {g[i] : i \in 1..n}
      BY <2>4 DEF Authentics
    <2>6. Follows(S, T, g, n)
      <3>1. Grows(S, T, {g[i] : i \in 1..n})
        BY <2>2, <2>3, <2>5, Zenon
      <3>. QED BY <3>1, GrowsFollows
    <2>7. Authenticated(g, in, n)
      <3>1. \A i \in 1..n : g[i] = Authentic(o[i])
        BY <2>4, Zenon
      <3>. QED BY <2>2, <2>3, <3>1, Zenon DEF Authenticated
    <2>8. Sealed("chacha", S, T, in, n)
      <3>1. \E x : Follows(S, T, x, n) /\ Authenticated(x, in, n)
        BY <2>6, <2>7, Zenon
      <3>. QED BY <3>1 DEF Sealed
    <2>9. SymbolsOf(aead, c) = S /\ SymbolsOf(aead, r.ctx) = T /\ HasShape(aead, r.ctx, a, e + n)
      BY <1>3, <2>2, <2>3 DEF HasShape, SymbolsOf
    <2>. QED BY <1>3, <2>2, <2>8, <2>9, Zenon
  <1>4. CASE aead = "ascon"
    <2>1. AsconShape(c) /\ r = Bytewise(AsconSealByte, c, in)
      BY <1>4 DEF HasShape, EncUpdate
    <2>2. PICK C, O : Runs("ascon-seal", c, in, C, O)
      BY <1>1, Calls, LoopRuns, Zenon
    <2>3. r.ctx = C[n] /\ r.out = Front(O, n)
      <3>1. PICK x, y : x = C[n] /\ y = Front(O, n)
        OBVIOUS
      <3>2. r = [ctx |-> x, out |-> y]
        BY <1>1, <2>1, <2>2, <3>1, AsconSealLoop, Zenon
      <3>. QED BY <3>1, <3>2
    <2>4. PICK g : g = [i \in 1..n |-> AsconAdds("ascon-seal", in[i], O[i])]
      OBVIOUS
    <2>5. /\ AsconShape(C[n]) /\ Follows(Symbols(c.state), Symbols(C[n].state), g, n)
          /\ \A i \in 1..n : AsconSealed("ascon-seal", O[i], in[i])
      <3>1. "ascon-seal" \in {"ascon-seal", "ascon-open"}
        OBVIOUS
      <3>. QED BY <1>1, <2>1, <2>2, <2>4, <3>1, AsconCallMixes, Zenon
    <2>6. Follows(Symbols(c.state), Symbols(C[n].state), in, n)
      <3>1. \A i \in 1..n : g[i] = in[i]
        BY <2>4 DEF AsconAdds
      <3>2. PICK S, T : S = Symbols(c.state) /\ T = Symbols(C[n].state)
        OBVIOUS
      <3>3. Follows(S, T, g, n)
        BY <2>5, <3>2, Zenon
      <3>4. Follows(S, T, in, n)
        BY <3>1, <3>3, SameFollows
      <3>. QED BY <3>2, <3>4, Zenon
    <2>7. \A i \in 1..n : SealsByte(r.out[i], in[i])
      <3>1. \A i \in 1..n : r.out[i] = O[i]
        BY <2>3, Zenon DEF Front
      <3>2. \A i \in 1..n : SealsByte(O[i], in[i])
        BY <2>5 DEF AsconSealed
      <3>. QED BY <3>1, <3>2, Zenon
    <2>8. IsList(r.out, n)
      <3>1. IsList(Front(O, n), n)
        BY <1>1, Lists, Zenon
      <3>. QED BY <2>3, <3>1, Zenon
    <2>9. /\ HasShape(aead, r.ctx, a, e + n)
          /\ Sealed(aead, SymbolsOf(aead, c), SymbolsOf(aead, r.ctx), in, n)
      <3>1. PICK S, T, x : S = Symbols(c.state) /\ T = Symbols(x.state) /\ x = C[n]
        OBVIOUS
      <3>2. Sealed("ascon", S, T, in, n)
        <4>1. Follows(S, T, in, n)
          BY <2>6, <3>1, Zenon
        <4>. QED BY <4>1 DEF Sealed
      <3>3. SymbolsOf("ascon", c) = S /\ SymbolsOf("ascon", x) = T /\ HasShape("ascon", x, a, e + n)
        <4>1. AsconShape(x)
          BY <2>5, <3>1, Zenon
        <4>. QED BY <3>1, <4>1 DEF HasShape, SymbolsOf
      <3>. QED BY <1>4, <2>3, <3>1, <3>2, <3>3, Zenon
    <2>. QED BY <2>7, <2>8, <2>9, Zenon
  <1>. QED BY <1>2, <1>3, <1>4 DEF Algorithm

\* What opening the byte b adds.
Opens(alg, b, x) ==
  IF alg = "ascon" THEN x \in b.xor \/ Garbage(b, x) ELSE x = Authentic(b)

\* lc_aead_dec_update.
LEMMA OpenFollows ==
  ASSUME Rate, Algorithm(aead), NEW c, NEW a \in Nat, NEW e \in Nat, HasShape(aead, c, a, e),
         NEW in, NEW n, IsList(in, n), NEW r, r = DecUpdate(c, in)
  PROVE  /\ HasShape(aead, r.ctx, a, e + n) /\ IsList(r.out, n)
         /\ \E g : /\ Follows(SymbolsOf(aead, c), SymbolsOf(aead, r.ctx), g, n)
                   /\ \A i \in 1..n : Opens(aead, in[i], g[i])
  <1>1. Len(in) = n /\ n \in Nat
    BY Lists, Zenon DEF IsList
  <1>2. CASE aead = "gcm"
    <2>1. GcmShape(c, a, e) /\ r = GcmOpen(c, in)
      BY <1>2 DEF HasShape, DecUpdate
    <2>2. /\ GcmShape(r.ctx, a, e + n) /\ IsList(r.out, n)
          /\ AddsCt(Symbols(c.buf), Symbols(r.ctx.buf), in, n)
      BY <2>1, GcmOpenAdds
    <2>3. PICK S, T : S = Symbols(c.buf) /\ T = Symbols(r.ctx.buf)
      OBVIOUS
    <2>4. PICK g : MixedBy(S, T, g, n) /\ \A i \in 1..n : g[i] = Authentic(in[i])
      BY <2>2, <2>3, Zenon DEF AddsCt
    <2>5. Follows(S, T, g, n)
      BY <2>4, MixedFollows
    <2>6. \A i \in 1..n : Opens(aead, in[i], g[i])
      BY <1>2, <2>4 DEF Opens
    <2>7. SymbolsOf(aead, c) = S /\ SymbolsOf(aead, r.ctx) = T /\ HasShape(aead, r.ctx, a, e + n)
      BY <1>2, <2>2, <2>3 DEF HasShape, SymbolsOf
    <2>. QED BY <2>2, <2>5, <2>6, <2>7, Zenon
  <1>3. CASE aead = "chacha"
    <2>1. ChaShape(c, a, e) /\ r = ChaOpen(c, in)
      BY <1>3 DEF HasShape, DecUpdate
    <2>2. /\ ChaShape(r.ctx, a, e + n) /\ IsList(r.out, n)
          /\ Grows(Elements(c.poly1305), Elements(r.ctx.poly1305), Authentics(in, n))
      BY <2>1, ChaOpenAdds
    <2>3. PICK S, T : S = Elements(c.poly1305) /\ T = Elements(r.ctx.poly1305)
      OBVIOUS
    <2>4. PICK g : g = [i \in 1..n |-> Authentic(in[i])]
      OBVIOUS
    <2>5. Authentics(in, n) = {g[i] : i \in 1..n}
      BY <2>4 DEF Authentics
    <2>6. Follows(S, T, g, n)
      <3>1. Grows(S, T, {g[i] : i \in 1..n})
        BY <2>2, <2>3, <2>5, Zenon
      <3>. QED BY <3>1, GrowsFollows
    <2>7. \A i \in 1..n : Opens(aead, in[i], g[i])
      BY <1>3, <2>4 DEF Opens
    <2>8. SymbolsOf(aead, c) = S /\ SymbolsOf(aead, r.ctx) = T /\ HasShape(aead, r.ctx, a, e + n)
      BY <1>3, <2>2, <2>3 DEF HasShape, SymbolsOf
    <2>. QED BY <2>2, <2>6, <2>7, <2>8, Zenon
  <1>4. CASE aead = "ascon"
    <2>1. AsconShape(c) /\ r = Bytewise(AsconOpenByte, c, in)
      BY <1>4 DEF HasShape, DecUpdate
    <2>2. PICK C, O : Runs("ascon-open", c, in, C, O)
      BY <1>1, MoreCalls, LoopRuns, Zenon
    <2>3. r.ctx = C[n] /\ r.out = Front(O, n)
      <3>1. PICK x, y : x = C[n] /\ y = Front(O, n)
        OBVIOUS
      <3>2. r = [ctx |-> x, out |-> y]
        BY <1>1, <2>1, <2>2, <3>1, AsconOpenLoop, Zenon
      <3>. QED BY <3>1, <3>2
    <2>4. PICK g : g = [i \in 1..n |-> AsconAdds("ascon-open", in[i], O[i])]
      OBVIOUS
    <2>5. /\ AsconShape(C[n]) /\ Follows(Symbols(c.state), Symbols(C[n].state), g, n)
          /\ \A i \in 1..n : AsconOpened("ascon-open", O[i], in[i])
      <3>1. "ascon-open" \in {"ascon-seal", "ascon-open"}
        OBVIOUS
      <3>. QED BY <1>1, <2>1, <2>2, <2>4, <3>1, AsconCallMixes, Zenon
    <2>6. \A i \in 1..n : Opens(aead, in[i], g[i])
      <3>1. \A i \in 1..n : g[i] = O[i]
        BY <2>4 DEF AsconAdds
      <3>2. \A i \in 1..n : O[i] \in in[i].xor \/ Garbage(in[i], O[i])
        BY <2>5 DEF AsconOpened
      <3>. QED BY <1>4, <3>1, <3>2, Zenon DEF Opens
    <2>7. IsList(r.out, n)
      <3>1. IsList(Front(O, n), n)
        BY <1>1, Lists, Zenon
      <3>. QED BY <2>3, <3>1, Zenon
    <2>8. /\ HasShape(aead, r.ctx, a, e + n)
          /\ Follows(SymbolsOf(aead, c), SymbolsOf(aead, r.ctx), g, n)
      <3>1. PICK S, T, x : S = Symbols(c.state) /\ T = Symbols(x.state) /\ x = C[n]
        OBVIOUS
      <3>2. SymbolsOf("ascon", c) = S /\ SymbolsOf("ascon", x) = T /\ HasShape("ascon", x, a, e + n)
        <4>1. AsconShape(x)
          BY <2>5, <3>1, Zenon
        <4>. QED BY <3>1, <4>1 DEF HasShape, SymbolsOf
      <3>. QED BY <1>4, <2>3, <2>5, <3>1, <3>2, Zenon
    <2>. QED BY <2>6, <2>7, <2>8, Zenon
  <1>. QED BY <1>2, <1>3, <1>4 DEF Algorithm

\* lc_aead_setkey.
LEMMA SetKeyShape ==
  ASSUME Algorithm(aead), NEW c, NEW v, NEW r, r = SetKey(c, v)
  PROVE  HasShape(aead, r, 0, 0) /\ \A x \in SymbolsOf(aead, r) : \E y : x = <<"init", y>>
  <1>1. CASE aead = "gcm"
    <2>1. r = GcmSetIv(c, v)
      BY <1>1 DEF SetKey
    <2>2. PICK s : s = EmptyState
      OBVIOUS
    <2>3. r = [buf |-> s, y |-> v, base |-> v, aad_len |-> 0, len |-> 0,
               rem_aad_inserted |-> FALSE]
      BY <2>1, <2>2, Zenon DEF GcmSetIv
    <2>4. r.buf = s /\ IsSponge(s) /\ Symbols(s) = {}
      <3>1. r.buf = s
        BY <2>3
      <3>. QED BY <2>2, <3>1, EmptyHolds, Zenon
    <2>5. GcmShape(r, 0, 0)
      BY <2>3, <2>4, Zenon DEF GcmShape
    <2>. QED BY <1>1, <2>4, <2>5 DEF HasShape, SymbolsOf
  <1>2. CASE aead = "chacha"
    <2>1. r = ChaSetIv(c, v)
      BY <1>2 DEF SetKey
    <2>2. r = [key |-> v, counter |-> 1, keystream_ptr |-> 0, poly1305 |-> <<>>,
               aadlen |-> 0, datalen |-> 0]
      BY <2>1, Zenon DEF ChaSetIv
    <2>3. r.poly1305 = <<>>
      BY <2>2
    <2>4. IsList(<<>>, 0) /\ Elements(<<>>) = {}
      BY DEF IsList, Elements
    <2>5. ChaForm(r, r.poly1305, 0, 0)
      BY <2>2, <2>3, Zenon DEF ChaForm
    <2>6. ChaShape(r, 0, 0)
      BY <2>3, <2>4, <2>5, Zenon DEF ChaShape
    <2>. QED BY <1>2, <2>3, <2>4, <2>6 DEF HasShape, SymbolsOf
  <1>3. CASE aead = "ascon"
    <2>1. r = AsconSetIv(c, v)
      BY <1>3 DEF SetKey
    <2>2. PICK q : q = << <<"init", v>> >>
      OBVIOUS
    <2>3. PICK s : s = Xor(EmptyState, 0, q)
      OBVIOUS
    <2>4. Elements(q) = {<<"init", v>>}
      BY <2>2 DEF Elements
    <2>5. IsSponge(s) /\ Symbols(s) \subseteq {<<"init", v>>}
      <3>1. \A at, in : /\ IsSponge(Xor(EmptyState, at, in))
                        /\ Mixes(Symbols(EmptyState), Symbols(Xor(EmptyState, at, in)), Elements(in))
        BY EmptyHolds, XorMixes, Zenon
      <3>. QED BY <2>3, <2>4, <3>1, EmptyHolds, Zenon DEF Mixes
    <2>6. IsSponge(Permute(s)) /\ Symbols(Permute(s)) = Symbols(s)
      BY <2>5, PermuteKeeps, Zenon
    <2>7. r = [state |-> Permute(s), rate_offset |-> 0]
      BY <2>1, <2>2, <2>3, Zenon DEF AsconSetIv
    <2>8. r.state = Permute(s)
      BY <2>7
    <2>9. AsconShape(r)
      BY <2>6, <2>7, Zenon DEF AsconShape
    <2>10. \A x \in Symbols(r.state) : \E y : x = <<"init", y>>
      BY <2>5, <2>6, <2>8, Zenon
    <2>. QED BY <1>3, <2>9, <2>10 DEF HasShape, SymbolsOf
  <1>. QED BY <1>1, <1>2, <1>3 DEF Algorithm

-----------------------------------------------------------------------------
(* The tags.                                                               *)

\* The block of lengths that GCM and ChaCha20-Poly1305 add at the end.
LengthSymbol(x) == (\E a, e : x = <<"lengths", a, e>>) \/ \E a : x = <<"length", a>>

\* gcm_enc_final.
GcmTagIs(c, a, e, T) ==
  /\ GcmTag(c) = <<"gcm", c.base, T>>
  /\ a = 0 /\ e = 0 => Symbols(T) = {}
  /\ a # 0 \/ e # 0 => Mixes(Symbols(c.buf), Symbols(T), {<<"lengths", a, e>>})

\* The tag holds the lengths and what was hashed.
LEMMA GcmTags ==
  ASSUME NEW c, NEW a, NEW e, GcmShape(c, a, e)
  PROVE  \E T : GcmTagIs(c, a, e, T)
  <1>1. IsSponge(c.buf) /\ c.aad_len = a /\ c.len = e
    BY DEF GcmShape
  <1>2. CASE e = 0 /\ a = 0
    <2>1. GcmTag(c) = <<"gcm", c.base, EmptyState>>
      BY <1>1, <1>2, Zenon DEF GcmTag
    <2>. QED BY <1>2, <2>1, EmptyHolds, Zenon DEF GcmTagIs
  <1>3. CASE ~ (e = 0 /\ a = 0)
    <2>1. PICK s : s = IF c.len % R = 0 THEN c.buf ELSE Permute(c.buf)
      OBVIOUS
    <2>2. IsSponge(s) /\ Symbols(s) = Symbols(c.buf)
      BY <1>1, <2>1, PermuteKeeps, Zenon
    <2>3. PICK l : l = <<"lengths", a, e>>
      OBVIOUS
    <2>4. PICK t : t = Xor(s, 0, <<l>>)
      OBVIOUS
    <2>5. IsSponge(t) /\ Mixes(Symbols(c.buf), Symbols(t), {l})
      <3>1. Elements(<<l>>) = {l}
        BY DEF Elements
      <3>2. \A in : /\ IsSponge(Xor(s, 0, in))
                    /\ Mixes(Symbols(s), Symbols(Xor(s, 0, in)), Elements(in))
        BY <2>2, XorMixes, Zenon
      <3>. QED BY <2>2, <2>4, <3>1, <3>2, Zenon
    <2>6. GcmTag(c) = <<"gcm", c.base, Permute(t)>>
      BY <1>1, <1>3, <2>1, <2>3, <2>4, Zenon DEF GcmTag
    <2>7. Symbols(Permute(t)) = Symbols(t)
      BY <2>5, PermuteKeeps, Zenon
    <2>. QED BY <1>3, <2>3, <2>5, <2>6, <2>7, Zenon DEF GcmTagIs
  <1>. QED BY <1>2, <1>3

\* lc_chacha20_poly1305_enc_final.
ChaTagIs(c, a, e, s, l) ==
  /\ ChaTag(c) = <<"chacha", c.key, s>>
  /\ IsList(s, l + 2) /\ s[l + 1] = <<"length", a>> /\ s[l + 2] = <<"length", e>>
  /\ \A x : ~ Padding(x) /\ ~ LengthSymbol(x) => (x \in Elements(c.poly1305) <=> x \in Elements(s))

\* Likewise.
LEMMA ChaTags ==
  ASSUME Rate, NEW c, NEW a, NEW e \in Nat, ChaShape(c, a, e)
  PROVE  \E s : \E l \in Nat : ChaTagIs(c, a, e, s, l)
  <1>1. c.aadlen = a /\ c.datalen = e
    BY DEF ChaShape, ChaForm
  <1>2. PICK p, n : p = c.poly1305 /\ IsList(p, n)
    BY Zenon DEF ChaShape
  <1>3. PICK m \in Nat : m = R - (e % R)
    BY DEF Rate
  <1>4. PICK z : z = Zeros(m)
    OBVIOUS
  <1>5. IsList(z, m) /\ \A i \in 1..m : z[i] = <<"zero">>
    BY <1>3, <1>4 DEF IsList, Zeros
  <1>6. PICK w : w = << <<"length", a>>, <<"length", e>> >>
    OBVIOUS
  <1>7. IsList(w, 2) /\ w[1] = <<"length", a>> /\ w[2] = <<"length", e>>
    BY <1>6 DEF IsList
  <1>8. PICK h : h = p \o z
    OBVIOUS
  <1>9. IsList(h, n + m) /\ Elements(h) = Elements(p) \union Elements(z)
    BY <1>2, <1>5, <1>8, JoinLists, Zenon
  <1>10. PICK l \in Nat : l = n + m
    BY <1>2, <1>3 DEF IsList
  <1>11. PICK s : s = h \o w
    OBVIOUS
  <1>12. /\ IsList(s, l + 2) /\ \A i \in 1..2 : s[l + i] = w[i]
         /\ Elements(s) = Elements(h) \union Elements(w)
    <2>1. IsList(h, l)
      BY <1>9, <1>10, Zenon
    <2>2. PICK k : k = 2
      OBVIOUS
    <2>3. IsList(w, k)
      BY <1>7, <2>2, Zenon
    <2>4. /\ IsList(h \o w, l + k) /\ Joined(h, l, w, k, h \o w)
          /\ Elements(h \o w) = Elements(h) \union Elements(w)
      BY <2>1, <2>3, JoinLists, Zenon
    <2>. QED BY <1>11, <2>2, <2>4, Zenon DEF Joined
  <1>13. s[l + 1] = <<"length", a>> /\ s[l + 2] = <<"length", e>>
    BY <1>7, <1>12
  <1>14. ChaTag(c) = <<"chacha", c.key, s>>
    <2>1. ChaTag(c) = <<"chacha", c.key, (c.poly1305 \o Zeros(R - (c.datalen % R)))
                          \o << <<"length", c.aadlen>>, <<"length", c.datalen>> >> >>
      BY Zenon DEF ChaTag
    <2>2. Zeros(R - (c.datalen % R)) = z
      BY <1>1, <1>3, <1>4, Zenon
    <2>. QED BY <1>1, <1>2, <1>6, <1>8, <1>11, <2>1, <2>2, Zenon
  <1>15. ASSUME NEW x, ~ Padding(x), ~ LengthSymbol(x)
         PROVE  x \in Elements(p) <=> x \in Elements(s)
    <2>1. x \notin Elements(z)
      <3>1. Len(z) = m
        BY <1>5, Lists, Zenon
      <3>. QED BY <1>5, <1>15, <3>1, Zenon DEF Elements, Padding
    <2>2. x \notin Elements(w)
      <3>1. Len(w) = 2 /\ \A i \in 1..2 : i = 1 \/ i = 2
        BY <1>6
      <3>. QED BY <1>7, <1>15, <3>1, Zenon DEF Elements, LengthSymbol
    <2>. QED BY <1>9, <1>12, <2>1, <2>2, Zenon
  <1>. QED BY <1>2, <1>12, <1>13, <1>14, <1>15, Zenon DEF ChaTagIs

\* lc_ascon_enc_final.
LEMMA AsconTags ==
  ASSUME NEW c, AsconShape(c)
  PROVE  \E T : AsconTag(c) = <<"ascon", T>> /\ Mixes(Symbols(c.state), Symbols(T), {<<"pad">>})
  <1>1. PICK s, o : IsSponge(s) /\ c = [state |-> s, rate_offset |-> o]
    BY Zenon DEF AsconShape
  <1>2. PICK d : d = AsconTurn(c)
    OBVIOUS
  <1>3. PICK u, q : u = d.state /\ q = d.rate_offset
    OBVIOUS
  <1>4. IsSponge(u) /\ Symbols(u) = Symbols(c.state)
    <2>1. c.state = s
      BY <1>1
    <2>2. CASE c.rate_offset = R
      <3>1. d = [state |-> Permute(s), rate_offset |-> 0]
        BY <1>2, <2>1, <2>2, Zenon DEF AsconTurn
      <3>2. u = Permute(s)
        BY <1>3, <3>1
      <3>. QED BY <1>1, <2>1, <3>2, PermuteKeeps, Zenon
    <2>3. CASE c.rate_offset # R
      <3>1. d = c
        BY <1>2, <2>3, Zenon DEF AsconTurn
      <3>. QED BY <1>1, <1>3, <2>1, <3>1, Zenon
    <2>. QED BY <2>2, <2>3
  <1>5. PICK p : p = << <<"pad">> >>
    OBVIOUS
  <1>6. Elements(p) = {<<"pad">>}
    BY <1>5 DEF Elements
  <1>7. PICK t : t = Xor(u, q, p)
    OBVIOUS
  <1>8. IsSponge(t) /\ Mixes(Symbols(u), Symbols(t), {<<"pad">>})
    <2>1. \A at, in : /\ IsSponge(Xor(u, at, in))
                      /\ Mixes(Symbols(u), Symbols(Xor(u, at, in)), Elements(in))
      BY <1>4, XorMixes, Zenon
    <2>. QED BY <1>6, <1>7, <2>1, Zenon
  <1>9. Symbols(Permute(t)) = Symbols(t)
    BY <1>8, PermuteKeeps, Zenon
  <1>10. AsconTag(c) = <<"ascon", Permute(t)>>
    BY <1>2, <1>3, <1>5, <1>7, Zenon DEF AsconTag
  <1>. QED BY <1>4, <1>8, <1>9, <1>10, Zenon

\* None of the symbols is a length.
NoLengths(S) == \A x \in S : ~ LengthSymbol(x)

\* Two tags that are the same.
LEMMA SameGcmTags ==
  ASSUME NEW c, NEW a \in Nat, NEW e \in Nat, GcmShape(c, a, e), NoLengths(Symbols(c.buf)),
         NEW d, NEW b \in Nat, NEW f \in Nat, GcmShape(d, b, f), NoLengths(Symbols(d.buf)),
         GcmTag(c) = GcmTag(d)
  PROVE  /\ a = b /\ e = f
         /\ \A x : ~ LengthSymbol(x) /\ e # 0 => (x \in Symbols(c.buf) <=> x \in Symbols(d.buf))
  <1>1. PICK T : GcmTagIs(c, a, e, T)
    BY GcmTags, Zenon
  <1>2. PICK U : GcmTagIs(d, b, f, U)
    BY GcmTags, Zenon
  <1>3. T = U
    <2>1. PICK v, w : v = c.base /\ w = d.base
      OBVIOUS
    <2>2. <<"gcm", v, T>> = <<"gcm", w, U>>
      BY <1>1, <1>2, <2>1, Zenon DEF GcmTagIs
    <2>. QED BY <2>2
  <1>4. PICK S : S = Symbols(T)
    OBVIOUS
  <1>5. ASSUME NEW z, NEW x, NEW y, GcmShape(z, x, y), NoLengths(Symbols(z.buf)),
               GcmTagIs(z, x, y, T), NEW i, NEW k
        PROVE  <<"lengths", i, k>> \in S <=> (x # 0 \/ y # 0) /\ i = x /\ k = y
    <2>1. PICK l, m : l = <<"lengths", i, k>> /\ m = <<"lengths", x, y>>
      OBVIOUS
    <2>2. l \notin Symbols(z.buf)
      BY <1>5, <2>1, Zenon DEF NoLengths, LengthSymbol
    <2>3. m \notin Symbols(z.buf)
      BY <1>5, <2>1, Zenon DEF NoLengths, LengthSymbol
    <2>4. l = m <=> i = x /\ k = y
      BY <2>1
    <2>5. x = 0 /\ y = 0 => S = {}
      BY <1>4, <1>5, Zenon DEF GcmTagIs
    <2>6. x # 0 \/ y # 0 => Mixes(Symbols(z.buf), S, {m})
      BY <1>4, <1>5, <2>1, Zenon DEF GcmTagIs
    <2>7. x # 0 \/ y # 0 => (l \in S <=> l = m)
      BY <2>2, <2>3, <2>6, Zenon DEF Mixes
    <2>. QED BY <2>1, <2>4, <2>5, <2>7, Zenon
  <1>6. \A i, k : <<"lengths", i, k>> \in S <=> (a # 0 \/ e # 0) /\ i = a /\ k = e
    BY <1>1, <1>5, Zenon
  <1>7. \A i, k : <<"lengths", i, k>> \in S <=> (b # 0 \/ f # 0) /\ i = b /\ k = f
    BY <1>2, <1>3, <1>5, Zenon
  <1>8. a = b /\ e = f
    <2>1. CASE a # 0 \/ e # 0
      BY <1>6, <1>7, <2>1, Zenon
    <2>2. CASE b # 0 \/ f # 0
      BY <1>6, <1>7, <2>2, Zenon
    <2>. QED BY <2>1, <2>2
  <1>9. ASSUME NEW x, ~ LengthSymbol(x), e # 0
        PROVE  x \in Symbols(c.buf) <=> x \in Symbols(d.buf)
    <2>1. f # 0
      BY <1>8, <1>9
    <2>2. /\ Mixes(Symbols(c.buf), S, {<<"lengths", a, e>>})
          /\ Mixes(Symbols(d.buf), S, {<<"lengths", b, f>>})
      BY <1>1, <1>2, <1>3, <1>4, <1>9, <2>1, Zenon DEF GcmTagIs
    <2>3. x # <<"lengths", a, e>> /\ x # <<"lengths", b, f>>
      BY <1>9, Zenon DEF LengthSymbol
    <2>. QED BY <2>2, <2>3, Zenon DEF Mixes
  <1>. QED BY <1>8, <1>9, Zenon

\* Likewise for ChaCha20-Poly1305.
LEMMA SameChaTags ==
  ASSUME Rate, NEW c, NEW a \in Nat, NEW e \in Nat, ChaShape(c, a, e),
         NEW d, NEW b \in Nat, NEW f \in Nat, ChaShape(d, b, f), ChaTag(c) = ChaTag(d)
  PROVE  /\ a = b /\ e = f
         /\ \A x : ~ Padding(x) /\ ~ LengthSymbol(x) =>
              (x \in Elements(c.poly1305) <=> x \in Elements(d.poly1305))
  <1>1. PICK s : \E l \in Nat : ChaTagIs(c, a, e, s, l)
    BY ChaTags, Zenon
  <1>2. PICK l \in Nat : ChaTagIs(c, a, e, s, l)
    BY <1>1
  <1>3. PICK t : \E m \in Nat : ChaTagIs(d, b, f, t, m)
    BY ChaTags, Zenon
  <1>4. PICK m \in Nat : ChaTagIs(d, b, f, t, m)
    BY <1>3
  <1>5. s = t
    <2>1. PICK v, w : v = c.key /\ w = d.key
      OBVIOUS
    <2>2. <<"chacha", v, s>> = <<"chacha", w, t>>
      BY <1>2, <1>4, <2>1, Zenon DEF ChaTagIs
    <2>. QED BY <2>2
  <1>6. l = m
    <2>1. Len(s) = l + 2 /\ Len(t) = m + 2
      BY <1>2, <1>4, Lists, Zenon DEF ChaTagIs
    <2>. QED BY <1>5, <2>1
  <1>7. <<"length", a>> = <<"length", b>> /\ <<"length", e>> = <<"length", f>>
    BY <1>2, <1>4, <1>5, <1>6, Zenon DEF ChaTagIs
  <1>8. a = b /\ e = f
    BY <1>7
  <1>9. ASSUME NEW x, ~ Padding(x), ~ LengthSymbol(x)
        PROVE  x \in Elements(c.poly1305) <=> x \in Elements(d.poly1305)
    BY <1>2, <1>4, <1>5, <1>9, Zenon DEF ChaTagIs
  <1>. QED BY <1>8, <1>9, Zenon

\* Likewise for Ascon.
LEMMA SameAsconTags ==
  ASSUME NEW c, AsconShape(c), NEW d, AsconShape(d), AsconTag(c) = AsconTag(d)
  PROVE  \A x : ~ Padding(x) => (x \in Symbols(c.state) <=> x \in Symbols(d.state))
  <1>1. PICK T : AsconTag(c) = <<"ascon", T>> /\ Mixes(Symbols(c.state), Symbols(T), {<<"pad">>})
    BY AsconTags, Zenon
  <1>2. PICK U : AsconTag(d) = <<"ascon", U>> /\ Mixes(Symbols(d.state), Symbols(U), {<<"pad">>})
    BY AsconTags, Zenon
  <1>3. T = U
    <2>1. <<"ascon", T>> = <<"ascon", U>>
      BY <1>1, <1>2, Zenon
    <2>. QED BY <2>1
  <1>4. ASSUME NEW x, ~ Padding(x) PROVE x # <<"pad">>
    BY <1>4, Zenon DEF Padding
  <1>. QED BY <1>1, <1>2, <1>3, <1>4, Zenon DEF Mixes

\* Whatever the algorithm.
LEMMA SameTags ==
  ASSUME Rate, NEW alg, Algorithm(alg),
         NEW c, NEW a \in Nat, NEW e \in Nat, HasShape(alg, c, a, e), NoLengths(SymbolsOf(alg, c)),
         NEW d, NEW b \in Nat, NEW f \in Nat, HasShape(alg, d, b, f), NoLengths(SymbolsOf(alg, d)),
         TagOf(alg, c) = TagOf(alg, d)
  PROVE  /\ alg # "ascon" => a = b /\ e = f
         /\ \A x : ~ Padding(x) /\ ~ LengthSymbol(x) /\ (alg = "ascon" \/ e # 0) =>
              (x \in SymbolsOf(alg, c) <=> x \in SymbolsOf(alg, d))
  <1>1. CASE alg = "gcm"
    <2>1. /\ GcmShape(c, a, e) /\ GcmShape(d, b, f) /\ GcmTag(c) = GcmTag(d)
          /\ SymbolsOf(alg, c) = Symbols(c.buf) /\ SymbolsOf(alg, d) = Symbols(d.buf)
      BY <1>1 DEF HasShape, SymbolsOf, TagOf
    <2>2. NoLengths(Symbols(c.buf)) /\ NoLengths(Symbols(d.buf))
      BY <2>1, Zenon
    <2>3. /\ a = b /\ e = f
          /\ \A x : ~ LengthSymbol(x) /\ e # 0 => (x \in Symbols(c.buf) <=> x \in Symbols(d.buf))
      BY <2>1, <2>2, SameGcmTags
    <2>. QED BY <1>1, <2>1, <2>3
  <1>2. CASE alg = "chacha"
    <2>1. /\ ChaShape(c, a, e) /\ ChaShape(d, b, f) /\ ChaTag(c) = ChaTag(d)
          /\ SymbolsOf(alg, c) = Elements(c.poly1305) /\ SymbolsOf(alg, d) = Elements(d.poly1305)
      BY <1>2 DEF HasShape, SymbolsOf, TagOf
    <2>2. /\ a = b /\ e = f
          /\ \A x : ~ Padding(x) /\ ~ LengthSymbol(x) =>
               (x \in Elements(c.poly1305) <=> x \in Elements(d.poly1305))
      BY <2>1, SameChaTags
    <2>. QED BY <2>1, <2>2, Zenon
  <1>3. CASE alg = "ascon"
    <2>1. /\ AsconShape(c) /\ AsconShape(d) /\ AsconTag(c) = AsconTag(d)
          /\ SymbolsOf(alg, c) = Symbols(c.state) /\ SymbolsOf(alg, d) = Symbols(d.state)
      BY <1>3 DEF HasShape, SymbolsOf, TagOf
    <2>2. \A x : ~ Padding(x) => (x \in Symbols(c.state) <=> x \in Symbols(d.state))
      BY <2>1, SameAsconTags
    <2>. QED BY <1>3, <2>1, <2>2, Zenon
  <1>. QED BY <1>1, <1>2, <1>3 DEF Algorithm

-----------------------------------------------------------------------------
(* Which symbols are which.                                                *)

\* A byte that was changed on its way.
Alter(i) == [Nought EXCEPT !.at = i]

\* Symbols that are never mixed in while a message is sealed.
Foreign(x) ==
  LengthSymbol(x) \/ x = <<"other">> \/ \E i \in Nat : i # 0 /\ x = Authentic(Alter(i))

\* The kinds of symbols are different.
LEMMA Kinds ==
  /\ \A x : Foreign(x) => ~ Padding(x)
  /\ \A x : LengthSymbol(x) => ~ Padding(x) /\ x # <<"other">>
  /\ \A y : ~ Foreign(<<"aad", y>>) /\ ~ Foreign(<<"init", y>>) /\ ~ Foreign(Plain(y))
  /\ \A y, z : Plain(y) # <<"aad", z>> /\ Plain(y) # <<"init", z>> /\ Plain(y) # Authentic(z)
  /\ \A y : ~ Padding(Plain(y)) /\ ~ LengthSymbol(Plain(y)) /\ Plain(y) # <<"other">>
  /\ \A y, z : Plain(y) = Plain(z) => y = z
  /\ \A y : ~ LengthSymbol(Authentic(y)) /\ ~ Padding(Authentic(y)) /\ Authentic(y) # <<"other">>
  /\ \A y, z : Authentic(y) = Authentic(z) => y = z
  /\ \A y, z : Authentic(y) # <<"aad", z>> /\ Authentic(y) # <<"init", z>>
  /\ \A y : <<"other">> # <<"aad", y>> /\ <<"other">> # <<"init", y>>
  /\ \A b, x : Garbage(b, x) => ~ LengthSymbol(x) /\ x # <<"other">> /\ \A y : x # Plain(y)
  <1>1. /\ \A y : Plain(y) = <<"pt", y>> /\ Authentic(y) = <<"ct", y>>
        /\ \A x : Padding(x) <=> x = <<"zero">> \/ x = <<"pad">> \/ x = <<"trail">>
        /\ \A x : LengthSymbol(x) <=>
             (\E a, e : x = <<"lengths", a, e>>) \/ \E a : x = <<"length", a>>
        /\ \A b, x : Garbage(b, x) <=> \E k : x = <<"garbage", b, k>>
        /\ \A x : Foreign(x) <=> LengthSymbol(x) \/ x = <<"other">>
                                 \/ \E i \in Nat : i # 0 /\ x = Authentic(Alter(i))
    BY Zenon DEF Plain, Authentic, Padding, LengthSymbol, Garbage, Foreign
  <1>2. \A x : LengthSymbol(x) => ~ Padding(x) /\ x # <<"other">>
    BY <1>1
  <1>3. \A y : ~ LengthSymbol(<<"aad", y>>) /\ ~ LengthSymbol(<<"init", y>>) /\ ~ LengthSymbol(Plain(y))
    BY <1>1
  <1>4. \A y, z : Plain(y) # <<"aad", z>> /\ Plain(y) # <<"init", z>> /\ Plain(y) # Authentic(z)
    BY <1>1
  <1>5. \A y : ~ Padding(Plain(y)) /\ ~ LengthSymbol(Plain(y)) /\ Plain(y) # <<"other">>
    BY <1>1
  <1>6. \A y, z : Plain(y) = Plain(z) => y = z
    BY <1>1
  <1>7. \A y : ~ LengthSymbol(Authentic(y)) /\ ~ Padding(Authentic(y)) /\ Authentic(y) # <<"other">>
    BY <1>1
  <1>8. \A y, z : Authentic(y) = Authentic(z) => y = z
    BY <1>1
  <1>9. \A y, z : Authentic(y) # <<"aad", z>> /\ Authentic(y) # <<"init", z>>
    BY <1>1
  <1>10. \A y : <<"other">> # <<"aad", y>> /\ <<"other">> # <<"init", y>>
    OBVIOUS
  <1>11. \A b, x : Garbage(b, x) => ~ LengthSymbol(x) /\ x # <<"other">> /\ \A y : x # Plain(y)
    BY <1>1
  <1>12. ~ Padding(<<"other">>)
    BY <1>1
  <1>13. \A x : Foreign(x) => ~ Padding(x)
    BY <1>1, <1>2, <1>7, <1>12, Zenon
  <1>14. \A y : ~ Foreign(<<"aad", y>>) /\ ~ Foreign(<<"init", y>>) /\ ~ Foreign(Plain(y))
    <2>1. ASSUME NEW y PROVE ~ Foreign(<<"aad", y>>)
      BY <1>1, <1>3, <1>9, <1>10, Zenon
    <2>2. ASSUME NEW y PROVE ~ Foreign(<<"init", y>>)
      BY <1>1, <1>3, <1>9, <1>10, Zenon
    <2>3. ASSUME NEW y PROVE ~ Foreign(Plain(y))
      BY <1>1, <1>4, <1>5, Zenon
    <2>. QED BY <2>1, <2>2, <2>3, Zenon
  <1>. QED BY <1>2, <1>4, <1>5, <1>6, <1>7, <1>8, <1>9, <1>10, <1>11, <1>13, <1>14, Zenon

\* What a byte of the ciphertext holds.
LEMMA SealedBytes ==
  ASSUME NEW b, NEW p, SealsByte(b, p)
  PROVE  b.xor \subseteq {p} /\ \A i \in Nat : i # 0 => b # Alter(i)
  <1>1. \A q, k : Cover(q, k, p).xor = {p}
    BY DEF Cover
  <1>2. Nought.xor = {} /\ Nought.at = 0
    BY DEF Nought
  <1>3. \A i \in Nat : Alter(i).at = i /\ Alter(i).xor = {}
    BY DEF Alter, Nought
  <1>4. b.xor = {p} \/ (b.xor = {} /\ b.at = 0)
    BY <1>1, <1>2, Zenon DEF SealsByte
  <1>. QED BY <1>3, <1>4, Zenon

-----------------------------------------------------------------------------
(* A message that was changed.                                             *)

\* The context that seals, after a bytes of additional data and d of data.
SealedAs(alg, c, a, d) ==
  /\ HasShape(alg, c, a, d)
  /\ \A x \in SymbolsOf(alg, c) : ~ Foreign(x)
  /\ alg = "ascon" => \A i \in Nat : Plain(i) \in SymbolsOf(alg, c) <=> i \in 1..d

\* Its ciphertext.
CtIs(ct, d) == IsList(ct, d) /\ \A i \in 1..d : SealsByte(ct[i], Plain(i))

\* The symbol x is mixed in by byte p of the additional data that arrive or
\* by byte q of the ciphertext, if there is such a byte, and by no other.
MarkAt(alg, w, A, D, x, p, q) ==
  /\ p \in Nat /\ q \in Nat /\ (p = 0 <=> q # 0)
  /\ ~ Padding(x) /\ \A y : x # <<"init", y>>
  /\ \A j \in 1..A : w.aad[j] = x <=> j = p
  /\ \A j \in 1..D : \A y : Opens(alg, w.ct[j], y) => (y = x <=> j = q)

\* What arrives, A and D bytes, holds no length.
Fair(alg, w, A, D) ==
  /\ IsList(w.aad, A) /\ IsList(w.ct, D)
  /\ \A j \in 1..A : ~ LengthSymbol(w.aad[j])
  /\ \A j \in 1..D : \A y : Opens(alg, w.ct[j], y) => ~ LengthSymbol(y)

\* The lengths or a mark tell it from what was sealed, a and d bytes.
Telling(alg, d, A, D, x, p, q) ==
  \/ (alg = "ascon" \/ D # 0) /\ Foreign(x) /\ p <= A /\ q <= D
  \/ alg = "ascon" /\ p > A /\ \E k \in 1..d : x = Plain(k)

Tells(alg, w, a, d, A, D) ==
  \/ alg # "ascon" /\ (A # a \/ D # d)
  \/ \E x, p, q : /\ MarkAt(alg, w, A, D, x, p, q) /\ ~ LengthSymbol(x)
                  /\ Telling(alg, d, A, D, x, p, q)

\* The context that opens it, after b and e bytes.
OpenedAs(alg, c, w, A, D, b, e) ==
  /\ b \in Nat /\ b <= A /\ e \in Nat /\ e <= D
  /\ HasShape(alg, c, b, e) /\ NoLengths(SymbolsOf(alg, c))
  /\ \A x, p, q : MarkAt(alg, w, A, D, x, p, q) =>
                    (x \in SymbolsOf(alg, c) <=> p <= b /\ q <= e)

\* Setting up to seal and to open.
LEMMA SetUp ==
  ASSUME Algorithm(aead), NEW c, NEW v, NEW r, r = SetKey(c, v)
  PROVE  /\ SealedAs(aead, r, 0, 0)
         /\ \A w : \A A, D \in Nat : OpenedAs(aead, r, w, A, D, 0, 0)
  <1>1. HasShape(aead, r, 0, 0) /\ \A x \in SymbolsOf(aead, r) : \E y : x = <<"init", y>>
    BY SetKeyShape, Zenon
  <1>2. SealedAs(aead, r, 0, 0)
    <2>1. \A x \in SymbolsOf(aead, r) : ~ Foreign(x)
      BY <1>1, Kinds, Zenon
    <2>2. \A i : Plain(i) \notin SymbolsOf(aead, r)
      BY <1>1, Kinds, Zenon
    <2>3. \A i \in Nat : i \notin 1..0
      OBVIOUS
    <2>. QED BY <1>1, <2>1, <2>2, <2>3, Zenon DEF SealedAs
  <1>3. ASSUME NEW w, NEW A \in Nat, NEW D \in Nat PROVE OpenedAs(aead, r, w, A, D, 0, 0)
    <2>1. NoLengths(SymbolsOf(aead, r))
      <3>1. \A y : ~ LengthSymbol(<<"init", y>>)
        BY Kinds, Zenon DEF Foreign
      <3>. QED BY <1>1, <3>1, Zenon DEF NoLengths
    <2>2. ASSUME NEW x, NEW p, NEW q, MarkAt(aead, w, A, D, x, p, q)
          PROVE  x \in SymbolsOf(aead, r) <=> p <= 0 /\ q <= 0
      <3>1. p \in Nat /\ q \in Nat /\ (p = 0 <=> q # 0) /\ \A y : x # <<"init", y>>
        BY <2>2, Zenon DEF MarkAt
      <3>2. x \notin SymbolsOf(aead, r)
        BY <1>1, <3>1, Zenon
      <3>3. ~ (p <= 0 /\ q <= 0)
        BY <3>1
      <3>. QED BY <3>2, <3>3
    <2>3. 0 \in Nat /\ 0 <= A /\ 0 <= D
      OBVIOUS
    <2>. QED BY <1>1, <2>1, <2>2, <2>3, Zenon DEF OpenedAs
  <1>. QED BY <1>2, <1>3, Zenon

\* Pieces of what the caller gives are lists.
LEMMA PiecesAreLists ==
  ASSUME NEW d, NEW n \in Nat
  PROVE  /\ IsList(AadPiece(d, n), n) /\ IsList(PtPiece(d, n), n)
         /\ \A i \in 1..n : AadPiece(d, n)[i] = <<"aad", d + i>> /\ PtPiece(d, n)[i] = Plain(d + i)
  BY DEF IsList, AadPiece, PtPiece

\* Sealing goes on with additional data.
LEMMA SealedAad ==
  ASSUME Rate, Algorithm(aead), NEW c, NEW a \in Nat, NEW d \in Nat, SealedAs(aead, c, a, d),
         NEW n \in Nat, NEW r, r = AddAad(c, AadPiece(a, n))
  PROVE  SealedAs(aead, r, a + n, d)
  <1>1. PICK in : in = AadPiece(a, n)
    OBVIOUS
  <1>2. IsList(in, n) /\ \A i \in 1..n : \E y : in[i] = <<"aad", y>>
    BY <1>1, PiecesAreLists, Zenon
  <1>3. PICK S, T : S = SymbolsOf(aead, c) /\ T = SymbolsOf(aead, r)
    OBVIOUS
  <1>4. /\ HasShape(aead, c, a, d) /\ \A x \in S : ~ Foreign(x)
        /\ aead = "ascon" => \A i \in Nat : Plain(i) \in S <=> i \in 1..d
    BY <1>3, Zenon DEF SealedAs
  <1>5. HasShape(aead, r, a + n, d) /\ Follows(S, T, in, n)
    <2>1. r = AddAad(c, in)
      BY <1>1, Zenon
    <2>2. HasShape(aead, r, a + n, d) /\ Follows(SymbolsOf(aead, c), SymbolsOf(aead, r), in, n)
      BY <1>2, <1>4, <2>1, AadFollows, Zenon
    <2>. QED BY <1>3, <2>2, Zenon
  <1>6. ASSUME NEW x, ~ Padding(x), \A y : x # <<"aad", y>> PROVE x \in S <=> x \in T
    <2>1. Without(in, n, x)
      BY <1>2, <1>6, Zenon DEF Without
    <2>. QED BY <1>5, <1>6, <2>1, Zenon DEF Follows, Keeps
  <1>7. \A x \in T : ~ Foreign(x)
    <2>1. \A x : Foreign(x) => ~ Padding(x) /\ \A y : x # <<"aad", y>>
      BY Kinds, Zenon
    <2>. QED BY <1>4, <1>6, <2>1, Zenon
  <1>8. \A i : Plain(i) \in S <=> Plain(i) \in T
    BY <1>6, Kinds, Zenon
  <1>. QED BY <1>3, <1>4, <1>5, <1>7, <1>8, Zenon DEF SealedAs

\* Sealing goes on with data.
LEMMA SealedData ==
  ASSUME Rate, Algorithm(aead), NEW c, NEW a \in Nat, NEW d \in Nat, SealedAs(aead, c, a, d),
         NEW n \in Nat, NEW r, r = EncUpdate(c, PtPiece(d, n))
  PROVE  /\ SealedAs(aead, r.ctx, a, d + n) /\ IsList(r.out, n)
         /\ \A i \in 1..n : SealsByte(r.out[i], Plain(d + i))
  <1>1. PICK in : in = PtPiece(d, n)
    OBVIOUS
  <1>2. IsList(in, n) /\ \A i \in 1..n : in[i] = Plain(d + i)
    BY <1>1, PiecesAreLists, Zenon
  <1>3. PICK S, T : S = SymbolsOf(aead, c) /\ T = SymbolsOf(aead, r.ctx)
    OBVIOUS
  <1>4. /\ HasShape(aead, c, a, d) /\ \A x \in S : ~ Foreign(x)
        /\ aead = "ascon" => \A i \in Nat : Plain(i) \in S <=> i \in 1..d
    BY <1>3, Zenon DEF SealedAs
  <1>5. /\ HasShape(aead, r.ctx, a, d + n) /\ IsList(r.out, n)
        /\ Sealed(aead, S, T, in, n)
        /\ \A i \in 1..n : SealsByte(r.out[i], in[i])
    <2>1. r = EncUpdate(c, in)
      BY <1>1, Zenon
    <2>2. /\ HasShape(aead, r.ctx, a, d + n) /\ IsList(r.out, n)
          /\ Sealed(aead, SymbolsOf(aead, c), SymbolsOf(aead, r.ctx), in, n)
          /\ \A i \in 1..n : SealsByte(r.out[i], in[i])
      BY <1>2, <1>4, <2>1, SealFollows
    <2>. QED BY <1>3, <2>2, Zenon
  <1>6. \A i \in 1..n : SealsByte(r.out[i], Plain(d + i))
    BY <1>2, <1>5, Zenon
  <1>7. CASE aead = "ascon"
    <2>1. Follows(S, T, in, n)
      BY <1>5, <1>7 DEF Sealed
    <2>2. \A x \in T : ~ Foreign(x)
      <3>1. ASSUME NEW x, Foreign(x) PROVE Without(in, n, x) /\ ~ Padding(x)
        BY <1>2, <3>1, Kinds, Zenon DEF Without
      <3>. QED BY <1>4, <2>1, <3>1, Zenon DEF Follows, Keeps
    <2>3. ASSUME NEW i \in Nat PROVE Plain(i) \in T <=> i \in 1..(d + n)
      <3>1. Plain(i) \in S <=> i \in 1..d
        BY <1>4, <1>7
      <3>2. \A j \in 1..n : in[j] = Plain(i) <=> d + j = i
        BY <1>2, Kinds, Zenon
      <3>3. CASE \E j \in 1..n : d + j = i
        <4>1. PICK j \in 1..n : d + j = i
          BY <3>3
        <4>2. i \notin 1..d /\ i \in 1..(d + n)
          BY <4>1
        <4>3. \A k \in 1..n : d + k = i => k = j
          BY <4>1
        <4>4. Once(in, n, Plain(i))
          BY <3>2, <4>1, <4>3, Zenon DEF Once
        <4>5. Plain(i) \in T
          BY <2>1, <3>1, <4>2, <4>4, Kinds, Zenon DEF Follows
        <4>. QED BY <4>2, <4>5
      <3>4. CASE ~ \E j \in 1..n : d + j = i
        <4>1. i \in 1..d <=> i \in 1..(d + n)
          <5>1. ASSUME i \in 1..(d + n), i \notin 1..d PROVE FALSE
            <6>1. i - d \in 1..n /\ d + (i - d) = i
              BY <5>1
            <6>. QED BY <3>4, <6>1
          <5>. QED BY <5>1
        <4>2. Without(in, n, Plain(i))
          BY <3>2, <3>4, Zenon DEF Without
        <4>3. Plain(i) \in S <=> Plain(i) \in T
          BY <2>1, <4>2, Kinds, Zenon DEF Follows, Keeps
        <4>. QED BY <3>1, <4>1, <4>3
      <3>. QED BY <3>3, <3>4
    <2>. QED BY <1>3, <1>5, <1>6, <2>2, <2>3, Zenon DEF SealedAs
  <1>8. CASE aead # "ascon"
    <2>1. S = T \/ \E g : Follows(S, T, g, n) /\ Authenticated(g, in, n)
      BY <1>5, <1>8 DEF Sealed
    <2>2. \A x \in T : ~ Foreign(x)
      <3>. SUFFICES ASSUME S # T PROVE \A x \in T : ~ Foreign(x)
        BY <1>4
      <3>1. PICK g : Follows(S, T, g, n) /\ Authenticated(g, in, n)
        BY <2>1, Zenon
      <3>2. ASSUME NEW x, Foreign(x) PROVE Without(g, n, x) /\ ~ Padding(x)
        <4>1. ASSUME NEW i \in 1..n, g[i] = x PROVE FALSE
          <5>1. PICK b : SealsByte(b, in[i]) /\ g[i] = Authentic(b)
            BY <3>1, Zenon DEF Authenticated
          <5>2. \A k \in Nat : k # 0 => b # Alter(k)
            BY <5>1, SealedBytes, Zenon
          <5>3. x = Authentic(b)
            BY <4>1, <5>1, Zenon
          <5>4. ~ LengthSymbol(x) /\ x # <<"other">>
            BY <5>3, Kinds, Zenon
          <5>5. PICK k \in Nat : k # 0 /\ x = Authentic(Alter(k))
            BY <3>2, <5>4, Zenon DEF Foreign
          <5>6. b = Alter(k)
            BY <5>3, <5>5, Kinds, Zenon
          <5>. QED BY <5>2, <5>5, <5>6, Zenon
        <4>. QED BY <3>2, <4>1, Kinds, Zenon DEF Without
      <3>. QED BY <1>4, <3>1, <3>2, Zenon DEF Follows, Keeps
    <2>. QED BY <1>3, <1>5, <1>6, <1>8, <2>2, Zenon DEF SealedAs
  <1>. QED BY <1>7, <1>8, Zenon

\* The ciphertext grows.
LEMMA CtGrows ==
  ASSUME NEW ct, NEW d, CtIs(ct, d), NEW o, NEW n, IsList(o, n),
         \A i \in 1..n : SealsByte(o[i], Plain(d + i))
  PROVE  CtIs(ct \o o, d + n)
  <1>1. IsList(ct, d) /\ \A i \in 1..d : SealsByte(ct[i], Plain(i))
    BY Zenon DEF CtIs
  <1>2. PICK h : h = ct \o o
    OBVIOUS
  <1>3. IsList(h, d + n) /\ Joined(ct, d, o, n, h)
    BY <1>1, <1>2, JoinLists, Zenon
  <1>4. d \in Nat /\ n \in Nat
    BY <1>1, Zenon DEF IsList
  <1>5. ASSUME NEW i \in 1..(d + n) PROVE SealsByte(h[i], Plain(i))
    <2>1. CASE i \in 1..d
      BY <1>1, <1>3, <2>1, Zenon DEF Joined
    <2>2. CASE i \notin 1..d
      <3>1. PICK j \in 1..n : i = d + j
        <4>1. i - d \in 1..n /\ i = d + (i - d)
          BY <1>4, <2>2
        <4>. QED BY <4>1
      <3>2. h[i] = o[j] /\ SealsByte(o[j], Plain(i))
        BY <1>3, <3>1, Zenon DEF Joined
      <3>. QED BY <3>2, Zenon
    <2>. QED BY <2>1, <2>2
  <1>. QED BY <1>2, <1>3, <1>5, Zenon DEF CtIs

\* After b bytes, x is the byte p of those that follow.
ComesAt(g, n, x, b, p) ==
  /\ p \in Nat /\ p # 0 /\ ~ Padding(x)
  /\ \A i \in 1..n : g[i] = x <=> b + i = p
HasMark(S, x, b, p) == x \in S <=> p <= b

\* Opening goes on: the mark appears with its byte.
LEMMA MarkMeets ==
  ASSUME NEW S, NEW T, NEW g, NEW n \in Nat, Follows(S, T, g, n), NEW b \in Nat, NEW m, m = b + n,
         NEW x, NEW p, ComesAt(g, n, x, b, p), HasMark(S, x, b, p)
  PROVE  HasMark(T, x, m, p)
  <1>. SUFFICES x \in T <=> p <= m
    BY Zenon DEF HasMark
  <1>. /\ x \in S <=> p <= b
       /\ p \in Nat /\ p # 0 /\ ~ Padding(x)
       /\ \A i \in 1..n : g[i] = x <=> b + i = p
    BY Zenon DEF ComesAt, HasMark
  <1>1. CASE \E i \in 1..n : b + i = p
    <2>1. PICK i \in 1..n : b + i = p
      BY <1>1
    <2>2. ~ (p <= b) /\ p <= b + n /\ \A j \in 1..n : b + j = p => j = i
      BY <2>1
    <2>3. Once(g, n, x)
      <3>1. g[i] = x
        BY <2>1, Zenon
      <3>2. \A j \in 1..n : i # j => g[j] # x
        BY <2>2, Zenon
      <3>3. \A j \in 1..n : j # i => g[j] # x
        BY <3>2, Zenon
      <3>. QED BY <3>1, <3>2, <3>3, Zenon DEF Once
    <2>4. x \in T
      BY <2>2, <2>3, Zenon DEF Follows
    <2>. QED BY <2>2, <2>4
  <1>2. CASE ~ \E i \in 1..n : b + i = p
    <2>1. p <= b <=> p <= b + n
      <3>1. ASSUME p <= b + n, ~ (p <= b) PROVE FALSE
        <4>1. p - b \in 1..n /\ b + (p - b) = p
          BY <3>1
        <4>. QED BY <1>2, <4>1
      <3>. QED BY <3>1
    <2>2. Without(g, n, x)
      BY <1>2, Zenon DEF Without
    <2>3. x \in S <=> x \in T
      BY <2>2, Zenon DEF Follows, Keeps
    <2>. QED BY <2>1, <2>3
  <1>. QED BY <1>1, <1>2

\* Opening goes on with additional data.
LEMMA OpenedAad ==
  ASSUME Rate, Algorithm(aead), NEW c, NEW w, NEW A, NEW D, Fair(aead, w, A, D), NEW b, NEW e,
         OpenedAs(aead, c, w, A, D, b, e), NEW n \in Nat, b + n <= A, NEW m, m = b + n,
         NEW r, r = AddAad(c, SubSeq(w.aad, b + 1, m))
  PROVE  OpenedAs(aead, r, w, A, D, m, e)
  <1>1. PICK S, T : S = SymbolsOf(aead, c) /\ T = SymbolsOf(aead, r)
    OBVIOUS
  <1>2. /\ b \in Nat /\ b <= A /\ e \in Nat /\ e <= D /\ HasShape(aead, c, b, e) /\ NoLengths(S)
        /\ \A x, p, q : MarkAt(aead, w, A, D, x, p, q) => (x \in S <=> p <= b /\ q <= e)
    BY <1>1, Zenon DEF OpenedAs
  <1>3. IsList(w.aad, A) /\ A \in Nat /\ \A j \in 1..A : ~ LengthSymbol(w.aad[j])
    BY Zenon DEF Fair, IsList
  <1>4. PICK u, in : u = w.aad /\ in = SubSeq(u, b + 1, m)
    OBVIOUS
  <1>5. IsList(in, n) /\ \A i \in 1..n : in[i] = u[b + i]
    <2>1. IsList(u, A)
      BY <1>3, <1>4, Zenon
    <2>2. CutFrom(in, n, u, b)
      BY <1>2, <1>4, <2>1, PieceIs, Zenon
    <2>. QED BY <2>2, Zenon DEF CutFrom
  <1>6. HasShape(aead, r, m, e) /\ Follows(S, T, in, n)
    <2>1. r = AddAad(c, in)
      BY <1>4, Zenon
    <2>2. HasShape(aead, r, b + n, e) /\ Follows(SymbolsOf(aead, c), SymbolsOf(aead, r), in, n)
      BY <1>2, <1>5, <2>1, AadFollows, Zenon
    <2>. QED BY <1>1, <2>2, Zenon
  <1>7. \A i \in 1..n : b + i \in 1..A
    BY <1>2, <1>3
  <1>8. NoLengths(T)
    <2>1. ASSUME NEW x, LengthSymbol(x) PROVE Without(in, n, x) /\ ~ Padding(x)
      <3>1. \A i \in 1..n : in[i] # x
        BY <1>3, <1>4, <1>5, <1>7, <2>1, Zenon
      <3>. QED BY <2>1, <3>1, Kinds, Zenon DEF Without
    <2>. QED BY <1>2, <1>6, <2>1, Zenon DEF NoLengths, Follows, Keeps
  <1>9. ASSUME NEW x, NEW p, NEW q, MarkAt(aead, w, A, D, x, p, q)
        PROVE  x \in T <=> p <= m /\ q <= e
    <2>1. /\ p \in Nat /\ q \in Nat /\ (p = 0 <=> q # 0) /\ ~ Padding(x)
          /\ \A j \in 1..A : u[j] = x <=> j = p
      BY <1>4, <1>9, Zenon DEF MarkAt
    <2>2. x \in S <=> p <= b /\ q <= e
      BY <1>2, <1>9, Zenon
    <2>3. \A i \in 1..n : in[i] = x <=> b + i = p
      BY <1>5, <1>7, <2>1, Zenon
    <2>4. CASE p = 0
      <3>1. \A i \in 1..n : b + i # p
        BY <1>2, <2>4
      <3>2. Without(in, n, x)
        BY <2>3, <3>1, Zenon DEF Without
      <3>3. x \in S <=> x \in T
        BY <1>6, <2>1, <3>2, Zenon DEF Follows, Keeps
      <3>4. p <= b /\ p <= m
        BY <1>2, <2>4
      <3>. QED BY <2>2, <3>3, <3>4
    <2>5. CASE p # 0
      <3>1. q = 0 /\ q <= e
        BY <1>2, <2>1, <2>5
      <3>2. x \in S <=> p <= b
        BY <2>2, <3>1
      <3>3. ComesAt(in, n, x, b, p) /\ HasMark(S, x, b, p)
        BY <2>1, <2>3, <2>5, <3>2, Zenon DEF ComesAt, HasMark
      <3>4. HasMark(T, x, m, p)
        BY <1>2, <1>6, <3>3, MarkMeets, Zenon
      <3>5. x \in T <=> p <= m
        BY <3>4, Zenon DEF HasMark
      <3>. QED BY <3>1, <3>5
    <2>. QED BY <2>4, <2>5
  <1>10. m \in Nat /\ m <= A
    BY <1>2
  <1>. QED BY <1>1, <1>2, <1>6, <1>8, <1>9, <1>10, Zenon DEF OpenedAs

\* Opening goes on with data.
LEMMA OpenedData ==
  ASSUME Rate, Algorithm(aead), NEW c, NEW w, NEW A, NEW D, Fair(aead, w, A, D), NEW b, NEW e,
         OpenedAs(aead, c, w, A, D, b, e), NEW n \in Nat, e + n <= D, NEW m, m = e + n,
         NEW r, r = DecUpdate(c, SubSeq(w.ct, e + 1, m))
  PROVE  OpenedAs(aead, r.ctx, w, A, D, b, m) /\ IsList(r.out, n)
  <1>1. PICK S, T : S = SymbolsOf(aead, c) /\ T = SymbolsOf(aead, r.ctx)
    OBVIOUS
  <1>2. /\ b \in Nat /\ b <= A /\ e \in Nat /\ e <= D /\ HasShape(aead, c, b, e) /\ NoLengths(S)
        /\ \A x, p, q : MarkAt(aead, w, A, D, x, p, q) => (x \in S <=> p <= b /\ q <= e)
    BY <1>1, Zenon DEF OpenedAs
  <1>3. PICK u, in : u = w.ct /\ in = SubSeq(u, e + 1, m)
    OBVIOUS
  <1>4. IsList(u, D) /\ D \in Nat /\ \A j \in 1..D : \A y : Opens(aead, u[j], y) => ~ LengthSymbol(y)
    BY <1>3, Zenon DEF Fair, IsList
  <1>5. IsList(in, n) /\ \A i \in 1..n : in[i] = u[e + i]
    <2>1. IsList(u, D)
      BY <1>4, Zenon
    <2>2. CutFrom(in, n, u, e)
      BY <1>2, <1>3, <2>1, PieceIs, Zenon
    <2>. QED BY <2>2, Zenon DEF CutFrom
  <1>6. /\ HasShape(aead, r.ctx, b, m) /\ IsList(r.out, n)
        /\ \E g : Follows(S, T, g, n) /\ \A i \in 1..n : Opens(aead, in[i], g[i])
    <2>1. r = DecUpdate(c, in)
      BY <1>3, Zenon
    <2>2. /\ HasShape(aead, r.ctx, b, e + n) /\ IsList(r.out, n)
          /\ \E g : /\ Follows(SymbolsOf(aead, c), SymbolsOf(aead, r.ctx), g, n)
                    /\ \A i \in 1..n : Opens(aead, in[i], g[i])
      BY <1>2, <1>5, <2>1, OpenFollows
    <2>. QED BY <1>1, <2>2, Zenon
  <1>7. PICK g : Follows(S, T, g, n) /\ \A i \in 1..n : Opens(aead, in[i], g[i])
    BY <1>6, Zenon
  <1>8. \A i \in 1..n : e + i \in 1..D
    BY <1>2, <1>4
  <1>9. \A i \in 1..n : Opens(aead, u[e + i], g[i])
    BY <1>5, <1>7, Zenon
  <1>10. NoLengths(T)
    <2>1. ASSUME NEW x, LengthSymbol(x) PROVE Without(g, n, x) /\ ~ Padding(x)
      <3>1. \A i \in 1..n : g[i] # x
        BY <1>4, <1>8, <1>9, <2>1, Zenon
      <3>. QED BY <2>1, <3>1, Kinds, Zenon DEF Without
    <2>. QED BY <1>2, <1>7, <2>1, Zenon DEF NoLengths, Follows, Keeps
  <1>11. ASSUME NEW x, NEW p, NEW q, MarkAt(aead, w, A, D, x, p, q)
         PROVE  x \in T <=> p <= b /\ q <= m
    <2>1. /\ p \in Nat /\ q \in Nat /\ (p = 0 <=> q # 0) /\ ~ Padding(x)
          /\ \A j \in 1..D : \A y : Opens(aead, u[j], y) => (y = x <=> j = q)
      BY <1>3, <1>11, Zenon DEF MarkAt
    <2>2. x \in S <=> p <= b /\ q <= e
      BY <1>2, <1>11, Zenon
    <2>3. \A i \in 1..n : g[i] = x <=> e + i = q
      BY <1>8, <1>9, <2>1, Zenon
    <2>4. CASE q = 0
      <3>1. \A i \in 1..n : e + i # q
        BY <1>2, <2>4
      <3>2. Without(g, n, x)
        BY <2>3, <3>1, Zenon DEF Without
      <3>3. x \in S <=> x \in T
        BY <1>7, <2>1, <3>2, Zenon DEF Follows, Keeps
      <3>4. q <= e /\ q <= m
        BY <1>2, <2>4
      <3>. QED BY <2>2, <3>3, <3>4
    <2>5. CASE q # 0
      <3>1. p = 0 /\ p <= b
        BY <1>2, <2>1, <2>5
      <3>2. x \in S <=> q <= e
        BY <2>2, <3>1
      <3>3. ComesAt(g, n, x, e, q) /\ HasMark(S, x, e, q)
        BY <2>1, <2>3, <2>5, <3>2, Zenon DEF ComesAt, HasMark
      <3>4. HasMark(T, x, m, q)
        BY <1>2, <1>7, <3>3, MarkMeets, Zenon
      <3>5. x \in T <=> q <= m
        BY <3>4, Zenon DEF HasMark
      <3>. QED BY <3>1, <3>5
    <2>. QED BY <2>4, <2>5
  <1>12. m \in Nat /\ m <= D
    BY <1>2
  <1>. QED BY <1>1, <1>2, <1>6, <1>10, <1>11, <1>12, Zenon DEF OpenedAs

\* The tag of what arrived is another one.
LEMMA TagsDiffer ==
  ASSUME Rate, NEW alg, Algorithm(alg), NEW s, NEW a \in Nat, NEW d \in Nat, SealedAs(alg, s, a, d),
         NEW c, NEW w, NEW A \in Nat, NEW D \in Nat, OpenedAs(alg, c, w, A, D, A, D),
         Tells(alg, w, a, d, A, D)
  PROVE  TagOf(alg, c) # TagOf(alg, s)
  <1>. SUFFICES ASSUME TagOf(alg, c) = TagOf(alg, s) PROVE FALSE
    OBVIOUS
  <1>1. PICK S, T : S = SymbolsOf(alg, s) /\ T = SymbolsOf(alg, c)
    OBVIOUS
  <1>2. /\ HasShape(alg, s, a, d) /\ \A x \in S : ~ Foreign(x)
        /\ alg = "ascon" => \A i \in Nat : Plain(i) \in S <=> i \in 1..d
    BY <1>1, Zenon DEF SealedAs
  <1>3. /\ HasShape(alg, c, A, D) /\ NoLengths(T)
        /\ \A x, p, q : MarkAt(alg, w, A, D, x, p, q) => (x \in T <=> p <= A /\ q <= D)
    BY <1>1, Zenon DEF OpenedAs
  <1>4. NoLengths(S)
    BY <1>2, Zenon DEF NoLengths, Foreign
  <1>5. /\ alg # "ascon" => A = a /\ D = d
        /\ \A x : ~ Padding(x) /\ ~ LengthSymbol(x) /\ (alg = "ascon" \/ D # 0) =>
             (x \in T <=> x \in S)
    <2>1. NoLengths(SymbolsOf(alg, s)) /\ NoLengths(SymbolsOf(alg, c))
      BY <1>1, <1>3, <1>4, Zenon
    <2>2. /\ alg # "ascon" => A = a /\ D = d
          /\ \A x : ~ Padding(x) /\ ~ LengthSymbol(x) /\ (alg = "ascon" \/ D # 0) =>
               (x \in SymbolsOf(alg, c) <=> x \in SymbolsOf(alg, s))
      BY <1>2, <1>3, <2>1, SameTags
    <2>. QED BY <1>1, <2>2, Zenon
  <1>6. PICK x, p, q : /\ MarkAt(alg, w, A, D, x, p, q) /\ ~ LengthSymbol(x)
                       /\ Telling(alg, d, A, D, x, p, q)
    BY <1>5, Zenon DEF Tells
  <1>7. ~ Padding(x) /\ p \in Nat /\ q \in Nat /\ (x \in T <=> p <= A /\ q <= D)
    BY <1>3, <1>6, Zenon DEF MarkAt
  <1>8. CASE (alg = "ascon" \/ D # 0) /\ Foreign(x) /\ p <= A /\ q <= D
    BY <1>2, <1>5, <1>6, <1>7, <1>8, Zenon
  <1>9. CASE alg = "ascon" /\ p > A /\ \E k \in 1..d : x = Plain(k)
    <2>1. PICK k \in 1..d : x = Plain(k)
      BY <1>9
    <2>2. k \in Nat
      BY <2>1
    <2>3. x \in S
      BY <1>2, <1>9, <2>1, <2>2, Zenon
    <2>4. x \notin T
      <3>1. ~ (p <= A)
        BY <1>7, <1>9
      <3>. QED BY <1>7, <3>1, Zenon
    <2>. QED BY <1>5, <1>6, <1>7, <1>9, <2>3, <2>4, Zenon
  <1>. QED BY <1>6, <1>8, <1>9, Zenon DEF Telling

-----------------------------------------------------------------------------
(* What arrives.                                                           *)

\* Additional data that hold no length and no byte of the message.
OtherKinds(s, n) ==
  IsList(s, n) /\ \A j \in 1..n : ~ LengthSymbol(s[j]) /\ \A i : s[j] # Plain(i)

\* Bytes that hide bytes of the message or nothing.
HidesData(ct, n) ==
  IsList(ct, n) /\ \A j \in 1..n : \A y \in ct[j].xor : \E i : y = Plain(i)

\* Byte k of the message is not among them.
Lacks(ct, n, k) == \A j \in 1..n : Plain(k) \notin ct[j].xor

\* No length arrives.
LEMMA ArrivesFairly ==
  ASSUME NEW alg, NEW w, NEW A, NEW D, OtherKinds(w.aad, A), HidesData(w.ct, D)
  PROVE  Fair(alg, w, A, D)
  <1>1. PICK u, v : u = w.aad /\ v = w.ct
    OBVIOUS
  <1>2. IsList(u, A) /\ \A j \in 1..A : ~ LengthSymbol(u[j])
    BY <1>1, Zenon DEF OtherKinds
  <1>3. IsList(v, D) /\ \A j \in 1..D : \A y \in v[j].xor : \E i : y = Plain(i)
    BY <1>1, Zenon DEF HidesData
  <1>4. ASSUME NEW j \in 1..D, NEW y, Opens(alg, v[j], y) PROVE ~ LengthSymbol(y)
    <2>1. CASE alg = "ascon"
      <3>1. y \in v[j].xor \/ Garbage(v[j], y)
        BY <1>4, <2>1, Zenon DEF Opens
      <3>2. CASE y \in v[j].xor
        <4>1. PICK i : y = Plain(i)
          BY <1>3, <3>2, Zenon
        <4>. QED BY <4>1, Kinds, Zenon
      <3>3. CASE Garbage(v[j], y)
        BY <3>3, Kinds, Zenon
      <3>. QED BY <3>1, <3>2, <3>3
    <2>2. CASE alg # "ascon"
      <3>1. y = Authentic(v[j])
        BY <1>4, <2>2, Zenon DEF Opens
      <3>. QED BY <3>1, Kinds, Zenon
    <2>. QED BY <2>1, <2>2
  <1>. QED BY <1>1, <1>2, <1>3, <1>4, Zenon DEF Fair

\* Without one of the bytes of the message Ascon comes to another tag.
LEMMA MissingTells ==
  ASSUME NEW alg, alg = "ascon", NEW w, NEW a, NEW d, NEW A, NEW D,
         OtherKinds(w.aad, A), HidesData(w.ct, D), NEW k \in 1..d, Lacks(w.ct, D, k)
  PROVE  Tells(alg, w, a, d, A, D)
  <1>1. PICK u, v : u = w.aad /\ v = w.ct
    OBVIOUS
  <1>2. A \in Nat /\ D \in Nat
    BY Zenon DEF OtherKinds, HidesData, IsList
  <1>3. PICK x, p, q : x = Plain(k) /\ p = A + 1 /\ q = 0
    OBVIOUS
  <1>4. p \in Nat /\ q \in Nat /\ (p = 0 <=> q # 0) /\ p > A
    BY <1>2, <1>3
  <1>5. ~ Padding(x) /\ (\A y : x # <<"init", y>>) /\ ~ LengthSymbol(x)
    BY <1>3, Kinds, Zenon
  <1>6. ASSUME NEW j \in 1..A PROVE u[j] = x <=> j = p
    <2>1. u[j] # x
      BY <1>1, <1>3, Zenon DEF OtherKinds
    <2>2. j # p
      BY <1>2, <1>3
    <2>. QED BY <2>1, <2>2
  <1>7. ASSUME NEW j \in 1..D, NEW y, Opens(alg, v[j], y) PROVE y = x <=> j = q
    <2>1. y \in v[j].xor \/ Garbage(v[j], y)
      BY <1>7, Zenon DEF Opens
    <2>2. y # x
      <3>1. CASE y \in v[j].xor
        BY <1>1, <1>3, <3>1, Zenon DEF Lacks
      <3>2. CASE Garbage(v[j], y)
        BY <1>3, <3>2, Kinds, Zenon
      <3>. QED BY <2>1, <3>1, <3>2
    <2>3. j # q
      BY <1>3
    <2>. QED BY <2>2, <2>3
  <1>8. MarkAt(alg, w, A, D, x, p, q)
    BY <1>1, <1>4, <1>5, <1>6, <1>7, Zenon DEF MarkAt
  <1>9. Telling(alg, d, A, D, x, p, q)
    BY <1>3, <1>4, Zenon DEF Telling
  <1>. QED BY <1>5, <1>8, <1>9, Zenon DEF Tells

\* The ciphertext that was sealed.
LEMMA CtHides ==
  ASSUME NEW ct, NEW d, CtIs(ct, d)
  PROVE  /\ HidesData(ct, d) /\ d \in Nat
         /\ \A j \in 1..d : \A i : Plain(i) \in ct[j].xor => i = j
         /\ \A j \in 1..d : \A i \in Nat : i # 0 => ct[j] # Alter(i)
  <1>1. IsList(ct, d) /\ \A j \in 1..d : SealsByte(ct[j], Plain(j))
    BY Zenon DEF CtIs
  <1>2. d \in Nat
    BY <1>1, Zenon DEF IsList
  <1>3. \A j \in 1..d : /\ ct[j].xor \subseteq {Plain(j)}
                        /\ \A i \in Nat : i # 0 => ct[j] # Alter(i)
    BY <1>1, SealedBytes, Zenon
  <1>4. \A j \in 1..d : \A y \in ct[j].xor : y = Plain(j)
    BY <1>3, Zenon
  <1>5. \A j \in 1..d : \A i : Plain(i) \in ct[j].xor => i = j
    BY <1>4, Kinds, Zenon
  <1>6. HidesData(ct, d)
    BY <1>1, <1>4, Zenon DEF HidesData
  <1>. QED BY <1>2, <1>3, <1>5, <1>6, Zenon

\* The additional data of the caller, bytes of ciphertext, and both.
LEMMA AadKinds ==
  /\ \A n \in Nat : OtherKinds(AadOf(n), n)
  /\ \A f, n : n \in Nat => OtherKinds([j \in 1..n |-> Authentic(f[j])], n)
  /\ \A s, n, t, m : OtherKinds(s, n) /\ OtherKinds(t, m) => OtherKinds(s \o t, n + m)
  <1>1. ASSUME NEW n \in Nat PROVE OtherKinds(AadOf(n), n)
    <2>1. PICK s : s = AadOf(n)
      OBVIOUS
    <2>2. \A j \in 1..n : s[j] = <<"aad", j>>
      BY <2>1, Zenon DEF AadOf
    <2>3. s = [j \in 1..n |-> s[j]]
      BY <2>1, Zenon DEF AadOf
    <2>4. \A j \in 1..n : ~ LengthSymbol(s[j]) /\ \A i : s[j] # Plain(i)
      BY <2>2, Kinds, Zenon DEF Foreign
    <2>. QED BY <2>1, <2>3, <2>4, Zenon DEF OtherKinds, IsList
  <1>2. ASSUME NEW f, NEW n \in Nat PROVE OtherKinds([j \in 1..n |-> Authentic(f[j])], n)
    <2>1. PICK s : s = [j \in 1..n |-> Authentic(f[j])]
      OBVIOUS
    <2>2. \A j \in 1..n : s[j] = Authentic(f[j])
      BY <2>1, Zenon
    <2>3. s = [j \in 1..n |-> s[j]]
      BY <2>1, Zenon
    <2>4. \A j \in 1..n : ~ LengthSymbol(s[j]) /\ \A i : s[j] # Plain(i)
      BY <2>2, Kinds, Zenon
    <2>. QED BY <2>1, <2>3, <2>4, Zenon DEF OtherKinds, IsList
  <1>3. ASSUME NEW s, NEW n, NEW t, NEW m, OtherKinds(s, n), OtherKinds(t, m)
        PROVE  OtherKinds(s \o t, n + m)
    <2>1. PICK h : h = s \o t
      OBVIOUS
    <2>2. IsList(s, n) /\ IsList(t, m)
      BY <1>3, Zenon DEF OtherKinds
    <2>3. IsList(h, n + m) /\ Joined(s, n, t, m, h)
      BY <2>1, <2>2, JoinLists, Zenon
    <2>4. n \in Nat /\ m \in Nat
      BY <2>2, Zenon DEF IsList
    <2>5. ASSUME NEW j \in 1..(n + m) PROVE ~ LengthSymbol(h[j]) /\ \A i : h[j] # Plain(i)
      <3>1. CASE j \in 1..n
        BY <1>3, <2>3, <3>1, Zenon DEF OtherKinds, Joined
      <3>2. CASE j \notin 1..n
        <4>1. PICK k \in 1..m : j = n + k
          <5>1. j - n \in 1..m /\ j = n + (j - n)
            BY <2>4, <3>2
          <5>. QED BY <5>1
        <4>. QED BY <1>3, <2>3, <4>1, Zenon DEF OtherKinds, Joined
      <3>. QED BY <3>1, <3>2
    <2>. QED BY <2>1, <2>3, <2>5, Zenon DEF OtherKinds
  <1>. QED BY <1>1, <1>2, <1>3, Zenon

\* What Tamper may put in the place of a message.
Arrival(s, ct, t, d, w) ==
  \/ d = 0 /\ w = [aad |-> Append(s, <<"other">>), ct |-> ct, tag |-> t]
  \/ \E i \in 1..d : w = [aad |-> s, ct |-> [ct EXCEPT ![i] = Alter(i)], tag |-> t]
  \/ d # 0 /\ w = [aad |-> s, ct |-> SubSeq(ct, 1, d - 1), tag |-> t]
  \/ d # 0 /\ w = [aad |-> s \o <<Authentic(ct[1])>>, ct |-> Tail(ct), tag |-> t]
  \/ d # 0 /\ w = [aad |-> s \o [j \in 1..d |-> Authentic(ct[j])], ct |-> <<>>, tag |-> t]

\* It is one of these, whatever was sealed.
LEMMA ArrivalsAre ==
  ASSUME NEW s, NEW ct, NEW t, NEW d, IsList(ct, d),
         wire = [aad |-> s, ct |-> ct, tag |-> t], NEW other \in Arrivals
  PROVE  Arrival(s, ct, t, d, other)
  <1>1. wire.aad = s /\ wire.ct = ct /\ wire.tag = t
    OBVIOUS
  <1>2. Len(ct) = d /\ d \in Nat
    BY Lists, Zenon DEF IsList
  <1>3. ct = <<>> <=> d = 0
    <2>1. d = 0 => ct = <<>>
      <3>1. ct = [i \in 1..d |-> ct[i]]
        BY Zenon DEF IsList
      <3>2. d = 0 => [i \in 1..d |-> ct[i]] = <<>>
        OBVIOUS
      <3>. QED BY <3>1, <3>2, Zenon
    <2>2. Len(<<>>) = 0
      OBVIOUS
    <2>. QED BY <1>2, <2>1, <2>2, Zenon
  <1>4. \A x : [wire EXCEPT !.aad = x] = [aad |-> x, ct |-> ct, tag |-> t]
    OBVIOUS
  <1>5. \A x : [wire EXCEPT !.ct = x] = [aad |-> s, ct |-> x, tag |-> t]
    OBVIOUS
  <1>6. ASSUME NEW x, NEW y
        PROVE  [wire EXCEPT !.aad = x, !.ct = y] = [aad |-> x, ct |-> y, tag |-> t]
    <2>1. [wire EXCEPT !.aad = x, !.ct = y] = [[wire EXCEPT !.aad = x] EXCEPT !.ct = y]
      OBVIOUS
    <2>2. PICK r : r = [wire EXCEPT !.aad = x]
      OBVIOUS
    <2>3. r = [aad |-> x, ct |-> ct, tag |-> t]
      BY <1>4, <2>2
    <2>4. [r EXCEPT !.ct = y] = [aad |-> x, ct |-> y, tag |-> t]
      BY <2>3
    <2>. QED BY <2>1, <2>2, <2>4, Zenon
  <1>7. CASE ct = <<>>
    <2>1. other = [wire EXCEPT !.aad = Append(@, <<"other">>)]
      BY <1>1, <1>7, Zenon DEF Arrivals
    <2>2. other = [wire EXCEPT !.aad = Append(s, <<"other">>)]
      BY <1>1, <2>1, Zenon
    <2>. QED BY <1>3, <1>4, <1>7, <2>2, Zenon DEF Arrival
  <1>8. CASE ct # <<>>
    <2>1. \/ other \in {[wire EXCEPT !.ct[i] = [Nought EXCEPT !.at = i]] : i \in {1, Len(wire.ct)} \ {0}}
          \/ other \in {[wire EXCEPT !.ct = SubSeq(@, 1, Len(@) - 1)]}
          \/ other \in {[wire EXCEPT !.aad = @ \o <<Authentic(wire.ct[1])>>, !.ct = Tail(@)]}
          \/ other \in {[wire EXCEPT !.aad = @ \o [j \in 1..Len(wire.ct) |-> Authentic(wire.ct[j])],
                                     !.ct = <<>>]}
      BY <1>1, <1>8, Zenon DEF Arrivals
    <2>2. CASE \E i \in {1, Len(wire.ct)} \ {0} : other = [wire EXCEPT !.ct[i] = [Nought EXCEPT !.at = i]]
      <3>1. PICK i \in {1, Len(wire.ct)} \ {0} : other = [wire EXCEPT !.ct[i] = [Nought EXCEPT !.at = i]]
        BY <2>2
      <3>2. i \in 1..d
        BY <1>1, <1>2, <1>3, <1>8, <3>1
      <3>3. other = [wire EXCEPT !.ct = [ct EXCEPT ![i] = Alter(i)]]
        BY <1>1, <3>1, Zenon DEF Alter
      <3>. QED BY <1>5, <3>2, <3>3, Zenon DEF Arrival
    <2>3. CASE other = [wire EXCEPT !.ct = SubSeq(@, 1, Len(@) - 1)]
      <3>1. other = [wire EXCEPT !.ct = SubSeq(ct, 1, d - 1)]
        BY <1>1, <1>2, <2>3, Zenon
      <3>. QED BY <1>3, <1>5, <1>8, <3>1, Zenon DEF Arrival
    <2>4. CASE other = [wire EXCEPT !.aad = @ \o <<Authentic(wire.ct[1])>>, !.ct = Tail(@)]
      <3>1. other = [wire EXCEPT !.aad = s \o <<Authentic(ct[1])>>, !.ct = Tail(ct)]
        BY <1>1, <2>4, Zenon
      <3>. QED BY <1>3, <1>6, <1>8, <3>1, Zenon DEF Arrival
    <2>5. CASE other = [wire EXCEPT !.aad = @ \o [j \in 1..Len(wire.ct) |-> Authentic(wire.ct[j])],
                                    !.ct = <<>>]
      <3>1. other = [wire EXCEPT !.aad = s \o [j \in 1..d |-> Authentic(ct[j])], !.ct = <<>>]
        BY <1>1, <1>2, <2>5, Zenon
      <3>. QED BY <1>3, <1>6, <1>8, <3>1, Zenon DEF Arrival
    <2>. QED BY <2>1, <2>2, <2>3, <2>4, <2>5, Zenon
  <1>. QED BY <1>7, <1>8

\* Nothing but another byte of additional data.
LEMMA OtherTells ==
  ASSUME NEW alg, Algorithm(alg), NEW a \in Nat, NEW ct, NEW d, d = 0, IsList(ct, d), NEW t,
         NEW w, w = [aad |-> Append(AadOf(a), <<"other">>), ct |-> ct, tag |-> t]
  PROVE  Fair(alg, w, a + 1, d) /\ Tells(alg, w, a, d, a + 1, d)
  <1>1. PICK s, m : s = AadOf(a) /\ m = a + 1 /\ m \in Nat
    OBVIOUS
  <1>2. PICK o : o = <<"other">>
    OBVIOUS
  <1>3. PICK h : h = Append(s, o)
    OBVIOUS
  <1>4. IsList(s, a) /\ \A j \in 1..a : s[j] = <<"aad", j>>
    <2>1. s = [j \in 1..a |-> <<"aad", j>>]
      BY <1>1, Zenon DEF AadOf
    <2>2. \A j \in 1..a : s[j] = <<"aad", j>>
      BY <2>1, Zenon
    <2>3. s = [j \in 1..a |-> s[j]]
      BY <2>1, Zenon
    <2>. QED BY <2>2, <2>3, Zenon DEF IsList
  <1>5. IsList(h, m) /\ h[m] = o /\ \A j \in 1..a : h[j] = s[j]
    <2>1. PICK T : s \in Seq(T) /\ Len(s) = a
      BY <1>4, ListIsSeq, Zenon
    <2>2. PICK U : U = T \union {o}
      OBVIOUS
    <2>3. s \in Seq(U) /\ o \in U
      BY <2>1, <2>2
    <2>4. h \in Seq(U) /\ Len(h) = m /\ h[m] = o /\ \A j \in 1..a : h[j] = s[j]
      BY <1>1, <1>3, <2>1, <2>3
    <2>. QED BY <2>4, SeqIsList
  <1>6. PICK u, v : u = w.aad /\ v = w.ct
    OBVIOUS
  <1>7. u = h /\ v = ct
    BY <1>1, <1>2, <1>3, <1>6
  <1>8. \A j \in 1..m : j = m \/ j \in 1..a
    BY <1>1
  <1>9. \A j \in 1..m : ~ LengthSymbol(u[j])
    <2>1. ~ LengthSymbol(o) /\ \A y : ~ LengthSymbol(<<"aad", y>>)
      BY <1>2, Kinds, Zenon DEF Foreign
    <2>. QED BY <1>4, <1>5, <1>7, <1>8, <2>1, Zenon
  <1>10. \A j : j \notin 1..d
    OBVIOUS
  <1>11. Fair(alg, w, m, d)
    BY <1>5, <1>6, <1>7, <1>9, <1>10, Zenon DEF Fair
  <1>12. CASE alg # "ascon"
    <2>1. m # a
      BY <1>1
    <2>. QED BY <1>1, <1>11, <1>12, <2>1, Zenon DEF Tells
  <1>13. CASE alg = "ascon"
    <2>1. PICK q : q = 0
      OBVIOUS
    <2>2. q \in Nat /\ (m = 0 <=> q # 0) /\ m <= m /\ q <= d
      BY <1>1, <2>1
    <2>3. Foreign(o) /\ ~ Padding(o) /\ ~ LengthSymbol(o) /\ \A y : o # <<"init", y>> /\ o # <<"aad", y>>
      BY <1>2, Kinds, Zenon DEF Foreign
    <2>4. \A j \in 1..m : u[j] = o <=> j = m
      <3>1. \A j \in 1..a : j # m
        BY <1>1
      <3>. QED BY <1>4, <1>5, <1>7, <1>8, <2>3, <3>1, Zenon
    <2>5. MarkAt(alg, w, m, d, o, m, q)
      BY <1>1, <1>6, <1>10, <2>2, <2>3, <2>4, Zenon DEF MarkAt
    <2>6. Telling(alg, d, m, d, o, m, q)
      BY <1>13, <2>2, <2>3, Zenon DEF Telling
    <2>. QED BY <1>1, <1>11, <2>3, <2>5, <2>6, Zenon DEF Tells
  <1>. QED BY <1>12, <1>13

\* One byte of the ciphertext replaced.
LEMMA AlteredTells ==
  ASSUME NEW alg, Algorithm(alg), NEW a \in Nat, NEW ct, NEW d, CtIs(ct, d), NEW t, NEW k \in 1..d,
         NEW w, w = [aad |-> AadOf(a), ct |-> [ct EXCEPT ![k] = Alter(k)], tag |-> t]
  PROVE  Fair(alg, w, a, d) /\ Tells(alg, w, a, d, a, d)
  <1>1. PICK s, x, b : s = AadOf(a) /\ b = Alter(k) /\ x = [ct EXCEPT ![k] = b]
    OBVIOUS
  <1>2. /\ HidesData(ct, d) /\ d \in Nat
        /\ \A j \in 1..d : \A i : Plain(i) \in ct[j].xor => i = j
        /\ \A j \in 1..d : \A i \in Nat : i # 0 => ct[j] # Alter(i)
    BY CtHides, Zenon
  <1>3. w.aad = s /\ w.ct = x
    BY <1>1
  <1>4. OtherKinds(w.aad, a)
    BY <1>1, <1>3, AadKinds, Zenon
  <1>5. b.xor = {} /\ k \in Nat /\ k # 0
    BY <1>1, <1>2 DEF Alter, Nought
  <1>6. x[k] = b /\ \A j \in 1..d : j # k => x[j] = ct[j]
    <2>1. ct = [j \in 1..d |-> ct[j]]
      BY <1>2, Zenon DEF HidesData, IsList
    <2>. QED BY <1>1, <2>1
  <1>7. HidesData(x, d)
    <2>1. x = [j \in 1..d |-> x[j]]
      <3>1. ct = [j \in 1..d |-> ct[j]]
        BY <1>2, Zenon DEF HidesData, IsList
      <3>. QED BY <1>1, <3>1
    <2>2. ASSUME NEW j \in 1..d, NEW y \in x[j].xor PROVE \E i : y = Plain(i)
      <3>1. j # k /\ x[j] = ct[j]
        BY <1>5, <1>6, <2>2
      <3>. QED BY <1>2, <2>2, <3>1, Zenon DEF HidesData
    <2>. QED BY <1>2, <2>1, <2>2, Zenon DEF HidesData, IsList
  <1>8. Fair(alg, w, a, d)
    BY <1>3, <1>4, <1>7, ArrivesFairly, Zenon
  <1>9. CASE alg = "ascon"
    <2>1. Lacks(x, d, k)
      <3>1. ASSUME NEW j \in 1..d, Plain(k) \in x[j].xor PROVE FALSE
        <4>1. j # k /\ x[j] = ct[j]
          BY <1>5, <1>6, <3>1
        <4>. QED BY <1>2, <3>1, <4>1, Zenon
      <3>. QED BY <3>1, Zenon DEF Lacks
    <2>2. HidesData(w.ct, d) /\ Lacks(w.ct, d, k)
      BY <1>3, <1>7, <2>1, Zenon
    <2>3. Tells(alg, w, a, d, a, d)
      BY <1>4, <1>9, <2>2, MissingTells, Zenon
    <2>. QED BY <1>8, <2>3
  <1>10. CASE alg # "ascon"
    <2>1. PICK y, p : y = Authentic(b) /\ p = 0
      OBVIOUS
    <2>2. p \in Nat /\ (p = 0 <=> k # 0) /\ p <= a /\ k <= d /\ d # 0
      BY <1>2, <1>5, <2>1
    <2>3. Foreign(y) /\ ~ Padding(y) /\ ~ LengthSymbol(y)
      <3>1. y = Authentic(Alter(k))
        BY <1>1, <2>1
      <3>2. Foreign(y)
        BY <1>5, <3>1, Zenon DEF Foreign
      <3>. QED BY <2>1, <3>2, Kinds, Zenon
    <2>4. \A z : y # <<"init", z>> /\ y # <<"aad", z>>
      BY <2>1, Kinds, Zenon
    <2>5. ASSUME NEW j \in 1..a PROVE w.aad[j] = y <=> j = p
      <3>1. s[j] = <<"aad", j>>
        BY <1>1, Zenon DEF AadOf
      <3>2. s[j] # y
        BY <2>4, <3>1, Zenon
      <3>3. j # p
        BY <2>1
      <3>. QED BY <1>3, <3>2, <3>3, Zenon
    <2>6. ASSUME NEW j \in 1..d, NEW z, Opens(alg, x[j], z) PROVE z = y <=> j = k
      <3>1. z = Authentic(x[j])
        BY <1>10, <2>6, Zenon DEF Opens
      <3>2. CASE j = k
        BY <1>6, <2>1, <3>1, <3>2, Zenon
      <3>3. CASE j # k
        <4>1. x[j] # b
          BY <1>1, <1>2, <1>5, <1>6, <3>3, Zenon
        <4>2. z # y
          BY <2>1, <3>1, <4>1, Kinds, Zenon
        <4>. QED BY <3>3, <4>2
      <3>. QED BY <3>2, <3>3
    <2>7. MarkAt(alg, w, a, d, y, p, k)
      BY <1>3, <1>5, <2>2, <2>3, <2>4, <2>5, <2>6, Zenon DEF MarkAt
    <2>8. Telling(alg, d, a, d, y, p, k)
      BY <2>2, <2>3, Zenon DEF Telling
    <2>9. Tells(alg, w, a, d, a, d)
      BY <2>3, <2>7, <2>8, Zenon DEF Tells
    <2>. QED BY <1>8, <2>9
  <1>. QED BY <1>9, <1>10

\* Bytes of the ciphertext cut off, or moved to the additional data.
LEMMA MovedTells ==
  ASSUME NEW alg, NEW a, NEW d, NEW A, NEW D, A # a \/ D # d, NEW w,
         OtherKinds(w.aad, A), HidesData(w.ct, D), NEW k \in 1..d, Lacks(w.ct, D, k)
  PROVE  Fair(alg, w, A, D) /\ Tells(alg, w, a, d, A, D)
  <1>1. Fair(alg, w, A, D)
    BY ArrivesFairly, Zenon
  <1>2. CASE alg = "ascon"
    <2>1. Tells(alg, w, a, d, A, D)
      BY <1>2, MissingTells, Zenon
    <2>. QED BY <1>1, <2>1
  <1>3. CASE alg # "ascon"
    BY <1>1, <1>3, Zenon DEF Tells
  <1>. QED BY <1>2, <1>3

\* The last byte is cut off.
LEMMA ShorterTells ==
  ASSUME NEW alg, NEW a \in Nat, NEW ct, NEW d, CtIs(ct, d), d # 0, NEW t,
         NEW w, w = [aad |-> AadOf(a), ct |-> SubSeq(ct, 1, d - 1), tag |-> t], NEW m, m = d - 1
  PROVE  Fair(alg, w, a, m) /\ Tells(alg, w, a, d, a, m)
  <1>1. PICK x, z : z = 0 /\ x = SubSeq(ct, z + 1, m)
    OBVIOUS
  <1>2. /\ HidesData(ct, d) /\ d \in Nat
        /\ \A j \in 1..d : \A i : Plain(i) \in ct[j].xor => i = j
    BY CtHides, Zenon
  <1>3. w.aad = AadOf(a) /\ w.ct = x
    BY <1>1
  <1>4. m \in Nat /\ m # d /\ d \in 1..d /\ z \in Nat /\ z + m <= d /\ m = z + m
    BY <1>1, <1>2
  <1>5. IsList(x, m) /\ \A j \in 1..m : x[j] = ct[z + j]
    <2>1. IsList(ct, d)
      BY <1>2, Zenon DEF HidesData
    <2>2. z \in Nat /\ m \in Nat /\ z + m <= d /\ m = z + m
      BY <1>4
    <2>3. x = SubSeq(ct, z + 1, m)
      BY <1>1
    <2>4. CutFrom(x, m, ct, z)
      BY <2>1, <2>2, <2>3, PieceIs, Zenon
    <2>. QED BY <2>4, Zenon DEF CutFrom
  <1>6. \A j \in 1..m : x[j] = ct[j] /\ j \in 1..d /\ j # d
    BY <1>1, <1>2, <1>5
  <1>7. HidesData(x, m) /\ Lacks(x, m, d)
    BY <1>2, <1>5, <1>6, Zenon DEF HidesData, Lacks
  <1>8. OtherKinds(w.aad, a) /\ HidesData(w.ct, m) /\ Lacks(w.ct, m, d)
    BY <1>3, <1>7, AadKinds, Zenon
  <1>. QED BY <1>4, <1>8, MovedTells, Zenon

\* The first byte is taken for one of the additional data.
LEMMA FirstTells ==
  ASSUME NEW alg, NEW a \in Nat, NEW ct, NEW d, CtIs(ct, d), d # 0, NEW t,
         NEW w, w = [aad |-> AadOf(a) \o <<Authentic(ct[1])>>, ct |-> Tail(ct), tag |-> t],
         NEW m, m = d - 1
  PROVE  Fair(alg, w, a + 1, m) /\ Tells(alg, w, a, d, a + 1, m)
  <1>1. PICK x : x = Tail(ct)
    OBVIOUS
  <1>2. /\ HidesData(ct, d) /\ d \in Nat
        /\ \A j \in 1..d : \A i : Plain(i) \in ct[j].xor => i = j
    BY CtHides, Zenon
  <1>3. w.aad = AadOf(a) \o <<Authentic(ct[1])>> /\ w.ct = x
    BY <1>1
  <1>4. m \in Nat /\ m # d /\ 1 \in 1..d
    BY <1>2
  <1>5. IsList(x, m) /\ \A j \in 1..m : x[j] = ct[j + 1]
    <2>1. IsList(ct, d)
      BY <1>2, Zenon DEF HidesData
    <2>2. PICK T : ct \in Seq(T) /\ Len(ct) = d
      BY <2>1, ListIsSeq, Zenon
    <2>3. x \in Seq(T) /\ Len(x) = m /\ \A j \in 1..m : x[j] = ct[j + 1]
      BY <1>1, <1>4, <2>2
    <2>. QED BY <2>3, SeqIsList
  <1>6. \A j \in 1..m : j + 1 \in 1..d /\ j + 1 # 1
    BY <1>2
  <1>7. HidesData(x, m) /\ Lacks(x, m, 1)
    <2>1. ASSUME NEW j \in 1..m
          PROVE  (\A y \in x[j].xor : \E i : y = Plain(i)) /\ Plain(1) \notin x[j].xor
      <3>1. PICK k : k = j + 1
        OBVIOUS
      <3>2. k \in 1..d /\ k # 1 /\ x[j] = ct[k]
        BY <1>5, <1>6, <3>1
      <3>. QED BY <1>2, <3>2, Zenon DEF HidesData
    <2>. QED BY <1>5, <2>1, Zenon DEF HidesData, Lacks
  <1>8. OtherKinds(w.aad, a + 1)
    <2>1. PICK f, n : f = <<ct[1]>> /\ n = 1
      OBVIOUS
    <2>2. <<Authentic(ct[1])>> = [j \in 1..n |-> Authentic(f[j])]
      BY <2>1
    <2>3. OtherKinds([j \in 1..n |-> Authentic(f[j])], n)
      <3>1. n \in Nat
        BY <2>1
      <3>. QED BY <3>1, AadKinds, Zenon
    <2>4. OtherKinds(AadOf(a), a)
      BY AadKinds, Zenon
    <2>. QED BY <1>3, <2>1, <2>2, <2>3, <2>4, AadKinds, Zenon
  <1>9. HidesData(w.ct, m) /\ Lacks(w.ct, m, 1)
    BY <1>3, <1>7, Zenon
  <1>. QED BY <1>4, <1>8, <1>9, MovedTells, Zenon

\* All of them are.
LEMMA AllTells ==
  ASSUME NEW alg, NEW a \in Nat, NEW ct, NEW d, CtIs(ct, d), d # 0, NEW t,
         NEW w, w = [aad |-> AadOf(a) \o [j \in 1..d |-> Authentic(ct[j])], ct |-> <<>>, tag |-> t],
         NEW m, m = 0
  PROVE  Fair(alg, w, a + d, m) /\ Tells(alg, w, a, d, a + d, m)
  <1>1. PICK x : x = <<>>
    OBVIOUS
  <1>2. d \in Nat
    BY CtHides, Zenon
  <1>3. w.aad = AadOf(a) \o [j \in 1..d |-> Authentic(ct[j])] /\ w.ct = x
    BY <1>1
  <1>4. m \in Nat /\ m # d /\ 1 \in 1..d
    BY <1>2
  <1>5. \A j : j \notin 1..m
    OBVIOUS
  <1>6. IsList(x, m)
    <2>1. x = [j \in 1..m |-> x[j]]
      BY <1>1
    <2>. QED BY <1>4, <2>1, Zenon DEF IsList
  <1>7. HidesData(x, m) /\ Lacks(x, m, 1)
    BY <1>5, <1>6, Zenon DEF HidesData, Lacks
  <1>8. OtherKinds(w.aad, a + d)
    BY <1>2, <1>3, AadKinds, Zenon
  <1>9. HidesData(w.ct, m) /\ Lacks(w.ct, m, 1)
    BY <1>3, <1>7, Zenon
  <1>. QED BY <1>4, <1>8, <1>9, MovedTells, Zenon

\* Whatever Tamper puts in the place of a message can be told from it.
LEMMA ArrivalTells ==
  ASSUME Algorithm(aead), NEW a \in Nat, NEW ct, NEW d, CtIs(ct, d), NEW t,
         wire = [aad |-> AadOf(a), ct |-> ct, tag |-> t], NEW other \in Arrivals
  PROVE  /\ other.tag = t
         /\ \E A, D \in Nat : Fair(aead, other, A, D) /\ Tells(aead, other, a, d, A, D)
  <1>1. d \in Nat /\ IsList(ct, d)
    BY Zenon DEF CtIs, IsList
  <1>2. PICK s : s = AadOf(a)
    OBVIOUS
  <1>3. wire = [aad |-> s, ct |-> ct, tag |-> t]
    BY <1>2
  <1>4. \/ d = 0 /\ other = [aad |-> Append(s, <<"other">>), ct |-> ct, tag |-> t]
        \/ \E i \in 1..d : other = [aad |-> s, ct |-> [ct EXCEPT ![i] = Alter(i)], tag |-> t]
        \/ d # 0 /\ other = [aad |-> s, ct |-> SubSeq(ct, 1, d - 1), tag |-> t]
        \/ d # 0 /\ other = [aad |-> s \o <<Authentic(ct[1])>>, ct |-> Tail(ct), tag |-> t]
        \/ d # 0 /\ other = [aad |-> s \o [j \in 1..d |-> Authentic(ct[j])], ct |-> <<>>, tag |-> t]
    <2>1. Arrival(s, ct, t, d, other)
      BY <1>1, <1>3, ArrivalsAre, Zenon
    <2>. QED BY <2>1, Zenon DEF Arrival
  <1>5. \A x, y : [aad |-> x, ct |-> y, tag |-> t].tag = t
    OBVIOUS
  <1>6. other.tag = t
    BY <1>4, <1>5, Zenon
  <1>7. CASE d = 0 /\ other = [aad |-> Append(s, <<"other">>), ct |-> ct, tag |-> t]
    <2>1. Fair(aead, other, a + 1, d) /\ Tells(aead, other, a, d, a + 1, d)
      BY <1>1, <1>2, <1>7, OtherTells, Zenon
    <2>2. a + 1 \in Nat
      OBVIOUS
    <2>. QED BY <1>1, <1>6, <2>1, <2>2, Zenon
  <1>8. CASE \E i \in 1..d : other = [aad |-> s, ct |-> [ct EXCEPT ![i] = Alter(i)], tag |-> t]
    <2>1. PICK i \in 1..d : other = [aad |-> s, ct |-> [ct EXCEPT ![i] = Alter(i)], tag |-> t]
      BY <1>8
    <2>2. Fair(aead, other, a, d) /\ Tells(aead, other, a, d, a, d)
      BY <1>2, <2>1, AlteredTells, Zenon
    <2>. QED BY <1>1, <1>6, <2>2, Zenon
  <1>9. CASE d # 0 /\ other = [aad |-> s, ct |-> SubSeq(ct, 1, d - 1), tag |-> t]
    <2>1. PICK m \in Nat : m = d - 1
      BY <1>1, <1>9
    <2>2. Fair(aead, other, a, m) /\ Tells(aead, other, a, d, a, m)
      BY <1>2, <1>9, <2>1, ShorterTells, Zenon
    <2>. QED BY <1>6, <2>1, <2>2, Zenon
  <1>10. CASE d # 0 /\ other = [aad |-> s \o <<Authentic(ct[1])>>, ct |-> Tail(ct), tag |-> t]
    <2>1. PICK m \in Nat : m = d - 1
      BY <1>1, <1>10
    <2>2. Fair(aead, other, a + 1, m) /\ Tells(aead, other, a, d, a + 1, m)
      BY <1>2, <1>10, <2>1, FirstTells, Zenon
    <2>3. a + 1 \in Nat
      OBVIOUS
    <2>. QED BY <1>6, <2>1, <2>2, <2>3, Zenon
  <1>11. CASE d # 0 /\ other = [aad |-> s \o [j \in 1..d |-> Authentic(ct[j])], ct |-> <<>>, tag |-> t]
    <2>1. PICK m \in Nat : m = 0
      OBVIOUS
    <2>2. Fair(aead, other, a + d, m) /\ Tells(aead, other, a, d, a + d, m)
      BY <1>2, <1>11, <2>1, AllTells, Zenon
    <2>3. a + d \in Nat
      BY <1>1
    <2>. QED BY <1>6, <2>1, <2>2, <2>3, Zenon
  <1>. QED BY <1>4, <1>7, <1>8, <1>9, <1>10, <1>11, Zenon

-----------------------------------------------------------------------------
(* The invariant.                                                          *)

\* What the caller gave.
Sent(a, d) == a \in Nat /\ d \in Nat /\ sealed = [aad |-> AadOf(a), pt |-> PtOf(d)]

\* While it is sealed.
Sends(a, d) == stage \in Sealing => SealedAs(aead, cryptor, a, d) /\ CtIs(wire.ct, d)

\* What arrives with the tag that was computed.
Arrives(a, d) ==
  stage \notin Sealing =>
    /\ \E s : SealedAs(aead, s, a, d) /\ wire.tag = TagOf(aead, s)
    /\ stage = "wire" /\ ~tampered =>
         \E ct, t : CtIs(ct, d) /\ wire = [aad |-> AadOf(a), ct |-> ct, tag |-> t]

\* The A and D bytes that arrive in its place, and the context that opens them.
OpensReplaced(A, D) ==
  stage \in Opening =>
    \E b, e, p, q : /\ opened = [aad |-> p, pt |-> q] /\ IsList(p, b) /\ IsList(q, e)
                    /\ OpenedAs(aead, cryptor, wire, A, D, b, e)

Replaced(a, d) ==
  tampered =>
    /\ stage \notin Sealing /\ verdict # "ok"
    /\ \E A, D \in Nat : /\ Fair(aead, wire, A, D) /\ Tells(aead, wire, a, d, A, D)
                         /\ OpensReplaced(A, D)

AuthInv == \E a, d : Sent(a, d) /\ Sends(a, d) /\ Arrives(a, d) /\ Replaced(a, d)

\* What AeadInv says whatever was given.
LEMMA AtAnyTime ==
  ASSUME AeadInv
  PROVE  /\ Types
         /\ stage = "wire" => opened = Nothing
         /\ stage # "done" => verdict = "none"
         /\ stage \in Sealing =>
              /\ ~tampered /\ opened = Nothing
              /\ \E ct : wire = [aad |-> <<>>, ct |-> ct, tag |-> <<>>]
  <1>1. PICK a, d : Types /\ Course(a, d)
    BY Zenon DEF AeadInv
  <1>. QED BY <1>1, Zenon DEF Course, SealPart, OpenPart

\* No ciphertext yet.
LEMMA NoCt == CtIs(<<>>, 0)
  <1>1. PICK x, n : x = <<>> /\ n = 0
    OBVIOUS
  <1>2. n \in Nat /\ x = [i \in 1..n |-> x[i]] /\ \A i : i \notin 1..n
    BY <1>1
  <1>3. CtIs(x, n)
    BY <1>2, Zenon DEF CtIs, IsList
  <1>. QED BY <1>1, <1>3

\* AeadInit.
LEMMA AuthInit == AeadInit => AuthInv
  <1>. SUFFICES ASSUME AeadInit PROVE AuthInv
    OBVIOUS
  <1>1. Algorithm(aead)
    BY Given DEF AeadInit, Algorithm
  <1>2. Sent(0, 0)
    <2>1. AadOf(0) = <<>> /\ PtOf(0) = <<>>
      BY Emptiness
    <2>. QED BY <2>1 DEF AeadInit, Nothing, Sent
  <1>3. Sends(0, 0)
    <2>1. PICK c : cryptor = SetKey(c, iv)
      BY Zenon DEF AeadInit
    <2>2. SealedAs(aead, cryptor, 0, 0)
      BY <1>1, <2>1, SetUp, Zenon
    <2>3. CtIs(wire.ct, 0)
      <3>1. wire.ct = <<>>
        BY DEF AeadInit
      <3>. QED BY <3>1, NoCt, Zenon
    <2>. QED BY <2>2, <2>3, Zenon DEF Sends
  <1>4. Arrives(0, 0) /\ Replaced(0, 0)
    BY DEF AeadInit, Arrives, Replaced, Sealing
  <1>. QED BY <1>2, <1>3, <1>4, Zenon DEF AuthInv

\* StartAgain begins another message.
LEMMA AuthStartAgain == AeadInv /\ AuthInv /\ StartAgain => AuthInv'
  <1>. SUFFICES ASSUME AeadInv, AuthInv, StartAgain PROVE AuthInv'
    OBVIOUS
  <1>1. /\ Algorithm(aead) /\ ~tampered
        /\ \E ct : wire = [aad |-> <<>>, ct |-> ct, tag |-> <<>>]
    BY AtAnyTime, Zenon DEF Types, StartAgain, Sealing
  <1>2. Sent(0, 0)'
    <2>1. AadOf(0) = <<>> /\ PtOf(0) = <<>>
      BY Emptiness
    <2>. QED BY <2>1 DEF StartAgain, Nothing, Sent
  <1>3. Sends(0, 0)'
    <2>1. PICK c : c = cryptor'
      OBVIOUS
    <2>2. c = SetKey(cryptor, iv')
      BY <2>1, Zenon DEF StartAgain
    <2>3. SealedAs(aead, c, 0, 0)
      BY <1>1, <2>2, SetUp, Zenon
    <2>4. SealedAs(aead', cryptor', 0, 0)
      BY <2>1, <2>3, Zenon DEF StartAgain
    <2>5. wire'.ct = <<>>
      BY <1>1 DEF StartAgain
    <2>6. CtIs(wire'.ct, 0)
      BY <2>5, NoCt, Zenon
    <2>. QED BY <2>4, <2>6, Zenon DEF Sends
  <1>4. Arrives(0, 0)' /\ Replaced(0, 0)'
    BY <1>1 DEF StartAgain, Arrives, Replaced, Sealing
  <1>. QED BY <1>2, <1>3, <1>4, Zenon DEF AuthInv

\* EncInit adds a piece of additional data.
LEMMA AuthEncInit == ASSUME NEW n \in Chunks PROVE AeadInv /\ AuthInv /\ EncInit(n) => AuthInv'
  <1>. SUFFICES ASSUME AeadInv, AuthInv, EncInit(n) PROVE AuthInv'
    OBVIOUS
  <1>1. PICK a, d : Sent(a, d) /\ Sends(a, d)
    BY Zenon DEF AuthInv
  <1>2. Algorithm(aead) /\ ~tampered
    BY AtAnyTime, Zenon DEF Types, EncInit, Sealing
  <1>3. n \in Nat /\ a \in Nat /\ d \in Nat /\ sealed = [aad |-> AadOf(a), pt |-> PtOf(d)]
    BY <1>1, Given DEF Sent
  <1>4. sealed.aad = AadOf(a) /\ Len(sealed.aad) = a
    BY <1>3, Emptiness
  <1>5. [i \in 1..n |-> <<"aad", Len(sealed.aad) + i>>] = AadPiece(a, n)
    BY <1>4, Zenon DEF AadPiece
  <1>6. /\ cryptor' = AddAad(cryptor, AadPiece(a, n))
        /\ sealed' = [sealed EXCEPT !.aad = @ \o AadPiece(a, n)]
    BY <1>5, Zenon DEF EncInit
  <1>7. Sent(a + n, d)'
    <2>1. AadOf(a) \o AadPiece(a, n) = AadOf(a + n)
      BY <1>3, Given, PolyGrows
    <2>2. sealed' = [sealed EXCEPT !.aad = AadOf(a + n)]
      BY <1>4, <1>6, <2>1, Zenon
    <2>3. sealed' = [aad |-> AadOf(a + n), pt |-> PtOf(d)] /\ a + n \in Nat
      BY <1>3, <2>2
    <2>. QED BY <1>3, <2>3, Zenon DEF Sent
  <1>8. Sends(a + n, d)'
    <2>1. SealedAs(aead, cryptor, a, d) /\ CtIs(wire.ct, d)
      BY <1>1 DEF Sends, EncInit, Sealing
    <2>2. PICK c : c = cryptor'
      OBVIOUS
    <2>3. c = AddAad(cryptor, AadPiece(a, n))
      BY <1>6, <2>2, Zenon
    <2>4. SealedAs(aead, c, a + n, d)
      BY <1>2, <1>3, <2>1, <2>3, Given, SealedAad, Zenon
    <2>. QED BY <2>1, <2>2, <2>4, Zenon DEF Sends, EncInit
  <1>9. Arrives(a + n, d)' /\ Replaced(a + n, d)'
    BY <1>2 DEF EncInit, Arrives, Replaced, Sealing
  <1>. QED BY <1>7, <1>8, <1>9, Zenon DEF AuthInv

\* EncUpdates seals a piece of data.
LEMMA AuthEncUpdates ==
  ASSUME NEW n \in Chunks PROVE AeadInv /\ AuthInv /\ EncUpdates(n) => AuthInv'
  <1>. SUFFICES ASSUME AeadInv, AuthInv, EncUpdates(n) PROVE AuthInv'
    OBVIOUS
  <1>1. PICK a, d : Sent(a, d) /\ Sends(a, d)
    BY Zenon DEF AuthInv
  <1>2. /\ Algorithm(aead) /\ ~tampered
        /\ \E ct : wire = [aad |-> <<>>, ct |-> ct, tag |-> <<>>]
    BY AtAnyTime DEF Types, EncUpdates, Sealing
  <1>3. n \in Nat /\ a \in Nat /\ d \in Nat /\ sealed = [aad |-> AadOf(a), pt |-> PtOf(d)]
    BY <1>1, Given DEF Sent
  <1>4. sealed.pt = PtOf(d) /\ Len(sealed.pt) = d
    BY <1>3, Emptiness
  <1>5. [i \in 1..n |-> Plain(Len(sealed.pt) + i)] = PtPiece(d, n)
    BY <1>4, Zenon DEF PtPiece
  <1>6. PICK r : r = EncUpdate(cryptor, PtPiece(d, n))
    OBVIOUS
  <1>7. /\ cryptor' = r.ctx
        /\ sealed' = [sealed EXCEPT !.pt = @ \o PtPiece(d, n)]
        /\ wire' = [wire EXCEPT !.ct = @ \o r.out]
    BY <1>5, <1>6, Zenon DEF EncUpdates
  <1>8. Sent(a, d + n)'
    <2>1. PtOf(d) \o PtPiece(d, n) = PtOf(d + n)
      BY <1>3, PiecesJoin
    <2>2. sealed' = [sealed EXCEPT !.pt = PtOf(d + n)]
      BY <1>4, <1>7, <2>1, Zenon
    <2>3. sealed' = [aad |-> AadOf(a), pt |-> PtOf(d + n)] /\ d + n \in Nat
      BY <1>3, <2>2
    <2>. QED BY <1>3, <2>3, Zenon DEF Sent
  <1>9. Sends(a, d + n)'
    <2>1. SealedAs(aead, cryptor, a, d) /\ CtIs(wire.ct, d)
      BY <1>1 DEF Sends, EncUpdates, Sealing
    <2>2. /\ SealedAs(aead, r.ctx, a, d + n) /\ IsList(r.out, n)
          /\ \A i \in 1..n : SealsByte(r.out[i], Plain(d + i))
      BY <1>2, <1>3, <1>6, <2>1, Given, SealedData
    <2>3. PICK ct : wire = [aad |-> <<>>, ct |-> ct, tag |-> <<>>]
      BY <1>2
    <2>4. wire.ct = ct
      BY <2>3
    <2>5. PICK h : h = ct \o r.out
      OBVIOUS
    <2>6. CtIs(h, d + n)
      <3>1. CtIs(ct, d)
        BY <2>1, <2>4, Zenon
      <3>. QED BY <2>2, <2>5, <3>1, CtGrows
    <2>7. wire'.ct = h
      <3>1. wire' = [wire EXCEPT !.ct = h]
        BY <1>7, <2>4, <2>5, Zenon
      <3>. QED BY <2>3, <3>1
    <2>. QED BY <1>7, <2>2, <2>6, <2>7, Zenon DEF Sends, EncUpdates
  <1>10. Arrives(a, d + n)' /\ Replaced(a, d + n)'
    BY <1>2 DEF EncUpdates, Arrives, Replaced, Sealing
  <1>. QED BY <1>8, <1>9, <1>10, Zenon DEF AuthInv

\* EncFinal sends the message with its tag.
LEMMA AuthEncFinal == AeadInv /\ AuthInv /\ EncFinal => AuthInv'
  <1>. SUFFICES ASSUME AeadInv, AuthInv, EncFinal PROVE AuthInv'
    OBVIOUS
  <1>1. PICK a, d : Sent(a, d) /\ Sends(a, d)
    BY Zenon DEF AuthInv
  <1>2. /\ ~tampered
        /\ \E ct : wire = [aad |-> <<>>, ct |-> ct, tag |-> <<>>]
    BY AtAnyTime DEF EncFinal, Sealing
  <1>3. SealedAs(aead, cryptor, a, d) /\ CtIs(wire.ct, d)
    BY <1>1 DEF Sends, EncFinal, Sealing
  <1>4. PICK t : t = Tag(cryptor)
    OBVIOUS
  <1>5. t = TagOf(aead, cryptor)
    BY <1>4, Zenon DEF Tag, TagOf
  <1>6. PICK ct : wire = [aad |-> <<>>, ct |-> ct, tag |-> <<>>]
    BY <1>2
  <1>7. PICK s : s = AadOf(a)
    OBVIOUS
  <1>8. wire' = [aad |-> s, ct |-> ct, tag |-> t]
    <2>1. sealed.aad = s
      BY <1>1, <1>7 DEF Sent
    <2>2. wire' = [wire EXCEPT !.aad = s, !.tag = t]
      BY <1>4, <2>1, Zenon DEF EncFinal
    <2>3. PICK x : x = [wire EXCEPT !.aad = s]
      OBVIOUS
    <2>4. wire' = [x EXCEPT !.tag = t]
      BY <2>2, <2>3
    <2>5. x = [aad |-> s, ct |-> ct, tag |-> <<>>]
      BY <1>6, <2>3
    <2>. QED BY <2>4, <2>5
  <1>9. CtIs(ct, d) /\ wire'.tag = t
    <2>1. wire.ct = ct
      BY <1>6
    <2>2. wire'.tag = t
      BY <1>8
    <2>. QED BY <1>3, <2>1, <2>2, Zenon
  <1>10. Arrives(a, d)'
    <2>1. aead' = aead
      BY DEF EncFinal
    <2>. QED BY <1>3, <1>5, <1>7, <1>8, <1>9, <2>1, Zenon DEF Arrives
  <1>11. Sent(a, d)' /\ Sends(a, d)' /\ Replaced(a, d)'
    BY <1>1, <1>2 DEF EncFinal, Sent, Sends, Replaced, Sealing
  <1>. QED BY <1>10, <1>11, Zenon DEF AuthInv

\* Tamper puts something else in its place.
LEMMA AuthTamper == ASSUME NEW other \in Arrivals PROVE AeadInv /\ AuthInv /\ Tamper(other) => AuthInv'
  <1>. SUFFICES ASSUME AeadInv, AuthInv, Tamper(other) PROVE AuthInv'
    OBVIOUS
  <1>1. PICK a, d : Sent(a, d) /\ Arrives(a, d)
    BY Zenon DEF AuthInv
  <1>2. /\ Algorithm(aead) /\ verdict = "none" /\ stage = "wire" /\ ~tampered
        /\ stage \notin Sealing /\ stage \notin Opening
    BY AtAnyTime DEF Types, Tamper, Sealing, Opening
  <1>3. PICK s : SealedAs(aead, s, a, d) /\ wire.tag = TagOf(aead, s)
    BY <1>1, <1>2, Zenon DEF Arrives
  <1>4. PICK ct, t : CtIs(ct, d) /\ wire = [aad |-> AadOf(a), ct |-> ct, tag |-> t]
    BY <1>1, <1>2, Zenon DEF Arrives
  <1>5. a \in Nat /\ wire.tag = t
    BY <1>1, <1>4 DEF Sent
  <1>6. /\ other.tag = t
        /\ \E A, D \in Nat : Fair(aead, other, A, D) /\ Tells(aead, other, a, d, A, D)
    <2>1. Algorithm(aead) /\ a \in Nat
      BY <1>2, <1>5
    <2>2. CtIs(ct, d)
      BY <1>4, Zenon
    <2>3. wire = [aad |-> AadOf(a), ct |-> ct, tag |-> t]
      BY <1>4, Zenon
    <2>. QED BY <2>1, <2>2, <2>3, ArrivalTells, ZenonT(60)
  <1>7. /\ aead' = aead /\ cryptor' = cryptor /\ stage' = stage /\ verdict' = verdict
        /\ wire' = other /\ tampered' /\ sealed' = sealed
    BY DEF Tamper
  <1>8. Sent(a, d)' /\ Sends(a, d)'
    BY <1>1, <1>2, <1>7, Zenon DEF Sent, Sends
  <1>9. Arrives(a, d)'
    BY <1>3, <1>5, <1>6, <1>7, Zenon DEF Arrives
  <1>10. Replaced(a, d)'
    <2>1. \A A, D : OpensReplaced(A, D)'
      BY <1>2, <1>7, Zenon DEF OpensReplaced
    <2>2. verdict' # "ok"
      BY <1>2, <1>7
    <2>. QED BY <1>2, <1>6, <1>7, <2>1, <2>2, Zenon DEF Replaced
  <1>. QED BY <1>8, <1>9, <1>10, Zenon DEF AuthInv

\* StartOpening sets the context up again.
LEMMA AuthStartOpening == AeadInv /\ AuthInv /\ StartOpening => AuthInv'
  <1>. SUFFICES ASSUME AeadInv, AuthInv, StartOpening PROVE AuthInv'
    OBVIOUS
  <1>1. PICK a, d : Sent(a, d) /\ Arrives(a, d) /\ Replaced(a, d)
    BY Zenon DEF AuthInv
  <1>2. Algorithm(aead) /\ opened = Nothing /\ stage \notin Sealing /\ stage' \notin Sealing
    BY AtAnyTime DEF Types, StartOpening, Sealing
  <1>3. /\ aead' = aead /\ stage' # "wire" /\ verdict' = verdict /\ opened' = opened
        /\ wire' = wire /\ tampered' = tampered /\ sealed' = sealed
    BY DEF StartOpening
  <1>4. Sent(a, d)' /\ Sends(a, d)' /\ Arrives(a, d)'
    BY <1>1, <1>2, <1>3, Zenon DEF Sent, Sends, Arrives
  <1>5. ASSUME tampered, NEW A \in Nat, NEW D \in Nat PROVE OpensReplaced(A, D)'
    <2>1. PICK c : c = SetKey(cryptor, iv) /\ c = cryptor'
      BY DEF StartOpening
    <2>2. OpenedAs(aead, c, wire, A, D, 0, 0)
      BY <1>2, <2>1, SetUp, Zenon
    <2>3. opened = [aad |-> <<>>, pt |-> <<>>]
      BY <1>2, Zenon DEF Nothing
    <2>4. IsList(<<>>, 0)
      BY NoCt, Zenon DEF CtIs
    <2>. QED BY <1>3, <2>1, <2>2, <2>3, <2>4, Zenon DEF OpensReplaced
  <1>6. Replaced(a, d)'
    BY <1>1, <1>2, <1>3, <1>5, Zenon DEF Replaced
  <1>. QED BY <1>4, <1>6, Zenon DEF AuthInv

\* DecInit takes the next additional data that arrive.
LEMMA AuthDecInit == ASSUME NEW n \in Chunks PROVE AeadInv /\ AuthInv /\ DecInit(n) => AuthInv'
  <1>. SUFFICES ASSUME AeadInv, AuthInv, DecInit(n) PROVE AuthInv'
    OBVIOUS
  <1>1. PICK a, d : Sent(a, d) /\ Arrives(a, d) /\ Replaced(a, d)
    BY Zenon DEF AuthInv
  <1>2. Algorithm(aead) /\ n \in Nat /\ stage \notin Sealing /\ stage \in Opening /\ stage # "wire"
    BY AtAnyTime, Given DEF Types, DecInit, Sealing, Opening
  <1>3. /\ aead' = aead /\ stage' = stage /\ verdict' = verdict
        /\ wire' = wire /\ tampered' = tampered /\ sealed' = sealed
    BY DEF DecInit
  <1>4. Sent(a, d)' /\ Sends(a, d)' /\ Arrives(a, d)'
    BY <1>1, <1>2, <1>3, Zenon DEF Sent, Sends, Arrives
  <1>5. ASSUME NEW A \in Nat, NEW D \in Nat, Fair(aead, wire, A, D), OpensReplaced(A, D)
        PROVE  OpensReplaced(A, D)'
    <2>1. PICK b, e, p, q : /\ opened = [aad |-> p, pt |-> q] /\ IsList(p, b) /\ IsList(q, e)
                            /\ OpenedAs(aead, cryptor, wire, A, D, b, e)
      BY <1>2, <1>5, Zenon DEF OpensReplaced
    <2>2. opened.aad = p
      BY <2>1
    <2>3. IsList(wire.aad, A)
      BY <1>5, Zenon DEF Fair
    <2>4. Len(opened.aad) = b /\ Len(wire.aad) = A /\ b \in Nat
      BY <2>1, <2>2, <2>3, Lists, Zenon DEF IsList
    <2>5. PICK m : m = b + n
      OBVIOUS
    <2>6. b + n <= A
      BY <2>4 DEF DecInit
    <2>7. PICK u, in : u = wire.aad /\ in = SubSeq(u, b + 1, m)
      OBVIOUS
    <2>8. cryptor' = AddAad(cryptor, in) /\ opened' = [opened EXCEPT !.aad = @ \o in]
      BY <2>4, <2>5, <2>7, Zenon DEF DecInit
    <2>9. PICK c : c = cryptor'
      OBVIOUS
    <2>10. OpenedAs(aead, c, wire, A, D, m, e)
      <3>1. c = AddAad(cryptor, SubSeq(wire.aad, b + 1, m))
        BY <2>7, <2>8, <2>9, Zenon
      <3>. QED BY <1>2, <1>5, <2>1, <2>5, <2>6, <3>1, Given, OpenedAad, Zenon
    <2>11. IsList(in, n)
      <3>1. IsList(u, A)
        BY <2>3, <2>7, Zenon
      <3>2. CutFrom(in, n, u, b)
        BY <1>2, <2>4, <2>5, <2>6, <2>7, <3>1, PieceIs, Zenon
      <3>. QED BY <3>2, Zenon DEF CutFrom
    <2>12. PICK h : h = p \o in
      OBVIOUS
    <2>13. IsList(h, m)
      BY <2>1, <2>5, <2>11, <2>12, JoinLists, Zenon
    <2>14. opened' = [aad |-> h, pt |-> q]
      <3>1. opened' = [opened EXCEPT !.aad = h]
        BY <2>2, <2>8, <2>12, Zenon
      <3>. QED BY <2>1, <3>1
    <2>. QED BY <1>3, <2>1, <2>9, <2>10, <2>13, <2>14, Zenon DEF OpensReplaced
  <1>6. Replaced(a, d)'
    BY <1>1, <1>2, <1>3, <1>5, Zenon DEF Replaced
  <1>. QED BY <1>4, <1>6, Zenon DEF AuthInv

\* DecUpdates opens the next bytes that arrive.
LEMMA AuthDecUpdates ==
  ASSUME NEW n \in Chunks PROVE AeadInv /\ AuthInv /\ DecUpdates(n) => AuthInv'
  <1>. SUFFICES ASSUME AeadInv, AuthInv, DecUpdates(n) PROVE AuthInv'
    OBVIOUS
  <1>1. PICK a, d : Sent(a, d) /\ Arrives(a, d) /\ Replaced(a, d)
    BY Zenon DEF AuthInv
  <1>2. /\ Algorithm(aead) /\ n \in Nat /\ stage \notin Sealing /\ stage \in Opening
        /\ stage' \notin Sealing /\ stage' # "wire"
    BY AtAnyTime, Given DEF Types, DecUpdates, Sealing, Opening
  <1>3. /\ aead' = aead /\ verdict' = verdict
        /\ wire' = wire /\ tampered' = tampered /\ sealed' = sealed
    BY DEF DecUpdates
  <1>4. Sent(a, d)' /\ Sends(a, d)' /\ Arrives(a, d)'
    BY <1>1, <1>2, <1>3, Zenon DEF Sent, Sends, Arrives
  <1>5. ASSUME NEW A \in Nat, NEW D \in Nat, Fair(aead, wire, A, D), OpensReplaced(A, D)
        PROVE  OpensReplaced(A, D)'
    <2>1. PICK b, e, p, q : /\ opened = [aad |-> p, pt |-> q] /\ IsList(p, b) /\ IsList(q, e)
                            /\ OpenedAs(aead, cryptor, wire, A, D, b, e)
      BY <1>2, <1>5, Zenon DEF OpensReplaced
    <2>2. opened.pt = q
      BY <2>1
    <2>3. IsList(wire.ct, D)
      BY <1>5, Zenon DEF Fair
    <2>4. Len(opened.pt) = e /\ Len(wire.ct) = D /\ e \in Nat
      BY <2>1, <2>2, <2>3, Lists, Zenon DEF IsList
    <2>5. PICK m : m = e + n
      OBVIOUS
    <2>6. e + n <= D
      BY <2>4 DEF DecUpdates
    <2>7. PICK u, in : u = wire.ct /\ in = SubSeq(u, e + 1, m)
      OBVIOUS
    <2>8. PICK r : r = DecUpdate(cryptor, in)
      OBVIOUS
    <2>9. cryptor' = r.ctx /\ opened' = [opened EXCEPT !.pt = @ \o r.out]
      BY <2>4, <2>5, <2>7, <2>8, Zenon DEF DecUpdates
    <2>10. OpenedAs(aead, r.ctx, wire, A, D, b, m) /\ IsList(r.out, n)
      <3>1. r = DecUpdate(cryptor, SubSeq(wire.ct, e + 1, m))
        BY <2>7, <2>8, Zenon
      <3>. QED BY <1>2, <1>5, <2>1, <2>5, <2>6, <3>1, Given, OpenedData, Zenon
    <2>11. PICK h : h = q \o r.out
      OBVIOUS
    <2>12. IsList(h, m)
      BY <2>1, <2>5, <2>10, <2>11, JoinLists, Zenon
    <2>13. opened' = [aad |-> p, pt |-> h]
      <3>1. opened' = [opened EXCEPT !.pt = h]
        BY <2>2, <2>9, <2>11, Zenon
      <3>. QED BY <2>1, <3>1
    <2>. QED BY <1>3, <2>1, <2>9, <2>10, <2>12, <2>13, Zenon DEF OpensReplaced
  <1>6. Replaced(a, d)'
    BY <1>1, <1>2, <1>3, <1>5, Zenon DEF Replaced
  <1>. QED BY <1>4, <1>6, Zenon DEF AuthInv

\* DecFinal finds that the tag is another one.
LEMMA AuthDecFinal == AeadInv /\ AuthInv /\ DecFinal => AuthInv'
  <1>. SUFFICES ASSUME AeadInv, AuthInv, DecFinal PROVE AuthInv'
    OBVIOUS
  <1>1. PICK a, d : Sent(a, d) /\ Arrives(a, d) /\ Replaced(a, d)
    BY Zenon DEF AuthInv
  <1>2. /\ Algorithm(aead) /\ stage \notin Sealing /\ stage \in Opening
        /\ stage' \notin Sealing /\ stage' \notin Opening /\ stage' # "wire"
    BY AtAnyTime DEF Types, DecFinal, Sealing, Opening
  <1>3. aead' = aead /\ wire' = wire /\ tampered' = tampered /\ sealed' = sealed
    BY DEF DecFinal
  <1>4. Sent(a, d)' /\ Sends(a, d)' /\ Arrives(a, d)'
    BY <1>1, <1>2, <1>3, Zenon DEF Sent, Sends, Arrives
  <1>5. ASSUME tampered PROVE verdict' # "ok"
    <2>1. PICK A, D \in Nat : /\ Fair(aead, wire, A, D) /\ Tells(aead, wire, a, d, A, D)
                              /\ OpensReplaced(A, D)
      BY <1>1, <1>5, Zenon DEF Replaced
    <2>2. PICK b, e, p, q : /\ opened = [aad |-> p, pt |-> q] /\ IsList(p, b) /\ IsList(q, e)
                            /\ OpenedAs(aead, cryptor, wire, A, D, b, e)
      BY <1>2, <2>1, Zenon DEF OpensReplaced
    <2>3. opened.aad = p /\ opened.pt = q
      BY <2>2
    <2>4. IsList(wire.aad, A) /\ IsList(wire.ct, D)
      BY <2>1, Zenon DEF Fair
    <2>5. b = A /\ e = D
      BY <2>2, <2>3, <2>4, Lists, Zenon DEF DecFinal
    <2>6. PICK s : SealedAs(aead, s, a, d) /\ wire.tag = TagOf(aead, s)
      BY <1>1, <1>2, Zenon DEF Arrives
    <2>7. a \in Nat /\ d \in Nat /\ OpenedAs(aead, cryptor, wire, A, D, A, D)
      BY <1>1, <2>2, <2>5, Zenon DEF Sent
    <2>8. TagOf(aead, cryptor) # TagOf(aead, s)
      BY <1>2, <2>1, <2>6, <2>7, Given, TagsDiffer, Zenon
    <2>9. Tag(cryptor) = TagOf(aead, cryptor)
      BY Zenon DEF Tag, TagOf
    <2>10. Tag(cryptor) # wire.tag
      BY <2>6, <2>8, <2>9, Zenon
    <2>. QED BY <2>10 DEF DecFinal
  <1>6. Replaced(a, d)'
    BY <1>1, <1>2, <1>3, <1>5, Zenon DEF Replaced, OpensReplaced
  <1>. QED BY <1>4, <1>6, Zenon DEF AuthInv

\* The invariant is inductive.
LEMMA AuthNext == AeadInv /\ AuthInv /\ [AeadNext]_aeadVars => AuthInv'
  <1>. SUFFICES ASSUME AeadInv, AuthInv, [AeadNext]_aeadVars PROVE AuthInv'
    OBVIOUS
  <1>1. CASE StartAgain
    BY <1>1, AuthStartAgain
  <1>2. CASE EncFinal
    BY <1>2, AuthEncFinal
  <1>3. CASE StartOpening
    BY <1>3, AuthStartOpening
  <1>4. CASE DecFinal
    BY <1>4, AuthDecFinal
  <1>5. ASSUME NEW n \in Chunks, EncInit(n) \/ EncUpdates(n) \/ DecInit(n) \/ DecUpdates(n)
        PROVE  AuthInv'
    BY <1>5, AuthEncInit, AuthEncUpdates, AuthDecInit, AuthDecUpdates, Zenon
  <1>6. ASSUME NEW other \in Arrivals, Tamper(other) PROVE AuthInv'
    BY <1>6, AuthTamper, Zenon
  <1>7. CASE UNCHANGED aeadVars
    <2>1. PICK a, d : Sent(a, d) /\ Sends(a, d) /\ Arrives(a, d) /\ Replaced(a, d)
      BY Zenon DEF AuthInv
    <2>2. /\ aead' = aead /\ cryptor' = cryptor /\ stage' = stage /\ sealed' = sealed
          /\ wire' = wire /\ tampered' = tampered /\ opened' = opened /\ verdict' = verdict
      BY <1>7 DEF aeadVars
    <2>3. Sent(a, d)' /\ Sends(a, d)' /\ Arrives(a, d)' /\ Replaced(a, d)'
      BY <2>1, <2>2, Zenon DEF Sent, Sends, Arrives, Replaced, OpensReplaced
    <2>. QED BY <2>3, Zenon DEF AuthInv
  <1>. QED BY <1>1, <1>2, <1>3, <1>4, <1>5, <1>6, <1>7, Zenon DEF AeadNext

\* What was changed on its way is not accepted: the bytes, their number and
\* the boundary between additional data and ciphertext are in what the final
\* call hashes (gcm_dec_final, lc_chacha20_poly1305_dec_final) or in the state
\* it takes the tag from (lc_ascon_dec_final_check).
THEOREM ChangesAreRejected == AeadSpec => []ChangedIsRejected
  <1>1. AuthInv => ChangedIsRejected
    BY Zenon DEF AuthInv, Replaced, ChangedIsRejected
  <1>. QED BY <1>1, AeadInitInv, AeadNextInv, AuthInit, AuthNext, PTL DEF AeadSpec
===============================================================================
