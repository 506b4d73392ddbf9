----------------------------- MODULE ModesProofs ------------------------------
(***************************************************************************)
(* Theorems about Modes for every block size, every message and every way  *)
(* of cutting it.                                                          *)
(***************************************************************************)
EXTENDS Modes, SequenceTheorems, WellFoundedInduction, TLAPS

-----------------------------------------------------------------------------
(* Numbers, bytes and blocks.                                              *)

\* Induction over the natural numbers for a set.
LEMMA SetInduction ==
  ASSUME NEW S, 0 \in S, \A n \in Nat : n \in S => n + 1 \in S
  PROVE  \A n \in Nat : n \in S
  <1>. DEFINE T == Nat \ S
              Less == OpToRel(<, Nat)
  <1>. SUFFICES ASSUME T # {} PROVE FALSE
    OBVIOUS
  <1>1. IsWellFoundedOn(Less, Nat)
    BY NatLessThanWellFounded DEF OpToRel
  <1>2. \A m, n \in Nat : m < n => <<m, n>> \in Less
    BY DEF OpToRel
  <1>. HIDE DEF Less
  <1>3. PICK n \in T : \A m \in T : ~ (<<m, n>> \in Less)
    BY <1>1, WFMin
  <1>4. n # 0 /\ n - 1 \in Nat /\ n - 1 < n
    BY <1>3
  <1>5. n - 1 \notin T
    BY <1>2, <1>3, <1>4
  <1>. QED BY <1>3, <1>4, <1>5

LEMMA BlockSize == BS \in Nat /\ BS > 0 /\ BS % 2 = 0
  BY ModesAssumption DEF ModesAssumption

Name == {"aes", "iv", "ctr", "tweak", "AES_KW_IV", "t", "zero", "pt", "untouched"}
Atom == [of : Name \X Nat, at : Nat]
Byte == SUBSET Atom
Bytes(n) == [1..n -> Byte]

\* A string of n bytes is a sequence.
LEMMA BytesAreSeq ==
  ASSUME NEW n \in Nat, NEW f \in Bytes(n)
  PROVE  f \in Seq(Byte) /\ Len(f) = n /\ DOMAIN f = 1..n
  BY DEF Bytes

LEMMA SeqIsBytes ==
  ASSUME NEW s \in Seq(Byte)
  PROVE  s \in Bytes(Len(s)) /\ Len(s) \in Nat
  BY DEF Bytes

LEMMA SameBytes ==
  ASSUME NEW n \in Nat, NEW f \in Bytes(n), NEW g \in Bytes(n),
         \A i \in 1..n : f[i] = g[i]
  PROVE  f = g
  BY DEF Bytes

\* Sequences of the same bytes are the same.
LEMMA SameSeq ==
  ASSUME NEW s \in Seq(Byte), NEW t \in Seq(Byte), Len(s) = Len(t),
         \A i \in 1..Len(s) : s[i] = t[i]
  PROVE  s = t
  OBVIOUS

LEMMA NamedIs ==
  ASSUME NEW of \in Name \X Nat, NEW n \in Nat
  PROVE  /\ Named(of, n) \in Bytes(n)
         /\ \A i \in 1..n : Named(of, n)[i] = {[of |-> of, at |-> i]}
  BY DEF Named, Bytes, Byte, Atom

\* Different names are different from the first byte on.
LEMMA NamedDiffer ==
  ASSUME NEW p, NEW q, NEW m \in Nat, NEW n \in Nat, m > 0, n > 0, p # q
  PROVE  Named(p, m)[1] # Named(q, n)[1]
  <1>1. Named(p, m)[1] = {[of |-> p, at |-> 1]} /\ Named(q, n)[1] = {[of |-> q, at |-> 1]}
    BY DEF Named
  <1>2. [of |-> p, at |-> 1] # [of |-> q, at |-> 1]
    OBVIOUS
  <1>. QED BY <1>1, <1>2

LEMMA XorIs ==
  ASSUME NEW n \in Nat, NEW a \in Bytes(n), NEW b \in Bytes(n)
  PROVE  /\ XorBytes(a, b) \in Bytes(n)
         /\ \A i \in 1..n : XorBytes(a, b)[i] = (a[i] \ b[i]) \union (b[i] \ a[i])
  BY DEF XorBytes, Bytes, Byte

\* What was XORed twice is back.
LEMMA XorTwice ==
  ASSUME NEW n \in Nat, NEW a \in Bytes(n), NEW b \in Bytes(n)
  PROVE  XorBytes(XorBytes(a, b), b) = a
  <1>1. PICK c : c = XorBytes(a, b)
    OBVIOUS
  <1>2. c \in Bytes(n) /\ \A i \in 1..n : c[i] = (a[i] \ b[i]) \union (b[i] \ a[i])
    BY <1>1, XorIs
  <1>3. /\ XorBytes(c, b) \in Bytes(n)
        /\ \A i \in 1..n : XorBytes(c, b)[i] = (c[i] \ b[i]) \union (b[i] \ c[i])
    BY <1>2, XorIs
  <1>4. \A A, B : (((A \ B) \union (B \ A)) \ B) \union (B \ ((A \ B) \union (B \ A))) = A
    OBVIOUS
  <1>5. ASSUME NEW i \in 1..n PROVE XorBytes(c, b)[i] = a[i]
    <2>1. c[i] = (a[i] \ b[i]) \union (b[i] \ a[i])
      BY <1>2
    <2>2. XorBytes(c, b)[i] = (c[i] \ b[i]) \union (b[i] \ c[i])
      BY <1>3
    <2>. QED BY <1>4, <2>1, <2>2, Zenon
  <1>. QED BY <1>1, <1>3, <1>5, SameBytes

LEMMA PieceIs ==
  ASSUME NEW in \in Seq(Byte), NEW from \in Nat, NEW n \in Nat, from + n <= Len(in)
  PROVE  /\ Piece(in, from, n) \in Bytes(n)
         /\ \A i \in 1..n : Piece(in, from, n)[i] = in[from + i]
  <1>1. PICK s : s = SubSeq(in, from + 1, from + n)
    OBVIOUS
  <1>2. \A i \in (from + 1)..(from + n) : in[i] \in Byte
    OBVIOUS
  <1>3. /\ s \in Seq(Byte)
        /\ Len(s) = IF from + 1 <= from + n THEN (from + n) - (from + 1) + 1 ELSE 0
        /\ \A i \in 1..((from + n) - (from + 1) + 1) : s[i] = in[(from + 1) + i - 1]
    BY <1>1, <1>2, SubSeqProperties
  <1>4. Len(s) = n /\ \A i \in 1..n : s[i] = in[from + i]
    BY <1>3
  <1>. QED BY <1>1, <1>3, <1>4, SeqIsBytes DEF Piece

LEMMA CatIs ==
  ASSUME NEW s \in Seq(Byte), NEW t \in Seq(Byte)
  PROVE  /\ s \o t \in Seq(Byte) /\ Len(s \o t) = Len(s) + Len(t)
         /\ \A i \in 1..Len(s) : (s \o t)[i] = s[i]
         /\ \A i \in 1..Len(t) : (s \o t)[Len(s) + i] = t[i]
  OBVIOUS

-----------------------------------------------------------------------------
(* AES.                                                                    *)

Block == Bytes(BS)

\* A table of blocks that were encrypted, each of them once.
IsTable(T) ==
  /\ T \in Seq([dir : {"enc"}, of : Block])
  /\ \A i, j \in 1..Len(T) : T[i].of = T[j].of => i = j

\* A table that only grew.
Extends(T, U) ==
  /\ Len(T) <= Len(U)
  /\ \A i \in 1..Len(T) : U[i] = T[i]

\* AES takes block x to block y.
Enciphers(T, x, y) ==
  \E i \in 1..Len(T) : T[i].of = x /\ y = Named(<<"aes", i>>, BS)

IsState(s) == s = [table |-> s.table, res |-> s.res, out |-> s.out, iv |-> s.iv]

LEMMA EntryIs ==
  ASSUME NEW T, IsTable(T)
  PROVE  /\ Len(T) \in Nat /\ DOMAIN T = 1..Len(T)
         /\ \A i \in 1..Len(T) :
              /\ i \in Nat /\ T[i].dir = "enc" /\ T[i].of \in Block
              /\ T[i] = [dir |-> "enc", of |-> T[i].of]
  <1>. DEFINE E == [dir : {"enc"}, of : Block]
  <1>1. T \in Seq(E)
    BY DEF IsTable
  <1>2. \A x \in E : x.dir = "enc" /\ x.of \in Block /\ x = [dir |-> "enc", of |-> x.of]
    OBVIOUS
  <1>. HIDE DEF E
  <1>3. Len(T) \in Nat /\ DOMAIN T = 1..Len(T) /\ \A i \in 1..Len(T) : T[i] \in E /\ i \in Nat
    BY <1>1
  <1>. QED BY <1>2, <1>3

LEMMA ExtendsIs ==
  ASSUME NEW T, NEW U, NEW V, IsTable(T), IsTable(U), IsTable(V)
  PROVE  /\ Extends(T, T)
         /\ Extends(T, U) /\ Extends(U, V) => Extends(T, V)
  BY DEF Extends, IsTable

LEMMA EnciphersStays ==
  ASSUME NEW T, NEW U, NEW x, NEW y, IsTable(T), IsTable(U), Extends(T, U),
         Enciphers(T, x, y)
  PROVE  Enciphers(U, x, y)
  <1>1. PICK i \in 1..Len(T) : T[i].of = x /\ y = Named(<<"aes", i>>, BS)
    BY DEF Enciphers
  <1>2. i \in 1..Len(U) /\ U[i] = T[i]
    BY DEF IsTable, Extends
  <1>. QED BY <1>1, <1>2 DEF Enciphers

LEMMA EnciphersOnce ==
  ASSUME NEW T, NEW x, NEW y, NEW z, IsTable(T), Enciphers(T, x, y), Enciphers(T, x, z)
  PROVE  y = z
  <1>1. PICK i \in 1..Len(T) : T[i].of = x /\ y = Named(<<"aes", i>>, BS)
    BY DEF Enciphers
  <1>2. PICK j \in 1..Len(T) : T[j].of = x /\ z = Named(<<"aes", j>>, BS)
    BY DEF Enciphers
  <1>3. i = j
    BY <1>1, <1>2 DEF IsTable
  <1>. QED BY <1>1, <1>2, <1>3

LEMMA EnciphersBlocks ==
  ASSUME NEW T, NEW x, NEW y, IsTable(T), Enciphers(T, x, y)
  PROVE  x \in Block /\ y \in Block
  <1>1. PICK i \in 1..Len(T) : T[i].of = x /\ y = Named(<<"aes", i>>, BS)
    BY DEF Enciphers
  <1>2. x \in Block
    BY <1>1, EntryIs
  <1>3. i \in Nat
    BY EntryIs
  <1>4. <<"aes", i>> \in Name \X Nat
    BY <1>3 DEF Name
  <1>. QED BY <1>1, <1>2, <1>4, NamedIs, BlockSize DEF Block

\* AES in one direction, with a table of the other one's results.
LEMMA NothingUndone ==
  ASSUME NEW T, IsTable(T), NEW block
  PROVE  ResultOf(T, "dec", block) = 0
  <1>1. \A i \in DOMAIN T : T[i].dir # "dec"
    BY EntryIs
  <1>. QED BY <1>1 DEF ResultOf

LEMMA EncryptedIs ==
  ASSUME NEW s, IsState(s), IsTable(s.table), NEW x \in Block, NEW e, e = Encrypted(s, x)
  PROVE  /\ IsState(e) /\ IsTable(e.table) /\ Extends(s.table, e.table)
         /\ Enciphers(e.table, x, e.res) /\ e.res \in Block
         /\ e.iv = s.iv /\ e.out = s.out
  <1>. DEFINE T == s.table
              new == [dir |-> "enc", of |-> x]
              known == {i \in DOMAIN T : T[i] = new}
              id == IF known = {} THEN Len(T) + 1 ELSE CHOOSE i \in known : TRUE
              U == IF known = {} THEN Append(T, new) ELSE T
              E == [dir : {"enc"}, of : Block]
  <1>1. e = [s EXCEPT !.table = IF known = {} THEN Append(@, new) ELSE @,
                      !.res = Named(<<"aes", id>>, BS)]
    BY NothingUndone DEF Encrypted, Aes
  <1>2. e = [table |-> U, res |-> Named(<<"aes", id>>, BS), out |-> s.out, iv |-> s.iv]
    BY <1>1 DEF IsState
  <1>3. /\ e.table = U /\ e.res = Named(<<"aes", id>>, BS)
        /\ e.iv = s.iv /\ e.out = s.out /\ IsState(e)
    BY <1>2 DEF IsState
  <1>4. /\ T \in Seq(E) /\ new \in E /\ new.of = x /\ Len(T) \in Nat
        /\ DOMAIN T = 1..Len(T)
        /\ \A i \in 1..Len(T) : T[i] = [dir |-> "enc", of |-> T[i].of]
    BY EntryIs DEF IsTable
  <1>5. CASE known = {}
    <2>1. U = Append(T, new) /\ id = Len(T) + 1
      BY <1>5
    <2>2. /\ U \in Seq(E) /\ Len(U) = Len(T) + 1
          /\ U[Len(T) + 1] = new /\ \A i \in 1..Len(T) : U[i] = T[i]
      <3>1. PICK V, n : V = Append(T, n) /\ n = new
        OBVIOUS
      <3>. HIDE DEF E, new
      <3>2. /\ V \in Seq(E) /\ Len(V) = Len(T) + 1
            /\ V[Len(T) + 1] = n /\ \A i \in 1..Len(T) : V[i] = T[i]
        BY <1>4, <3>1
      <3>. QED BY <2>1, <3>1, <3>2
    <2>3. \A i \in 1..Len(T) : T[i].of # x
      <3>1. \A i \in 1..Len(T) : T[i] # new
        BY <1>4, <1>5
      <3>. QED BY <1>4, <3>1
    <2>4. \A i \in 1..Len(U) : i \in 1..Len(T) \/ i = Len(T) + 1
      BY <1>4, <2>2
    <2>5. new.of = x
      OBVIOUS
    <2>6. IsTable(U)
      BY <2>2, <2>3, <2>4, <2>5 DEF IsTable
    <2>7. Extends(T, U)
      BY <1>4, <2>2 DEF Extends
    <2>8. Enciphers(U, x, Named(<<"aes", id>>, BS))
      <3>1. id \in 1..Len(U) /\ U[id].of = x
        BY <1>4, <2>1, <2>2, <2>5
      <3>. HIDE DEF id, U
      <3>. QED BY <3>1 DEF Enciphers
    <2>. QED BY <1>3, <2>6, <2>7, <2>8, EnciphersBlocks
  <1>6. CASE known # {}
    <2>1. U = T /\ id \in known
      BY <1>6
    <2>2. id \in 1..Len(T) /\ T[id].of = x
      BY <1>4, <2>1
    <2>3. Enciphers(T, x, Named(<<"aes", id>>, BS))
      BY <2>2 DEF Enciphers
    <2>. QED BY <1>3, <2>1, <2>3, EnciphersBlocks, ExtendsIs
  <1>. QED BY <1>5, <1>6

\* Decryption finds what was encrypted.
LEMMA DecryptedIs ==
  ASSUME NEW s, IsState(s), IsTable(s.table), NEW x, NEW y, Enciphers(s.table, x, y)
  PROVE  Decrypted(s, y) = [s EXCEPT !.res = x]
  <1>. DEFINE T == s.table
              ids == {i \in DOMAIN T : T[i].dir = "enc" /\ y = Named(<<"aes", i>>, BS)}
  <1>1. PICK i \in 1..Len(T) : T[i].of = x /\ y = Named(<<"aes", i>>, BS)
    BY DEF Enciphers
  <1>2. DOMAIN T = 1..Len(T) /\ T[i].dir = "enc"
    BY EntryIs
  <1>3. i \in ids
    BY <1>1, <1>2
  <1>4. ASSUME NEW j \in ids PROVE j = i
    <2>1. Named(<<"aes", i>>, BS)[1] = Named(<<"aes", j>>, BS)[1]
      BY <1>1
    <2>2. <<"aes", i>> = <<"aes", j>>
      BY <2>1, NamedDiffer, BlockSize
    <2>. QED BY <2>2
  <1>5. (CHOOSE j \in ids : TRUE) = i
    BY <1>3, <1>4
  <1>6. ResultOf(T, "enc", y) = i
    BY <1>3, <1>5 DEF ResultOf
  <1>7. i # 0
    OBVIOUS
  <1>. QED BY <1>1, <1>6, <1>7 DEF Decrypted, Aes

-----------------------------------------------------------------------------
(* Loops over the blocks of a message.                                     *)

\* The bodies of the loops, by name.
Turn(call, s, b) ==
  CASE call = "cbc-enc" -> CbcEncBlock(s, b)
    [] call = "cbc-dec" -> CbcDecBlock(s, b)
    [] call = "ctr"     -> CtrBytes(s, b)
    [] call = "xts-enc" -> XtsEncNext(s, b)
    [] call = "xts-dec" -> XtsDecNext(s, b)

After(d) == [d EXCEPT !.out = @ \o d.res]

\* f is the loop over the first n blocks of in.
IsLoop(call, s, in, n, f) ==
  f = [i \in 0..n |-> IF i = 0 THEN [s EXCEPT !.out = <<>>]
                      ELSE After(Turn(call, f[i - 1], Piece(in, (i - 1) * BS, BS)))]

\* There is a loop, however it begins and whatever it is given.
LEMMA LoopExists ==
  ASSUME NEW call, NEW s, NEW in, NEW n \in Nat
  PROVE  \E f : IsLoop(call, s, in, n, f)
  <1>. DEFINE S == {m \in Nat : \E f : IsLoop(call, s, in, m, f)}
  <1>1. 0 \in S
    <2>1. IsLoop(call, s, in, 0, [i \in 0..0 |-> [s EXCEPT !.out = <<>>]])
      BY DEF IsLoop
    <2>. QED BY <2>1
  <1>2. ASSUME NEW m \in Nat, m \in S PROVE m + 1 \in S
    <2>1. PICK f : IsLoop(call, s, in, m, f)
      BY <1>2
    <2>. DEFINE g == [i \in 0..(m + 1) |->
                       IF i <= m THEN f[i]
                       ELSE After(Turn(call, f[m], Piece(in, m * BS, BS)))]
    <2>2. \A i \in 0..(m + 1) : g[i] = IF i = 0 THEN [s EXCEPT !.out = <<>>]
                                       ELSE After(Turn(call, g[i - 1], Piece(in, (i - 1) * BS, BS)))
      <3>1. \A i \in 0..m : f[i] = IF i = 0 THEN [s EXCEPT !.out = <<>>]
                                   ELSE After(Turn(call, f[i - 1], Piece(in, (i - 1) * BS, BS)))
        BY <2>1 DEF IsLoop
      <3>2. ASSUME NEW i \in 0..(m + 1), i <= m
            PROVE  g[i] = IF i = 0 THEN [s EXCEPT !.out = <<>>]
                          ELSE After(Turn(call, g[i - 1], Piece(in, (i - 1) * BS, BS)))
        <4>1. i \in 0..m /\ g[i] = f[i] /\ (i # 0 => g[i - 1] = f[i - 1])
          BY <3>2
        <4>. QED BY <3>1, <4>1
      <3>3. ASSUME NEW i \in 0..(m + 1), ~ (i <= m)
            PROVE  g[i] = IF i = 0 THEN [s EXCEPT !.out = <<>>]
                          ELSE After(Turn(call, g[i - 1], Piece(in, (i - 1) * BS, BS)))
        <4>1. i # 0 /\ i - 1 = m /\ g[i] = After(Turn(call, f[m], Piece(in, m * BS, BS))) /\ g[m] = f[m]
          BY <3>3
        <4>. QED BY <4>1
      <3>. QED BY <3>2, <3>3
    <2>3. IsLoop(call, s, in, m + 1, g)
      BY <2>2, Zenon DEF IsLoop
    <2>. QED BY <2>3
  <1>. HIDE DEF S
  <1>3. n \in S
    BY <1>1, <1>2, SetInduction
  <1>. QED BY <1>3 DEF S

\* What a loop is at each turn.
Turns(call, s, in, n, f) ==
  /\ f[0] = [s EXCEPT !.out = <<>>]
  /\ \A i \in Nat : i < n =>
       f[i + 1] = After(Turn(call, f[i], Piece(in, i * BS, BS)))

LEMMA LoopTurns ==
  ASSUME NEW call, NEW s, NEW in, NEW n \in Nat, NEW f, IsLoop(call, s, in, n, f)
  PROVE  Turns(call, s, in, n, f)
  <1>1. \A i \in 0..n : f[i] = IF i = 0 THEN [s EXCEPT !.out = <<>>]
                               ELSE After(Turn(call, f[i - 1], Piece(in, (i - 1) * BS, BS)))
    BY DEF IsLoop
  <1>2. ASSUME NEW i \in Nat, i < n
        PROVE  f[i + 1] = After(Turn(call, f[i], Piece(in, i * BS, BS)))
    <2>1. i + 1 \in 0..n /\ i + 1 # 0 /\ (i + 1) - 1 = i
      BY <1>2
    <2>. QED BY <1>1, <2>1
  <1>. QED BY <1>1, <1>2 DEF Turns

\* The loop of mode_cbc_encrypt.
LEMMA CbcEncrypts ==
  ASSUME NEW s, NEW in, NEW n \in Nat
  PROVE  \E f : IsLoop("cbc-enc", s, in, n, f) /\ Loop(s, in, n, BS, CbcEncBlock) = f[n]
  <1>. DEFINE Is(f) == f = [i \in 0..n |->
                             IF i = 0 THEN [s EXCEPT !.out = <<>>]
                             ELSE LET d == CbcEncBlock(f[i - 1], Piece(in, (i - 1) * BS, BS))
                                  IN [d EXCEPT !.out = @ \o d.res]]
  <1>1. \A d, b : Turn("cbc-enc", d, b) = CbcEncBlock(d, b)
    BY DEF Turn
  <1>2. \A f : Is(f) <=> IsLoop("cbc-enc", s, in, n, f)
    <2>1. ASSUME NEW f
          PROVE  [i \in 0..n |->
                    IF i = 0 THEN [s EXCEPT !.out = <<>>]
                    ELSE LET d == CbcEncBlock(f[i - 1], Piece(in, (i - 1) * BS, BS))
                         IN [d EXCEPT !.out = @ \o d.res]]
                 = [i \in 0..n |->
                      IF i = 0 THEN [s EXCEPT !.out = <<>>]
                      ELSE After(Turn("cbc-enc", f[i - 1], Piece(in, (i - 1) * BS, BS)))]
      BY <1>1, Zenon DEF After
    <2>. QED BY <2>1, Zenon DEF IsLoop
  <1>3. Loop(s, in, n, BS, CbcEncBlock) = (CHOOSE f : Is(f))[n]
    BY Zenon DEF Loop
  <1>. HIDE DEF Is
  <1>4. Is(CHOOSE f : Is(f))
    BY <1>2, LoopExists, Zenon
  <1>. QED BY <1>2, <1>3, <1>4, Zenon

\* The loop of mode_cbc_decrypt.
LEMMA CbcDecrypts ==
  ASSUME NEW s, NEW in, NEW n \in Nat
  PROVE  \E f : IsLoop("cbc-dec", s, in, n, f) /\ Loop(s, in, n, BS, CbcDecBlock) = f[n]
  <1>. DEFINE Is(f) == f = [i \in 0..n |->
                             IF i = 0 THEN [s EXCEPT !.out = <<>>]
                             ELSE LET d == CbcDecBlock(f[i - 1], Piece(in, (i - 1) * BS, BS))
                                  IN [d EXCEPT !.out = @ \o d.res]]
  <1>1. \A d, b : Turn("cbc-dec", d, b) = CbcDecBlock(d, b)
    BY DEF Turn
  <1>2. \A f : Is(f) <=> IsLoop("cbc-dec", s, in, n, f)
    <2>1. ASSUME NEW f
          PROVE  [i \in 0..n |->
                    IF i = 0 THEN [s EXCEPT !.out = <<>>]
                    ELSE LET d == CbcDecBlock(f[i - 1], Piece(in, (i - 1) * BS, BS))
                         IN [d EXCEPT !.out = @ \o d.res]]
                 = [i \in 0..n |->
                      IF i = 0 THEN [s EXCEPT !.out = <<>>]
                      ELSE After(Turn("cbc-dec", f[i - 1], Piece(in, (i - 1) * BS, BS)))]
      BY <1>1, Zenon DEF After
    <2>. QED BY <2>1, Zenon DEF IsLoop
  <1>3. Loop(s, in, n, BS, CbcDecBlock) = (CHOOSE f : Is(f))[n]
    BY Zenon DEF Loop
  <1>. HIDE DEF Is
  <1>4. Is(CHOOSE f : Is(f))
    BY <1>2, LoopExists, Zenon
  <1>. QED BY <1>2, <1>3, <1>4, Zenon

\* The loop of mode_ctr_crypt.
LEMMA CtrCrypts ==
  ASSUME NEW s, NEW in, NEW n \in Nat
  PROVE  \E f : IsLoop("ctr", s, in, n, f) /\ Loop(s, in, n, BS, CtrBytes) = f[n]
  <1>. DEFINE Is(f) == f = [i \in 0..n |->
                             IF i = 0 THEN [s EXCEPT !.out = <<>>]
                             ELSE LET d == CtrBytes(f[i - 1], Piece(in, (i - 1) * BS, BS))
                                  IN [d EXCEPT !.out = @ \o d.res]]
  <1>1. \A d, b : Turn("ctr", d, b) = CtrBytes(d, b)
    BY DEF Turn
  <1>2. \A f : Is(f) <=> IsLoop("ctr", s, in, n, f)
    <2>1. ASSUME NEW f
          PROVE  [i \in 0..n |->
                    IF i = 0 THEN [s EXCEPT !.out = <<>>]
                    ELSE LET d == CtrBytes(f[i - 1], Piece(in, (i - 1) * BS, BS))
                         IN [d EXCEPT !.out = @ \o d.res]]
                 = [i \in 0..n |->
                      IF i = 0 THEN [s EXCEPT !.out = <<>>]
                      ELSE After(Turn("ctr", f[i - 1], Piece(in, (i - 1) * BS, BS)))]
      BY <1>1, Zenon DEF After
    <2>. QED BY <2>1, Zenon DEF IsLoop
  <1>3. Loop(s, in, n, BS, CtrBytes) = (CHOOSE f : Is(f))[n]
    BY Zenon DEF Loop
  <1>. HIDE DEF Is
  <1>4. Is(CHOOSE f : Is(f))
    BY <1>2, LoopExists, Zenon
  <1>. QED BY <1>2, <1>3, <1>4, Zenon

\* The loop of mode_xts_encrypt.
LEMMA XtsEncrypts ==
  ASSUME NEW s, NEW in, NEW n \in Nat
  PROVE  \E f : IsLoop("xts-enc", s, in, n, f) /\ Loop(s, in, n, BS, XtsEncNext) = f[n]
  <1>. DEFINE Is(f) == f = [i \in 0..n |->
                             IF i = 0 THEN [s EXCEPT !.out = <<>>]
                             ELSE LET d == XtsEncNext(f[i - 1], Piece(in, (i - 1) * BS, BS))
                                  IN [d EXCEPT !.out = @ \o d.res]]
  <1>1. \A d, b : Turn("xts-enc", d, b) = XtsEncNext(d, b)
    BY DEF Turn
  <1>2. \A f : Is(f) <=> IsLoop("xts-enc", s, in, n, f)
    <2>1. ASSUME NEW f
          PROVE  [i \in 0..n |->
                    IF i = 0 THEN [s EXCEPT !.out = <<>>]
                    ELSE LET d == XtsEncNext(f[i - 1], Piece(in, (i - 1) * BS, BS))
                         IN [d EXCEPT !.out = @ \o d.res]]
                 = [i \in 0..n |->
                      IF i = 0 THEN [s EXCEPT !.out = <<>>]
                      ELSE After(Turn("xts-enc", f[i - 1], Piece(in, (i - 1) * BS, BS)))]
      BY <1>1, Zenon DEF After
    <2>. QED BY <2>1, Zenon DEF IsLoop
  <1>3. Loop(s, in, n, BS, XtsEncNext) = (CHOOSE f : Is(f))[n]
    BY Zenon DEF Loop
  <1>. HIDE DEF Is
  <1>4. Is(CHOOSE f : Is(f))
    BY <1>2, LoopExists, Zenon
  <1>. QED BY <1>2, <1>3, <1>4, Zenon

\* The loop of mode_xts_decrypt.
LEMMA XtsDecrypts ==
  ASSUME NEW s, NEW in, NEW n \in Nat
  PROVE  \E f : IsLoop("xts-dec", s, in, n, f) /\ Loop(s, in, n, BS, XtsDecNext) = f[n]
  <1>. DEFINE Is(f) == f = [i \in 0..n |->
                             IF i = 0 THEN [s EXCEPT !.out = <<>>]
                             ELSE LET d == XtsDecNext(f[i - 1], Piece(in, (i - 1) * BS, BS))
                                  IN [d EXCEPT !.out = @ \o d.res]]
  <1>1. \A d, b : Turn("xts-dec", d, b) = XtsDecNext(d, b)
    BY DEF Turn
  <1>2. \A f : Is(f) <=> IsLoop("xts-dec", s, in, n, f)
    <2>1. ASSUME NEW f
          PROVE  [i \in 0..n |->
                    IF i = 0 THEN [s EXCEPT !.out = <<>>]
                    ELSE LET d == XtsDecNext(f[i - 1], Piece(in, (i - 1) * BS, BS))
                         IN [d EXCEPT !.out = @ \o d.res]]
                 = [i \in 0..n |->
                      IF i = 0 THEN [s EXCEPT !.out = <<>>]
                      ELSE After(Turn("xts-dec", f[i - 1], Piece(in, (i - 1) * BS, BS)))]
      BY <1>1, Zenon DEF After
    <2>. QED BY <2>1, Zenon DEF IsLoop
  <1>3. Loop(s, in, n, BS, XtsDecNext) = (CHOOSE f : Is(f))[n]
    BY Zenon DEF Loop
  <1>. HIDE DEF Is
  <1>4. Is(CHOOSE f : Is(f))
    BY <1>2, LoopExists, Zenon
  <1>. QED BY <1>2, <1>3, <1>4, Zenon

-----------------------------------------------------------------------------
(* The blocks of a message.                                                *)

\* The boundaries of blocks.
LEMMA Multiples ==
  ASSUME NEW k \in Nat
  PROVE  /\ k * BS \in Nat /\ (k + 1) * BS = k * BS + BS
         /\ \A l \in Nat : /\ (k + l) * BS = k * BS + l * BS
                           /\ k < l => k * BS + BS <= l * BS
                           /\ k <= l => k * BS <= l * BS
  <1>1. k * BS \in Nat /\ (k + 1) * BS = k * BS + BS
    BY BlockSize
  <1>2. \A l \in Nat : (k + l) * BS = k * BS + l * BS /\ l * BS \in Nat
    BY BlockSize
  <1>3. ASSUME NEW l \in Nat, k < l PROVE k * BS + BS <= l * BS
    <2>1. PICK j \in Nat : l = k + (1 + j)
      <3>1. l - k - 1 \in Nat /\ l = k + (1 + (l - k - 1))
        BY <1>3
      <3>. QED BY <3>1
    <2>2. l * BS = k * BS + (1 + j) * BS /\ (1 + j) * BS = BS + j * BS /\ j * BS \in Nat
      BY <1>2, <2>1, BlockSize
    <2>. QED BY <1>1, <2>2, BlockSize
  <1>4. ASSUME NEW l \in Nat, k <= l PROVE k * BS <= l * BS
    <2>1. CASE k = l
      BY <1>1, <2>1
    <2>2. CASE k < l
      BY <1>1, <1>2, <1>3, <2>2, BlockSize
    <2>. QED BY <1>4, <2>1, <2>2
  <1>. QED BY <1>1, <1>2, <1>3, <1>4

\* Division of a length by the block size.
LEMMA Parts ==
  ASSUME NEW n \in Nat
  PROVE  /\ n \div BS \in Nat /\ n % BS \in Nat /\ n % BS < BS
         /\ n = (n \div BS) * BS + (n % BS)
         /\ (n \div BS) * BS \in Nat /\ (n \div BS) * BS <= n
  <1>1. n \div BS \in Nat
    BY BlockSize
  <1>2. n % BS \in Nat /\ n % BS < BS
    BY BlockSize
  <1>3. n = (n \div BS) * BS + (n % BS)
    BY BlockSize
  <1>4. (n \div BS) * BS \in Nat
    BY <1>1, Multiples
  <1>. QED BY <1>1, <1>2, <1>3, <1>4

\* A quotient and a remainder are the only ones.
LEMMA PartsAre ==
  ASSUME NEW n \in Nat, NEW k \in Nat, NEW p \in Nat, p < BS, n = k * BS + p
  PROVE  n \div BS = k /\ n % BS = p
  BY BlockSize

\* A byte is in a whole block or behind the last one.
LEMMA ByteAt ==
  ASSUME NEW n \in Nat, NEW i \in 1..n
  PROVE  \E k \in Nat, p \in 1..BS :
           /\ i = k * BS + p
           /\ \/ k < n \div BS
              \/ k = n \div BS /\ p <= n % BS
  <1>1. PICK j \in Nat : i = j + 1 /\ j < n
    <2>1. i - 1 \in Nat /\ i = (i - 1) + 1 /\ i - 1 < n
      OBVIOUS
    <2>. QED BY <2>1
  <1>2. PICK k \in Nat, s \in Nat : j = k * BS + s /\ s < BS
    BY Parts
  <1>3. PICK q \in Nat, r \in Nat :
          q = n \div BS /\ r = n % BS /\ n = q * BS + r /\ r < BS
    BY Parts
  <1>4. PICK x \in Nat, y \in Nat : x = k * BS /\ y = q * BS
    BY Multiples
  <1>5. PICK p \in 1..BS : p = s + 1
    <2>1. s + 1 \in 1..BS
      BY <1>2, BlockSize
    <2>. QED BY <2>1
  <1>6. i = k * BS + p
    BY <1>1, <1>2, <1>4, <1>5, BlockSize
  <1>7. CASE k < q
    BY <1>3, <1>6, <1>7
  <1>8. CASE k = q
    <2>1. x = y
      BY <1>4, <1>8
    <2>2. p <= r
      BY <1>1, <1>2, <1>3, <1>4, <1>5, <2>1, BlockSize
    <2>. QED BY <1>3, <1>6, <1>8, <2>2
  <1>9. CASE k > q
    <2>1. y + BS <= x
      BY <1>4, <1>9, Multiples
    <2>. QED BY <1>1, <1>2, <1>3, <1>4, <2>1, BlockSize
  <1>. QED BY <1>7, <1>8, <1>9

Blk(m, k) == [i \in 1..BS |-> m[k * BS + i]]

LEMMA BlkIs ==
  ASSUME NEW m \in Seq(Byte), NEW k \in Nat, k * BS + BS <= Len(m)
  PROVE  /\ Blk(m, k) \in Block
         /\ Piece(m, k * BS, BS) = Blk(m, k)
  <1>1. k * BS \in Nat /\ BS \in Nat
    BY Multiples, BlockSize
  <1>2. /\ Piece(m, k * BS, BS) \in Bytes(BS)
        /\ \A i \in 1..BS : Piece(m, k * BS, BS)[i] = m[k * BS + i]
    BY <1>1, PieceIs
  <1>3. \A i \in 1..BS : m[k * BS + i] \in Byte
    BY <1>1
  <1>4. Blk(m, k) \in Bytes(BS)
    BY <1>3 DEF Blk, Bytes
  <1>5. \A i \in 1..BS : Blk(m, k)[i] = m[k * BS + i]
    BY DEF Blk
  <1>. QED BY <1>1, <1>2, <1>4, <1>5, SameBytes DEF Block

\* The blocks of a concatenation.
BlocksJoin(u, s, t, a) ==
  /\ \A k \in Nat : k < a => Blk(u, k) = Blk(s, k)
  /\ \A k \in Nat : k * BS + BS <= Len(t) => Blk(u, a + k) = Blk(t, k)

LEMMA BlkCat ==
  ASSUME NEW s \in Seq(Byte), NEW t \in Seq(Byte), NEW a \in Nat, Len(s) = a * BS
  PROVE  BlocksJoin(s \o t, s, t, a)
  <1>1. PICK u : u = s \o t
    OBVIOUS
  <1>2. /\ \A i \in 1..Len(s) : u[i] = s[i]
        /\ \A i \in 1..Len(t) : u[Len(s) + i] = t[i]
    BY <1>1, CatIs
  <1>3. ASSUME NEW k \in Nat, k < a PROVE Blk(u, k) = Blk(s, k)
    <2>1. k * BS \in Nat /\ k * BS + BS <= Len(s)
      BY <1>3, Multiples
    <2>2. ASSUME NEW i \in 1..BS PROVE u[k * BS + i] = s[k * BS + i]
      <3>1. k * BS + i \in 1..Len(s)
        BY <2>1, BlockSize
      <3>. QED BY <1>2, <3>1
    <2>. QED BY <2>2 DEF Blk
  <1>4. ASSUME NEW k \in Nat, k * BS + BS <= Len(t) PROVE Blk(u, a + k) = Blk(t, k)
    <2>1. k * BS \in Nat /\ (a + k) * BS = Len(s) + k * BS /\ Len(s) \in Nat
      BY Multiples
    <2>2. ASSUME NEW i \in 1..BS PROVE u[(a + k) * BS + i] = t[k * BS + i]
      <3>1. PICK j : j = k * BS + i
        OBVIOUS
      <3>2. j \in 1..Len(t) /\ (a + k) * BS + i = Len(s) + j
        BY <1>4, <2>1, <3>1, BlockSize
      <3>. QED BY <1>2, <3>1, <3>2
    <2>. QED BY <2>2 DEF Blk
  <1>. QED BY <1>1, <1>3, <1>4 DEF BlocksJoin

\* Messages of the same blocks and the same bytes behind them are the same.
LEMMA SameBlocks ==
  ASSUME NEW s \in Seq(Byte), NEW t \in Seq(Byte), Len(s) = Len(t),
         \A k \in Nat : k < Len(s) \div BS => Blk(s, k) = Blk(t, k),
         \A i \in Nat : 1 <= i /\ i <= Len(s) % BS =>
           s[(Len(s) \div BS) * BS + i] = t[(Len(s) \div BS) * BS + i]
  PROVE  s = t
  <1>1. ASSUME NEW i \in 1..Len(s) PROVE s[i] = t[i]
    <2>1. PICK k \in Nat, p \in 1..BS :
            /\ i = k * BS + p
            /\ \/ k < Len(s) \div BS
               \/ k = Len(s) \div BS /\ p <= Len(s) % BS
      BY ByteAt
    <2>2. CASE k < Len(s) \div BS
      <3>1. Blk(s, k) = Blk(t, k)
        BY <2>2
      <3>2. Blk(s, k)[p] = s[k * BS + p] /\ Blk(t, k)[p] = t[k * BS + p]
        BY DEF Blk
      <3>. QED BY <2>1, <3>1, <3>2
    <2>3. CASE k = Len(s) \div BS /\ p <= Len(s) % BS
      <3>1. p \in Nat /\ 1 <= p
        BY BlockSize
      <3>. QED BY <2>1, <2>3, <3>1
    <2>. QED BY <2>1, <2>2, <2>3
  <1>. QED BY <1>1, SameSeq

-----------------------------------------------------------------------------
(* CBC, CTR and XTS as chains of blocks.                                   *)

Chained == {"cbc", "ctr", "xts"}

\* What a block is enciphered with: the block before, a counter or a tweak.
IsIv(mode, p) == IF mode = "cbc" THEN p \in Block ELSE p \in Nat

\* Block x becomes y.
BlockEnc(mode, T, p, x, y) ==
  \/ mode = "cbc" /\ Enciphers(T, XorBytes(x, p), y)
  \/ mode = "ctr" /\ \E z : /\ Enciphers(T, Named(<<"ctr", p>>, BS), z)
                            /\ y = XorBytes(x, z)
  \/ mode = "xts" /\ \E z : /\ Enciphers(T, XorBytes(x, Tweak(p)), z)
                            /\ y = XorBytes(z, Tweak(p))

NextIv(mode, p, y) == IF mode = "cbc" THEN y ELSE p + 1

\* The state of a mode between two blocks.
IsOn(mode, s) == IsState(s) /\ IsTable(s.table) /\ IsIv(mode, s.iv)

EncTurn(mode) == IF mode = "cbc" THEN "cbc-enc" ELSE IF mode = "ctr" THEN "ctr" ELSE "xts-enc"
DecTurn(mode) == IF mode = "cbc" THEN "cbc-dec" ELSE IF mode = "ctr" THEN "ctr" ELSE "xts-dec"

LEMMA CounterIs ==
  ASSUME NEW p \in Nat
  PROVE  Named(<<"ctr", p>>, BS) \in Block /\ Tweak(p) \in Block
  <1>1. <<"ctr", p>> \in Name \X Nat /\ <<"tweak", p>> \in Name \X Nat
    BY DEF Name
  <1>. QED BY <1>1, NamedIs, BlockSize DEF Block, Tweak

LEMMA XorBlocks ==
  ASSUME NEW x \in Block, NEW y \in Block
  PROVE  XorBytes(x, y) \in Block /\ XorBytes(XorBytes(x, y), y) = x
  BY XorIs, XorTwice, BlockSize DEF Block

LEMMA BlockEncIs ==
  ASSUME NEW mode \in Chained, NEW T, IsTable(T), NEW p, IsIv(mode, p),
         NEW x \in Block, NEW y, BlockEnc(mode, T, p, x, y)
  PROVE  y \in Block
  <1>1. CASE mode = "cbc"
    <2>1. Enciphers(T, XorBytes(x, p), y)
      BY <1>1 DEF BlockEnc
    <2>. QED BY <2>1, EnciphersBlocks
  <1>2. CASE mode = "ctr"
    <2>1. PICK z : Enciphers(T, Named(<<"ctr", p>>, BS), z) /\ y = XorBytes(x, z)
      BY <1>2 DEF BlockEnc
    <2>2. z \in Block
      BY <2>1, EnciphersBlocks
    <2>. QED BY <2>1, <2>2, XorBlocks
  <1>3. CASE mode = "xts"
    <2>1. PICK z : Enciphers(T, XorBytes(x, Tweak(p)), z) /\ y = XorBytes(z, Tweak(p))
      BY <1>3 DEF BlockEnc
    <2>2. z \in Block
      BY <2>1, EnciphersBlocks
    <2>3. p \in Nat
      BY <1>3 DEF IsIv
    <2>. QED BY <2>1, <2>2, <2>3, CounterIs, XorBlocks
  <1>. QED BY <1>1, <1>2, <1>3 DEF Chained

LEMMA BlockEncStays ==
  ASSUME NEW mode, NEW T, NEW U, IsTable(T), IsTable(U), Extends(T, U),
         NEW p, NEW x, NEW y, BlockEnc(mode, T, p, x, y)
  PROVE  BlockEnc(mode, U, p, x, y)
  <1>1. \A a, b : Enciphers(T, a, b) => Enciphers(U, a, b)
    BY EnciphersStays
  <1>. QED BY <1>1, Zenon DEF BlockEnc

LEMMA BlockEncOnce ==
  ASSUME NEW mode, NEW T, IsTable(T),
         NEW p, NEW x, NEW y, BlockEnc(mode, T, p, x, y), NEW z, BlockEnc(mode, T, p, x, z)
  PROVE  y = z
  <1>1. \A a, b, c : Enciphers(T, a, b) /\ Enciphers(T, a, c) => b = c
    BY EnciphersOnce
  <1>2. CASE mode = "cbc"
    BY <1>1, <1>2 DEF BlockEnc
  <1>3. CASE mode = "ctr"
    BY <1>1, <1>3 DEF BlockEnc
  <1>4. CASE mode = "xts"
    BY <1>1, <1>4 DEF BlockEnc
  <1>. QED BY <1>2, <1>3, <1>4 DEF BlockEnc

\* AES on a block that is in the table.
LEMMA EncryptedAgain ==
  ASSUME NEW s, IsState(s), IsTable(s.table), NEW x \in Block, NEW y, Enciphers(s.table, x, y)
  PROVE  Encrypted(s, x) = [s EXCEPT !.res = y]
  <1>. DEFINE T == s.table
              new == [dir |-> "enc", of |-> x]
              known == {i \in DOMAIN T : T[i] = new}
              id == IF known = {} THEN Len(T) + 1 ELSE CHOOSE i \in known : TRUE
  <1>1. Encrypted(s, x) = [s EXCEPT !.table = IF known = {} THEN Append(@, new) ELSE @,
                                    !.res = Named(<<"aes", id>>, BS)]
    BY NothingUndone DEF Encrypted, Aes
  <1>2. PICK i \in 1..Len(T) : T[i].of = x /\ y = Named(<<"aes", i>>, BS)
    BY DEF Enciphers
  <1>3. i \in known
    BY <1>2, EntryIs
  <1>4. ASSUME NEW j \in known PROVE j = i
    <2>1. j \in 1..Len(T) /\ T[j].of = x
      BY EntryIs
    <2>. QED BY <1>2, <2>1 DEF IsTable
  <1>5. id = i
    BY <1>3, <1>4
  <1>6. Encrypted(s, x) = [s EXCEPT !.table = T, !.res = y]
    BY <1>1, <1>2, <1>3, <1>5
  <1>. QED BY <1>6 DEF IsState

\* One turn of an encrypting loop.
LEMMA EncTurnIs ==
  ASSUME NEW mode \in Chained, NEW s, IsOn(mode, s), NEW x \in Block,
         NEW d, d = Turn(EncTurn(mode), s, x)
  PROVE  /\ IsOn(mode, d) /\ Extends(s.table, d.table)
         /\ BlockEnc(mode, d.table, s.iv, x, d.res) /\ d.res \in Block
         /\ d.iv = NextIv(mode, s.iv, d.res) /\ d.out = s.out
  <1>1. CASE mode = "cbc"
    <2>1. s.iv \in Block /\ IsState(s) /\ IsTable(s.table)
      BY <1>1 DEF IsOn, IsIv
    <2>2. PICK e : e = Encrypted(s, XorBytes(x, s.iv))
      OBVIOUS
    <2>3. /\ IsState(e) /\ IsTable(e.table) /\ Extends(s.table, e.table)
          /\ Enciphers(e.table, XorBytes(x, s.iv), e.res) /\ e.res \in Block
          /\ e.iv = s.iv /\ e.out = s.out
      BY <2>1, <2>2, XorBlocks, EncryptedIs
    <2>4. d = [e EXCEPT !.iv = e.res]
      BY <1>1, <2>2 DEF Turn, EncTurn, CbcEncBlock
    <2>5. d = [table |-> e.table, res |-> e.res, out |-> e.out, iv |-> e.res]
      BY <2>3, <2>4 DEF IsState
    <2>6. d.table = e.table /\ d.res = e.res /\ d.out = e.out /\ d.iv = e.res /\ IsState(d)
      BY <2>5 DEF IsState
    <2>. QED BY <1>1, <2>3, <2>6 DEF IsOn, IsIv, BlockEnc, NextIv
  <1>2. CASE mode = "ctr"
    <2>1. s.iv \in Nat /\ IsState(s) /\ IsTable(s.table)
      BY <1>2 DEF IsOn, IsIv
    <2>2. PICK c : c = Named(<<"ctr", s.iv>>, BS)
      OBVIOUS
    <2>3. PICK e : e = Encrypted(s, c)
      OBVIOUS
    <2>4. /\ IsState(e) /\ IsTable(e.table) /\ Extends(s.table, e.table)
          /\ Enciphers(e.table, c, e.res) /\ e.res \in Block
          /\ e.iv = s.iv /\ e.out = s.out
      BY <2>1, <2>2, <2>3, CounterIs, EncryptedIs
    <2>5. d = [[e EXCEPT !.iv = @ + 1] EXCEPT !.res = XorBytes(x, @)]
      BY <1>2, <2>2, <2>3 DEF Turn, EncTurn, CtrBytes, CtrStream
    <2>6. d = [table |-> e.table, res |-> XorBytes(x, e.res), out |-> e.out, iv |-> e.iv + 1]
      BY <2>4, <2>5 DEF IsState
    <2>7. /\ d.table = e.table /\ d.res = XorBytes(x, e.res) /\ d.out = e.out
          /\ d.iv = e.iv + 1 /\ IsState(d)
      BY <2>6 DEF IsState
    <2>8. d.res \in Block
      BY <2>4, <2>7, XorBlocks
    <2>9. BlockEnc(mode, d.table, s.iv, x, d.res)
      BY <1>2, <2>2, <2>4, <2>7 DEF BlockEnc
    <2>. QED BY <1>2, <2>1, <2>4, <2>7, <2>8, <2>9 DEF IsOn, IsIv, NextIv
  <1>3. CASE mode = "xts"
    <2>1. s.iv \in Nat /\ IsState(s) /\ IsTable(s.table)
      BY <1>3 DEF IsOn, IsIv
    <2>2. PICK w : w = Tweak(s.iv)
      OBVIOUS
    <2>3. w \in Block
      BY <2>1, <2>2, CounterIs
    <2>4. PICK e : e = Encrypted(s, XorBytes(x, w))
      OBVIOUS
    <2>5. /\ IsState(e) /\ IsTable(e.table) /\ Extends(s.table, e.table)
          /\ Enciphers(e.table, XorBytes(x, w), e.res) /\ e.res \in Block
          /\ e.iv = s.iv /\ e.out = s.out
      BY <2>1, <2>3, <2>4, XorBlocks, EncryptedIs
    <2>6. d = [[e EXCEPT !.res = XorBytes(@, w)] EXCEPT !.iv = @ + 1]
      BY <1>3, <2>2, <2>4 DEF Turn, EncTurn, XtsEncNext, XtsEncBlock
    <2>7. d = [table |-> e.table, res |-> XorBytes(e.res, w), out |-> e.out, iv |-> e.iv + 1]
      BY <2>5, <2>6 DEF IsState
    <2>8. /\ d.table = e.table /\ d.res = XorBytes(e.res, w) /\ d.out = e.out
          /\ d.iv = e.iv + 1 /\ IsState(d)
      BY <2>7 DEF IsState
    <2>9. d.res \in Block
      BY <2>3, <2>5, <2>8, XorBlocks
    <2>10. BlockEnc(mode, d.table, s.iv, x, d.res)
      BY <1>3, <2>2, <2>5, <2>8 DEF BlockEnc
    <2>. QED BY <1>3, <2>1, <2>5, <2>8, <2>9, <2>10 DEF IsOn, IsIv, NextIv
  <1>. QED BY <1>1, <1>2, <1>3 DEF Chained

\* One turn of a decrypting loop.
LEMMA DecTurnIs ==
  ASSUME NEW mode \in Chained, NEW s, IsOn(mode, s), NEW x \in Block, NEW y \in Block,
         BlockEnc(mode, s.table, s.iv, x, y)
  PROVE  Turn(DecTurn(mode), s, y)
           = [table |-> s.table, res |-> x, out |-> s.out, iv |-> NextIv(mode, s.iv, y)]
  <1>. DEFINE d == Turn(DecTurn(mode), s, y)
  <1>1. CASE mode = "cbc"
    <2>1. s.iv \in Block /\ IsState(s) /\ IsTable(s.table)
      BY <1>1 DEF IsOn, IsIv
    <2>2. Enciphers(s.table, XorBytes(x, s.iv), y)
      BY <1>1 DEF BlockEnc
    <2>3. PICK v : v = XorBytes(x, s.iv)
      OBVIOUS
    <2>4. Decrypted(s, y) = [s EXCEPT !.res = v]
      BY <2>1, <2>2, <2>3, DecryptedIs
    <2>5. PICK e : e = Decrypted(s, y)
      OBVIOUS
    <2>6. e = [table |-> s.table, res |-> v, out |-> s.out, iv |-> s.iv]
      BY <2>1, <2>4, <2>5 DEF IsState
    <2>7. d = [e EXCEPT !.res = XorBytes(@, s.iv), !.iv = y]
      BY <1>1, <2>5, <2>6 DEF Turn, DecTurn, CbcDecBlock
    <2>8. d = [table |-> s.table, res |-> XorBytes(v, s.iv), out |-> s.out, iv |-> y]
      BY <2>6, <2>7
    <2>9. XorBytes(v, s.iv) = x
      BY <2>1, <2>3, XorBlocks
    <2>. QED BY <1>1, <2>8, <2>9 DEF NextIv
  <1>2. CASE mode = "ctr"
    <2>1. s.iv \in Nat /\ IsState(s) /\ IsTable(s.table)
      BY <1>2 DEF IsOn, IsIv
    <2>2. PICK c : c = Named(<<"ctr", s.iv>>, BS)
      OBVIOUS
    <2>3. PICK z : Enciphers(s.table, c, z) /\ y = XorBytes(x, z)
      BY <1>2, <2>2 DEF BlockEnc
    <2>4. PICK e : e = Encrypted(s, c)
      OBVIOUS
    <2>5. e = [s EXCEPT !.res = z]
      BY <2>1, <2>2, <2>3, <2>4, CounterIs, EncryptedAgain
    <2>6. e = [table |-> s.table, res |-> z, out |-> s.out, iv |-> s.iv]
      BY <2>1, <2>5 DEF IsState
    <2>7. d = [[e EXCEPT !.iv = @ + 1] EXCEPT !.res = XorBytes(y, @)]
      BY <1>2, <2>2, <2>4 DEF Turn, DecTurn, CtrBytes, CtrStream
    <2>8. d = [table |-> s.table, res |-> XorBytes(y, z), out |-> s.out, iv |-> s.iv + 1]
      BY <2>6, <2>7
    <2>9. z \in Block
      BY <2>1, <2>3, EnciphersBlocks
    <2>10. XorBytes(y, z) = x
      BY <2>3, <2>9, XorBlocks
    <2>. QED BY <1>2, <2>8, <2>10 DEF NextIv
  <1>3. CASE mode = "xts"
    <2>1. s.iv \in Nat /\ IsState(s) /\ IsTable(s.table)
      BY <1>3 DEF IsOn, IsIv
    <2>2. PICK w : w = Tweak(s.iv)
      OBVIOUS
    <2>3. w \in Block
      BY <2>1, <2>2, CounterIs
    <2>4. PICK z : Enciphers(s.table, XorBytes(x, w), z) /\ y = XorBytes(z, w)
      BY <1>3, <2>2 DEF BlockEnc
    <2>5. z \in Block
      BY <2>1, <2>4, EnciphersBlocks
    <2>6. XorBytes(y, w) = z
      BY <2>3, <2>4, <2>5, XorBlocks
    <2>7. PICK v : v = XorBytes(x, w)
      OBVIOUS
    <2>8. PICK e : e = Decrypted(s, XorBytes(y, w))
      OBVIOUS
    <2>9. e = [s EXCEPT !.res = v]
      <3>1. Enciphers(s.table, v, z) /\ e = Decrypted(s, z)
        BY <2>4, <2>6, <2>7, <2>8
      <3>. QED BY <2>1, <3>1, DecryptedIs
    <2>10. e = [table |-> s.table, res |-> v, out |-> s.out, iv |-> s.iv]
      BY <2>1, <2>9 DEF IsState
    <2>11. d = [[e EXCEPT !.res = XorBytes(@, w)] EXCEPT !.iv = @ + 1]
      BY <1>3, <2>2, <2>8 DEF Turn, DecTurn, XtsDecNext, XtsDecBlock
    <2>12. d = [table |-> s.table, res |-> XorBytes(v, w), out |-> s.out, iv |-> s.iv + 1]
      BY <2>10, <2>11
    <2>13. XorBytes(v, w) = x
      BY <2>3, <2>7, XorBlocks
    <2>. QED BY <1>3, <2>12, <2>13 DEF NextIv
  <1>. QED BY <1>1, <1>2, <1>3 DEF Chained

-----------------------------------------------------------------------------
(* Whole blocks of a message.                                              *)

\* What block k is enciphered with.
Before(mode, iv, c, k) ==
  IF mode = "cbc" THEN (IF k = 0 THEN iv ELSE Blk(c, k - 1)) ELSE iv + k

\* The first n blocks of m become those of c.
IsStream(mode, T, iv, m, c, n) ==
  \A k \in Nat : k < n =>
    BlockEnc(mode, T, Before(mode, iv, c, k), Blk(m, k), Blk(c, k))

LEMMA BeforeIs ==
  ASSUME NEW mode \in Chained, NEW iv, IsIv(mode, iv), NEW c \in Seq(Byte),
         NEW k \in Nat, k * BS <= Len(c)
  PROVE  /\ IsIv(mode, Before(mode, iv, c, k))
         /\ Before(mode, iv, c, 0) = iv
  <1>1. CASE mode = "cbc" /\ k # 0
    <2>1. PICK j \in Nat : k = j + 1 /\ j = k - 1
      <3>1. k - 1 \in Nat /\ k = (k - 1) + 1
        BY <1>1
      <3>. QED BY <3>1
    <2>2. j * BS + BS <= Len(c)
      BY <2>1, Multiples
    <2>3. Blk(c, j) \in Block
      BY <2>2, BlkIs
    <2>. QED BY <1>1, <2>1, <2>3 DEF Before, IsIv
  <1>2. CASE mode = "cbc" /\ k = 0
    BY <1>2 DEF Before, IsIv
  <1>3. CASE mode # "cbc"
    BY <1>3 DEF Before, IsIv
  <1>. QED BY <1>1, <1>2, <1>3

LEMMA BeforeNext ==
  ASSUME NEW mode, NEW iv, mode # "cbc" => iv \in Nat, NEW c, NEW k \in Nat
  PROVE  Before(mode, iv, c, k + 1) = NextIv(mode, Before(mode, iv, c, k), Blk(c, k))
  <1>1. k + 1 # 0 /\ (k + 1) - 1 = k
    OBVIOUS
  <1>. QED BY <1>1 DEF Before, NextIv

\* It depends on the blocks before only.
LEMMA BeforeSame ==
  ASSUME NEW mode, NEW iv, NEW c, NEW d, NEW k \in Nat,
         \A j \in Nat : j < k => Blk(c, j) = Blk(d, j)
  PROVE  Before(mode, iv, c, k) = Before(mode, iv, d, k)
  <1>1. k # 0 => k - 1 \in Nat /\ k - 1 < k
    OBVIOUS
  <1>. QED BY <1>1 DEF Before

\* An encrypting loop.
LEMMA EncLoop ==
  ASSUME NEW mode \in Chained, NEW s, IsOn(mode, s), NEW in \in Seq(Byte),
         NEW n \in Nat, n * BS <= Len(in),
         NEW f, IsLoop(EncTurn(mode), s, in, n, f)
  PROVE  /\ IsOn(mode, f[n]) /\ Extends(s.table, f[n].table)
         /\ f[n].out \in Seq(Byte) /\ Len(f[n].out) = n * BS
         /\ f[n].iv = Before(mode, s.iv, f[n].out, n)
         /\ IsStream(mode, f[n].table, s.iv, in, f[n].out, n)
  <1>. DEFINE P(i) ==
                /\ IsOn(mode, f[i]) /\ Extends(s.table, f[i].table)
                /\ f[i].out \in Seq(Byte) /\ Len(f[i].out) = i * BS
                /\ f[i].iv = Before(mode, s.iv, f[i].out, i)
                /\ IsStream(mode, f[i].table, s.iv, in, f[i].out, i)
              S == {i \in Nat : i <= n => P(i)}
  <1>1. /\ f[0] = [s EXCEPT !.out = <<>>]
        /\ \A i \in Nat : i < n =>
             f[i + 1] = After(Turn(EncTurn(mode), f[i], Piece(in, i * BS, BS)))
    <2>1. Turns(EncTurn(mode), s, in, n, f)
      BY LoopTurns
    <2>. QED BY <2>1 DEF Turns
  <1>2. IsState(s) /\ IsTable(s.table) /\ IsIv(mode, s.iv)
    BY DEF IsOn
  <1>3. P(0)
    <2>1. f[0] = [table |-> s.table, res |-> s.res, out |-> <<>>, iv |-> s.iv]
      BY <1>1, <1>2 DEF IsState
    <2>2. PICK g : g = f[0]
      OBVIOUS
    <2>3. g.table = s.table /\ g.out = <<>> /\ g.iv = s.iv /\ IsState(g)
      BY <2>1, <2>2 DEF IsState
    <2>4. IsOn(mode, g) /\ Extends(s.table, g.table)
      BY <1>2, <2>3, ExtendsIs DEF IsOn
    <2>5. g.out \in Seq(Byte) /\ Len(g.out) = 0 /\ 0 * BS = 0
      BY <2>3, BlockSize
    <2>6. Before(mode, s.iv, g.out, 0) = s.iv
      BY <1>2, <2>5, BeforeIs
    <2>7. IsStream(mode, g.table, s.iv, in, g.out, 0)
      BY DEF IsStream
    <2>. QED BY <2>2, <2>3, <2>4, <2>5, <2>6, <2>7
  <1>4. ASSUME NEW i \in Nat, i < n, P(i) PROVE P(i + 1)
    <2>1. PICK g : g = f[i]
      OBVIOUS
    <2>2. /\ IsOn(mode, g) /\ Extends(s.table, g.table)
          /\ g.out \in Seq(Byte) /\ Len(g.out) = i * BS
          /\ g.iv = Before(mode, s.iv, g.out, i)
          /\ IsStream(mode, g.table, s.iv, in, g.out, i)
      BY <1>4, <2>1
    <2>3. i * BS \in Nat /\ i * BS + BS <= Len(in) /\ (i + 1) * BS = i * BS + BS
      <3>1. i * BS \in Nat /\ i * BS + BS <= n * BS /\ (i + 1) * BS = i * BS + BS
        BY <1>4, Multiples
      <3>2. n * BS \in Nat
        BY Multiples
      <3>. QED BY <3>1, <3>2, BlockSize
    <2>4. PICK x \in Block : x = Piece(in, i * BS, BS) /\ x = Blk(in, i)
      BY <2>3, BlkIs
    <2>5. PICK d : d = Turn(EncTurn(mode), g, x)
      OBVIOUS
    <2>6. /\ IsOn(mode, d) /\ Extends(g.table, d.table)
          /\ BlockEnc(mode, d.table, g.iv, x, d.res) /\ d.res \in Block
          /\ d.iv = NextIv(mode, g.iv, d.res) /\ d.out = g.out
      BY <2>2, <2>5, EncTurnIs
    <2>7. PICK e : e = f[i + 1]
      OBVIOUS
    <2>8. e = [d EXCEPT !.out = @ \o d.res]
      BY <1>1, <1>4, <2>1, <2>4, <2>5, <2>7 DEF After
    <2>9. e = [table |-> d.table, res |-> d.res, out |-> g.out \o d.res, iv |-> d.iv]
      <3>1. d = [table |-> d.table, res |-> d.res, out |-> d.out, iv |-> d.iv]
        BY <2>6 DEF IsOn, IsState
      <3>. QED BY <2>6, <2>8, <3>1
    <2>10. /\ e.table = d.table /\ e.out = g.out \o d.res /\ e.iv = d.iv /\ IsState(e)
      BY <2>9 DEF IsState
    <2>11. IsOn(mode, e)
      BY <2>6, <2>10 DEF IsOn
    <2>12. Extends(s.table, e.table)
      BY <1>2, <2>2, <2>6, <2>10, ExtendsIs DEF IsOn
    <2>13. d.res \in Seq(Byte) /\ Len(d.res) = BS
      BY <2>6, BytesAreSeq, BlockSize DEF Block
    <2>14. e.out \in Seq(Byte) /\ Len(e.out) = (i + 1) * BS
      <3>1. e.out \in Seq(Byte) /\ Len(e.out) = Len(g.out) + Len(d.res)
        <4>1. PICK o, r : o = g.out /\ r = d.res
          OBVIOUS
        <4>2. o \in Seq(Byte) /\ e.out = o \o r /\ r \in Seq(Byte)
          BY <2>2, <2>10, <2>13, <4>1
        <4>. QED BY <4>1, <4>2, CatIs
      <3>. QED BY <2>2, <2>3, <2>13, <3>1
    <2>15. /\ \A k \in Nat : k < i => Blk(e.out, k) = Blk(g.out, k)
           /\ Blk(e.out, i) = d.res
      <3>1. /\ \A k \in Nat : k < i => Blk(e.out, k) = Blk(g.out, k)
            /\ \A k \in Nat : k * BS + BS <= Len(d.res) => Blk(e.out, i + k) = Blk(d.res, k)
        <4>1. PICK o, r : o = g.out /\ r = d.res
          OBVIOUS
        <4>2. o \in Seq(Byte) /\ Len(o) = i * BS /\ e.out = o \o r /\ r \in Seq(Byte)
          BY <2>2, <2>10, <2>13, <4>1
        <4>3. BlocksJoin(o \o r, o, r, i)
          BY <4>2, BlkCat
        <4>. QED BY <4>1, <4>2, <4>3 DEF BlocksJoin
      <3>2. Blk(e.out, i) = Blk(d.res, 0)
        <4>1. 0 * BS + BS <= Len(d.res) /\ i + 0 = i
          BY <2>13, BlockSize
        <4>. QED BY <3>1, <4>1
      <3>3. Blk(d.res, 0) = d.res
        <4>1. d.res \in [1..BS -> Byte]
          BY <2>6 DEF Block, Bytes
        <4>2. \A j \in 1..BS : 0 * BS + j = j
          BY BlockSize
        <4>. QED BY <4>1, <4>2 DEF Blk
      <3>. QED BY <3>1, <3>2, <3>3
    <2>16. Before(mode, s.iv, e.out, i) = g.iv
      BY <2>2, <2>15, BeforeSame
    <2>17. e.iv = Before(mode, s.iv, e.out, i + 1)
      <3>1. mode # "cbc" => s.iv \in Nat
        BY <1>2 DEF IsIv
      <3>. QED BY <2>6, <2>10, <2>15, <2>16, <3>1, BeforeNext
    <2>18. IsStream(mode, e.table, s.iv, in, e.out, i + 1)
      <3>. SUFFICES ASSUME NEW k \in Nat, k < i + 1
                    PROVE  BlockEnc(mode, e.table, Before(mode, s.iv, e.out, k), Blk(in, k), Blk(e.out, k))
        BY DEF IsStream
      <3>1. CASE k < i
        <4>1. BlockEnc(mode, g.table, Before(mode, s.iv, g.out, k), Blk(in, k), Blk(g.out, k))
          BY <2>2, <3>1 DEF IsStream
        <4>2. Before(mode, s.iv, e.out, k) = Before(mode, s.iv, g.out, k)
          <5>1. \A j \in Nat : j < k => Blk(e.out, j) = Blk(g.out, j)
            BY <2>15, <3>1
          <5>. QED BY <5>1, BeforeSame
        <4>3. Blk(e.out, k) = Blk(g.out, k)
          BY <2>15, <3>1
        <4>4. IsTable(g.table) /\ IsTable(e.table) /\ Extends(g.table, e.table)
          BY <2>2, <2>6, <2>10 DEF IsOn
        <4>. QED BY <4>1, <4>2, <4>3, <4>4, BlockEncStays
      <3>2. CASE k = i
        BY <2>4, <2>6, <2>10, <2>15, <2>16, <3>2
      <3>. QED BY <3>1, <3>2
    <2>. QED BY <2>7, <2>11, <2>12, <2>14, <2>17, <2>18
  <1>5. 0 \in S
    BY <1>3
  <1>6. ASSUME NEW i \in Nat, i \in S PROVE i + 1 \in S
    <2>1. i + 1 <= n => i < n /\ i <= n
      OBVIOUS
    <2>. HIDE DEF P
    <2>. QED BY <1>4, <1>6, <2>1
  <1>. HIDE DEF S
  <1>7. n \in S
    BY <1>5, <1>6, SetInduction
  <1>8. P(n)
    <2>. HIDE DEF P
    <2>. QED BY <1>7 DEF S
  <1>. QED BY <1>8

\* A decrypting loop, on what a stream was encrypted to.
LEMMA DecLoop ==
  ASSUME NEW mode \in Chained, NEW s, IsOn(mode, s), NEW in \in Seq(Byte),
         NEW m \in Seq(Byte), NEW n \in Nat, n * BS <= Len(in), n * BS <= Len(m),
         IsStream(mode, s.table, s.iv, m, in, n),
         NEW f, IsLoop(DecTurn(mode), s, in, n, f)
  PROVE  /\ IsOn(mode, f[n]) /\ f[n].table = s.table
         /\ f[n].out \in Seq(Byte) /\ Len(f[n].out) = n * BS
         /\ f[n].iv = Before(mode, s.iv, in, n)
         /\ \A k \in Nat : k < n => Blk(f[n].out, k) = Blk(m, k)
  <1>. DEFINE P(i) ==
                /\ IsOn(mode, f[i]) /\ f[i].table = s.table
                /\ f[i].out \in Seq(Byte) /\ Len(f[i].out) = i * BS
                /\ f[i].iv = Before(mode, s.iv, in, i)
                /\ \A k \in Nat : k < i => Blk(f[i].out, k) = Blk(m, k)
              S == {i \in Nat : i <= n => P(i)}
  <1>1. /\ f[0] = [s EXCEPT !.out = <<>>]
        /\ \A i \in Nat : i < n =>
             f[i + 1] = After(Turn(DecTurn(mode), f[i], Piece(in, i * BS, BS)))
    <2>1. Turns(DecTurn(mode), s, in, n, f)
      BY LoopTurns
    <2>. QED BY <2>1 DEF Turns
  <1>2. IsState(s) /\ IsTable(s.table) /\ IsIv(mode, s.iv)
    BY DEF IsOn
  <1>3. P(0)
    <2>1. f[0] = [table |-> s.table, res |-> s.res, out |-> <<>>, iv |-> s.iv]
      BY <1>1, <1>2 DEF IsState
    <2>2. PICK g : g = f[0]
      OBVIOUS
    <2>3. g.table = s.table /\ g.out = <<>> /\ g.iv = s.iv /\ IsState(g)
      BY <2>1, <2>2 DEF IsState
    <2>4. IsOn(mode, g)
      BY <1>2, <2>3 DEF IsOn
    <2>5. g.out \in Seq(Byte) /\ Len(g.out) = 0 /\ 0 * BS = 0
      BY <2>3, BlockSize
    <2>6. Before(mode, s.iv, in, 0) = s.iv
      BY <1>2, <2>5, BeforeIs
    <2>. QED BY <2>2, <2>3, <2>4, <2>5, <2>6
  <1>4. ASSUME NEW i \in Nat, i < n, P(i) PROVE P(i + 1)
    <2>1. PICK g : g = f[i]
      OBVIOUS
    <2>2. /\ IsOn(mode, g) /\ g.table = s.table
          /\ g.out \in Seq(Byte) /\ Len(g.out) = i * BS
          /\ g.iv = Before(mode, s.iv, in, i)
          /\ \A k \in Nat : k < i => Blk(g.out, k) = Blk(m, k)
      BY <1>4, <2>1
    <2>3. /\ i * BS \in Nat /\ i * BS + BS <= Len(in) /\ i * BS + BS <= Len(m)
          /\ (i + 1) * BS = i * BS + BS
      <3>1. i * BS \in Nat /\ i * BS + BS <= n * BS /\ (i + 1) * BS = i * BS + BS
        BY <1>4, Multiples
      <3>2. n * BS \in Nat
        BY Multiples
      <3>. QED BY <3>1, <3>2, BlockSize
    <2>4. PICK y \in Block : y = Piece(in, i * BS, BS) /\ y = Blk(in, i)
      BY <2>3, BlkIs
    <2>5. PICK x \in Block : x = Blk(m, i)
      BY <2>3, BlkIs
    <2>6. BlockEnc(mode, g.table, g.iv, x, y)
      BY <1>4, <2>2, <2>4, <2>5 DEF IsStream
    <2>7. PICK d : d = Turn(DecTurn(mode), g, y)
      OBVIOUS
    <2>8. d = [table |-> g.table, res |-> x, out |-> g.out, iv |-> NextIv(mode, g.iv, y)]
      BY <2>2, <2>6, <2>7, DecTurnIs
    <2>9. PICK e : e = f[i + 1]
      OBVIOUS
    <2>10. e = [d EXCEPT !.out = @ \o d.res]
      BY <1>1, <1>4, <2>1, <2>4, <2>7, <2>9 DEF After
    <2>11. e = [table |-> g.table, res |-> x, out |-> g.out \o x, iv |-> NextIv(mode, g.iv, y)]
      BY <2>8, <2>10
    <2>12. /\ e.table = g.table /\ e.out = g.out \o x
           /\ e.iv = NextIv(mode, g.iv, y) /\ IsState(e)
      BY <2>11 DEF IsState
    <2>13. e.iv = Before(mode, s.iv, in, i + 1)
      <3>1. mode # "cbc" => s.iv \in Nat
        BY <1>2 DEF IsIv
      <3>. QED BY <2>2, <2>4, <2>12, <3>1, BeforeNext
    <2>14. IsOn(mode, e)
      <3>1. (i + 1) * BS <= Len(in)
        BY <2>3
      <3>2. IsIv(mode, e.iv)
        BY <1>2, <2>13, <3>1, BeforeIs
      <3>. QED BY <1>2, <2>2, <2>12, <3>2 DEF IsOn
    <2>15. x \in Seq(Byte) /\ Len(x) = BS
      BY BytesAreSeq, BlockSize DEF Block
    <2>16. e.out \in Seq(Byte) /\ Len(e.out) = (i + 1) * BS
      <3>1. e.out \in Seq(Byte) /\ Len(e.out) = Len(g.out) + Len(x)
        <4>1. PICK o : o = g.out
          OBVIOUS
        <4>2. o \in Seq(Byte) /\ e.out = o \o x
          BY <2>2, <2>12, <4>1
        <4>. QED BY ZenonT(60), <2>15, <4>1, <4>2, CatIs
      <3>. QED BY <2>2, <2>3, <2>15, <3>1
    <2>17. /\ \A k \in Nat : k < i => Blk(e.out, k) = Blk(g.out, k)
           /\ Blk(e.out, i) = x
      <3>1. /\ \A k \in Nat : k < i => Blk(e.out, k) = Blk(g.out, k)
            /\ \A k \in Nat : k * BS + BS <= Len(x) => Blk(e.out, i + k) = Blk(x, k)
        <4>1. PICK o : o = g.out
          OBVIOUS
        <4>2. o \in Seq(Byte) /\ Len(o) = i * BS /\ e.out = o \o x
          BY <2>2, <2>12, <4>1
        <4>3. BlocksJoin(o \o x, o, x, i)
          BY <2>15, <4>2, BlkCat
        <4>. QED BY <4>1, <4>2, <4>3 DEF BlocksJoin
      <3>2. Blk(e.out, i) = Blk(x, 0)
        <4>1. 0 * BS + BS <= Len(x) /\ i + 0 = i
          BY <2>15, BlockSize
        <4>. QED BY <3>1, <4>1
      <3>3. Blk(x, 0) = x
        <4>1. x \in [1..BS -> Byte]
          BY DEF Block, Bytes
        <4>2. \A j \in 1..BS : 0 * BS + j = j
          BY BlockSize
        <4>. QED BY <4>1, <4>2 DEF Blk
      <3>. QED BY <3>1, <3>2, <3>3
    <2>18. \A k \in Nat : k < i + 1 => Blk(e.out, k) = Blk(m, k)
      <3>1. \A k \in Nat : k < i + 1 => k < i \/ k = i
        OBVIOUS
      <3>. QED BY <2>2, <2>5, <2>17, <3>1
    <2>. QED BY <2>2, <2>9, <2>12, <2>13, <2>14, <2>16, <2>18
  <1>5. 0 \in S
    BY <1>3
  <1>6. ASSUME NEW i \in Nat, i \in S PROVE i + 1 \in S
    <2>1. i + 1 <= n => i < n /\ i <= n
      OBVIOUS
    <2>. HIDE DEF P
    <2>. QED BY <1>4, <1>6, <2>1
  <1>. HIDE DEF S
  <1>7. n \in S
    BY <1>5, <1>6, SetInduction
  <1>8. P(n)
    <2>. HIDE DEF P
    <2>. QED BY <1>7 DEF S
  <1>. QED BY <1>8

-----------------------------------------------------------------------------
(* Messages with what is behind their last whole block.                    *)

SymDiff(a, b) == (a \ b) \union (b \ a)

\* The blocks that are not touched by ciphertext stealing.
Full(mode, n) == IF mode = "xts" /\ n % BS # 0 THEN n \div BS - 1 ELSE n \div BS

\* CTR: the r bytes behind block q.
CtrTail(T, iv, m, c, q, r) ==
  \E z : /\ Enciphers(T, Named(<<"ctr", iv + q>>, BS), z)
         /\ \A i \in 1..r : c[q * BS + i] = SymDiff(m[q * BS + i], z[i])

\* XTS: the bytes behind block q, filled up with those of block cc.
Stolen(m, q, r, cc) == [i \in 1..BS |-> IF i <= r THEN m[q * BS + i] ELSE cc[i]]

XtsTail(T, iv, m, c, q, r) ==
  /\ q >= 1
  /\ \E cc : /\ BlockEnc("xts", T, iv + (q - 1), Blk(m, q - 1), cc)
             /\ BlockEnc("xts", T, iv + q, Stolen(m, q, r, cc), Blk(c, q - 1))
             /\ \A i \in 1..r : c[q * BS + i] = cc[i]

IsTail(mode, T, iv, m, c, q, r) ==
  r # 0 => \/ mode = "ctr" /\ CtrTail(T, iv, m, c, q, r)
           \/ mode = "xts" /\ XtsTail(T, iv, m, c, q, r)

\* c is the ciphertext of m.
IsCipher(mode, T, iv, m, c) ==
  /\ m \in Seq(Byte) /\ c \in Seq(Byte) /\ Len(c) = Len(m)
  /\ IsStream(mode, T, iv, m, c, Full(mode, Len(m)))
  /\ IsTail(mode, T, iv, m, c, Len(m) \div BS, Len(m) % BS)

\* What a call gives that encrypts.
Gives(mode, s, in, r) ==
  /\ IsOn(mode, r) /\ Extends(s.table, r.table)
  /\ IsCipher(mode, r.table, s.iv, in, r.out)
  /\ Len(in) % BS = 0 => r.iv = Before(mode, s.iv, r.out, Len(in) \div BS)

\* What a call gives that decrypts in, the ciphertext of m.
Opens(mode, s, in, m, r) ==
  /\ IsOn(mode, r) /\ r.table = s.table /\ r.out = m
  /\ Len(in) % BS = 0 => r.iv = Before(mode, s.iv, in, Len(in) \div BS)

LEMMA XorPart ==
  ASSUME NEW n \in Nat, NEW k \in Nat, n <= k, NEW a \in Bytes(n), NEW b \in Bytes(k)
  PROVE  /\ XorBytes(a, b) \in Bytes(n)
         /\ \A i \in 1..n : XorBytes(a, b)[i] = SymDiff(a[i], b[i])
  BY DEF XorBytes, Bytes, Byte, SymDiff

LEMMA SymDiffTwice ==
  \A a, b : SymDiff(SymDiff(a, b), b) = a
  BY DEF SymDiff

\* Nothing behind the last block.
LEMMA NothingBehind ==
  ASSUME NEW s \in Seq(Byte)
  PROVE  s \o Untouched(0) = s
  <1>1. Untouched(0) \in Seq(Byte) /\ Len(Untouched(0)) = 0
    BY DEF Untouched
  <1>2. PICK t : t = s \o Untouched(0)
    OBVIOUS
  <1>3. t \in Seq(Byte) /\ Len(t) = Len(s) /\ \A i \in 1..Len(s) : t[i] = s[i]
    BY <1>1, <1>2, CatIs
  <1>. QED BY <1>2, <1>3, SameSeq

\* mode_cbc_encrypt.
LEMMA CbcGives ==
  ASSUME NEW s, IsOn("cbc", s), NEW in \in Seq(Byte), Len(in) % BS = 0
  PROVE  Gives("cbc", s, in, CbcEncrypt(s, in))
  <1>1. PICK n \in Nat : n = Len(in) \div BS /\ n * BS = Len(in)
    BY Parts
  <1>2. PICK f : /\ IsLoop("cbc-enc", s, in, n, f)
                 /\ Loop(s, in, n, BS, CbcEncBlock) = f[n]
    BY CbcEncrypts, Zenon
  <1>3. PICK g : g = f[n]
    OBVIOUS
  <1>4. /\ IsOn("cbc", g) /\ Extends(s.table, g.table)
        /\ g.out \in Seq(Byte) /\ Len(g.out) = n * BS
        /\ g.iv = Before("cbc", s.iv, g.out, n)
        /\ IsStream("cbc", g.table, s.iv, in, g.out, n)
    <2>1. "cbc" \in Chained /\ IsLoop(EncTurn("cbc"), s, in, n, f) /\ n * BS <= Len(in)
      BY <1>1, <1>2 DEF Chained, EncTurn
    <2>. QED BY <1>3, <2>1, EncLoop
  <1>5. CbcEncrypt(s, in) = [g EXCEPT !.out = @ \o Untouched(0)]
    BY <1>1, <1>2, <1>3 DEF CbcEncrypt
  <1>6. CbcEncrypt(s, in) = g
    <2>1. [g EXCEPT !.out = g.out] = g
      BY <1>4 DEF IsOn, IsState
    <2>2. g.out \o Untouched(0) = g.out
      BY <1>4, NothingBehind
    <2>. QED BY <1>5, <2>1, <2>2
  <1>7. IsCipher("cbc", g.table, s.iv, in, g.out)
    BY <1>1, <1>4 DEF IsCipher, Full, IsTail
  <1>. QED BY <1>1, <1>4, <1>6, <1>7 DEF Gives

\* mode_cbc_decrypt.
LEMMA CbcOpens ==
  ASSUME NEW s, IsOn("cbc", s), NEW m, NEW in, IsCipher("cbc", s.table, s.iv, m, in)
  PROVE  Opens("cbc", s, in, m, CbcDecrypt(s, in))
  <1>1. /\ m \in Seq(Byte) /\ in \in Seq(Byte) /\ Len(in) = Len(m)
        /\ IsStream("cbc", s.table, s.iv, m, in, Len(m) \div BS) /\ Len(m) % BS = 0
    BY DEF IsCipher, Full, IsTail
  <1>2. PICK n \in Nat : n = Len(in) \div BS /\ n * BS = Len(in)
    BY <1>1, Parts
  <1>3. PICK f : /\ IsLoop("cbc-dec", s, in, n, f)
                 /\ Loop(s, in, n, BS, CbcDecBlock) = f[n]
    BY CbcDecrypts, Zenon
  <1>4. PICK g : g = f[n]
    OBVIOUS
  <1>5. /\ IsOn("cbc", g) /\ g.table = s.table
        /\ g.out \in Seq(Byte) /\ Len(g.out) = n * BS
        /\ g.iv = Before("cbc", s.iv, in, n)
        /\ \A k \in Nat : k < n => Blk(g.out, k) = Blk(m, k)
    <2>1. /\ "cbc" \in Chained /\ IsLoop(DecTurn("cbc"), s, in, n, f)
          /\ n * BS <= Len(in) /\ n * BS <= Len(m)
          /\ IsStream("cbc", s.table, s.iv, m, in, n)
      BY <1>1, <1>2, <1>3 DEF Chained, DecTurn
    <2>. QED BY <1>1, <1>4, <2>1, DecLoop
  <1>6. CbcDecrypt(s, in) = [g EXCEPT !.out = @ \o Untouched(0)]
    BY <1>1, <1>2, <1>3, <1>4 DEF CbcDecrypt
  <1>7. CbcDecrypt(s, in) = g
    <2>1. [g EXCEPT !.out = g.out] = g
      BY <1>5 DEF IsOn, IsState
    <2>2. g.out \o Untouched(0) = g.out
      BY <1>5, NothingBehind
    <2>. QED BY <1>6, <2>1, <2>2
  <1>8. g.out = m
    <2>1. PICK o : o = g.out
      OBVIOUS
    <2>2. o \in Seq(Byte) /\ Len(o) = Len(m) /\ Len(o) \div BS = n /\ Len(o) % BS = 0
      BY <1>1, <1>2, <1>5, <2>1
    <2>3. \A k \in Nat : k < n => Blk(o, k) = Blk(m, k)
      BY <1>5, <2>1
    <2>. QED BY <1>1, <2>1, <2>2, <2>3, SameBlocks
  <1>. QED BY <1>2, <1>5, <1>7, <1>8 DEF Opens

\* One block of key stream.
LEMMA CtrStreamIs ==
  ASSUME NEW s, IsOn("ctr", s), NEW e, e = CtrStream(s)
  PROVE  /\ IsOn("ctr", e) /\ Extends(s.table, e.table) /\ e.out = s.out
         /\ Enciphers(e.table, Named(<<"ctr", s.iv>>, BS), e.res) /\ e.res \in Block
  <1>1. s.iv \in Nat /\ IsState(s) /\ IsTable(s.table)
    BY DEF IsOn, IsIv
  <1>2. PICK c : c = Named(<<"ctr", s.iv>>, BS)
    OBVIOUS
  <1>3. PICK d : d = Encrypted(s, c)
    OBVIOUS
  <1>4. /\ IsState(d) /\ IsTable(d.table) /\ Extends(s.table, d.table)
        /\ Enciphers(d.table, c, d.res) /\ d.res \in Block
        /\ d.iv = s.iv /\ d.out = s.out
    BY <1>1, <1>2, <1>3, CounterIs, EncryptedIs
  <1>5. e = [d EXCEPT !.iv = @ + 1]
    BY <1>2, <1>3 DEF CtrStream
  <1>6. e = [table |-> d.table, res |-> d.res, out |-> d.out, iv |-> d.iv + 1]
    BY <1>4, <1>5 DEF IsState
  <1>7. e.table = d.table /\ e.res = d.res /\ e.out = d.out /\ e.iv = d.iv + 1 /\ IsState(e)
    BY <1>6 DEF IsState
  <1>. QED BY <1>1, <1>2, <1>4, <1>7 DEF IsOn, IsIv

LEMMA CtrStreamAgain ==
  ASSUME NEW s, IsOn("ctr", s), NEW z, Enciphers(s.table, Named(<<"ctr", s.iv>>, BS), z)
  PROVE  CtrStream(s) = [table |-> s.table, res |-> z, out |-> s.out, iv |-> s.iv + 1]
  <1>1. s.iv \in Nat /\ IsState(s) /\ IsTable(s.table)
    BY DEF IsOn, IsIv
  <1>2. PICK c : c = Named(<<"ctr", s.iv>>, BS)
    OBVIOUS
  <1>3. Encrypted(s, c) = [s EXCEPT !.res = z]
    BY <1>1, <1>2, CounterIs, EncryptedAgain
  <1>4. CtrStream(s) = [[s EXCEPT !.res = z] EXCEPT !.iv = @ + 1]
    BY <1>2, <1>3 DEF CtrStream
  <1>. QED BY <1>1, <1>4 DEF IsState

\* The blocks of a string, and the bytes behind them.
LEMMA LengthParts ==
  ASSUME NEW in \in Seq(Byte)
  PROVE  \E q \in Nat, r \in Nat :
           /\ q = Len(in) \div BS /\ r = Len(in) % BS /\ Len(in) = q * BS + r
           /\ r < BS /\ q * BS \in Nat
  <1>1. PICK n \in Nat : n = Len(in)
    OBVIOUS
  <1>2. /\ n \div BS \in Nat /\ n % BS \in Nat /\ n % BS < BS
        /\ n = (n \div BS) * BS + (n % BS) /\ (n \div BS) * BS \in Nat
    BY Parts
  <1>. QED BY <1>1, <1>2, Zenon

\* The end of a message, appended to its whole blocks.
LEMMA TailJoins ==
  ASSUME NEW o \in Seq(Byte), NEW q \in Nat, Len(o) = q * BS,
         NEW r \in Nat, NEW t \in Bytes(r)
  PROVE  /\ o \o t \in Seq(Byte) /\ Len(o \o t) = q * BS + r
         /\ \A k \in Nat : k < q => Blk(o \o t, k) = Blk(o, k)
         /\ \A i \in 1..r : (o \o t)[q * BS + i] = t[i]
  <1>1. t \in Seq(Byte) /\ Len(t) = r
    BY BytesAreSeq
  <1>2. PICK u : u = o \o t
    OBVIOUS
  <1>3. /\ u \in Seq(Byte) /\ Len(u) = q * BS + r
        /\ \A i \in 1..r : u[q * BS + i] = t[i]
    <2>1. PICK l \in Nat : l = Len(o)
      OBVIOUS
    <2>2. u \in Seq(Byte) /\ Len(u) = l + r /\ \A i \in 1..r : u[l + i] = t[i]
      BY <1>1, <1>2, <2>1, CatIs
    <2>. QED BY <2>1, <2>2
  <1>4. BlocksJoin(o \o t, o, t, q)
    BY <1>1, BlkCat
  <1>. QED BY <1>2, <1>3, <1>4 DEF BlocksJoin

LEMMA StreamStays ==
  ASSUME NEW mode, NEW T, NEW U, IsTable(T), IsTable(U), Extends(T, U),
         NEW iv, NEW m, NEW c, NEW n, IsStream(mode, T, iv, m, c, n)
  PROVE  IsStream(mode, U, iv, m, c, n)
  <1>. SUFFICES ASSUME NEW k \in Nat, k < n
                PROVE  BlockEnc(mode, U, Before(mode, iv, c, k), Blk(m, k), Blk(c, k))
    BY DEF IsStream
  <1>1. BlockEnc(mode, T, Before(mode, iv, c, k), Blk(m, k), Blk(c, k))
    BY DEF IsStream
  <1>. QED BY <1>1, BlockEncStays

\* A stream, with something else of the same blocks in place of c.
LEMMA StreamSame ==
  ASSUME NEW mode, NEW T, NEW iv, NEW m, NEW c, NEW d, NEW n \in Nat,
         IsStream(mode, T, iv, m, c, n),
         \A k \in Nat : k < n => Blk(c, k) = Blk(d, k)
  PROVE  /\ IsStream(mode, T, iv, m, d, n)
         /\ Before(mode, iv, c, n) = Before(mode, iv, d, n)
  <1>1. ASSUME NEW k \in Nat, k < n
        PROVE  BlockEnc(mode, T, Before(mode, iv, d, k), Blk(m, k), Blk(d, k))
    <2>1. \A j \in Nat : j < k => Blk(c, j) = Blk(d, j)
      BY <1>1
    <2>2. Before(mode, iv, c, k) = Before(mode, iv, d, k)
      BY <2>1, BeforeSame
    <2>3. Blk(c, k) = Blk(d, k)
      BY <1>1
    <2>4. BlockEnc(mode, T, Before(mode, iv, c, k), Blk(m, k), Blk(c, k))
      BY <1>1 DEF IsStream
    <2>. QED BY <2>2, <2>3, <2>4
  <1>2. Before(mode, iv, c, n) = Before(mode, iv, d, n)
    BY BeforeSame
  <1>. QED BY <1>1, <1>2 DEF IsStream

\* mode_ctr_crypt, encrypting.
LEMMA CtrGives ==
  ASSUME NEW s, IsOn("ctr", s), NEW in \in Seq(Byte)
  PROVE  Gives("ctr", s, in, CtrCrypt(s, in))
  <1>1. PICK q \in Nat, r \in Nat :
          /\ q = Len(in) \div BS /\ r = Len(in) % BS /\ Len(in) = q * BS + r
          /\ r < BS /\ q * BS \in Nat
    BY LengthParts
  <1>2. PICK f : /\ IsLoop("ctr", s, in, q, f)
                 /\ Loop(s, in, q, BS, CtrBytes) = f[q]
    BY CtrCrypts, Zenon
  <1>3. PICK g : g = f[q]
    OBVIOUS
  <1>4. /\ IsOn("ctr", g) /\ Extends(s.table, g.table)
        /\ g.out \in Seq(Byte) /\ Len(g.out) = q * BS
        /\ g.iv = Before("ctr", s.iv, g.out, q)
        /\ IsStream("ctr", g.table, s.iv, in, g.out, q)
    <2>1. "ctr" \in Chained /\ IsLoop(EncTurn("ctr"), s, in, q, f) /\ q * BS <= Len(in)
      BY <1>1, <1>2 DEF Chained, EncTurn
    <2>. QED BY <1>3, <2>1, EncLoop
  <1>5. CASE r = 0
    <2>1. CtrCrypt(s, in) = g
      BY <1>1, <1>2, <1>3, <1>5 DEF CtrCrypt
    <2>2. IsCipher("ctr", g.table, s.iv, in, g.out)
      <3>1. Full("ctr", Len(in)) = q
        BY <1>1 DEF Full
      <3>2. IsTail("ctr", g.table, s.iv, in, g.out, q, r)
        BY <1>5 DEF IsTail
      <3>3. Len(g.out) = Len(in)
        <4>1. Len(g.out) = q * BS
          BY <1>4
        <4>2. q * BS + 0 = q * BS
          BY <1>1
        <4>. QED BY <1>1, <1>5, <4>1, <4>2, Zenon
      <3>. QED BY <1>1, <1>4, <3>1, <3>2, <3>3, Zenon DEF IsCipher
    <2>. QED BY <1>1, <1>4, <2>1, <2>2 DEF Gives
  <1>6. CASE r # 0
    <2>1. PICK e : e = CtrStream(g)
      OBVIOUS
    <2>2. /\ IsOn("ctr", e) /\ Extends(g.table, e.table) /\ e.out = g.out
          /\ Enciphers(e.table, Named(<<"ctr", g.iv>>, BS), e.res) /\ e.res \in Block
      BY <1>4, <2>1, CtrStreamIs
    <2>3. PICK x : x = Piece(in, q * BS, r)
      OBVIOUS
    <2>4. x \in Bytes(r) /\ \A i \in 1..r : x[i] = in[q * BS + i]
      <3>1. q * BS \in Nat /\ q * BS + r <= Len(in)
        BY <1>1, <1>2
      <3>. QED BY ZenonT(60), <1>1, <2>3, <3>1, PieceIs
    <2>5. PICK t : t = XorBytes(x, e.res)
      OBVIOUS
    <2>6. t \in Bytes(r) /\ \A i \in 1..r : t[i] = SymDiff(in[q * BS + i], e.res[i])
      <3>1. t \in Bytes(r) /\ \A i \in 1..r : t[i] = SymDiff(x[i], e.res[i])
        <4>1. r <= BS /\ BS \in Nat /\ e.res \in Bytes(BS)
          BY <1>1, <2>2, BlockSize DEF Block
        <4>. QED BY <2>4, <2>5, <4>1, XorPart
      <3>. QED BY <2>4, <3>1
    <2>7. PICK d : d = CtrCrypt(s, in)
      OBVIOUS
    <2>8. d = [e EXCEPT !.out = @ \o t]
      BY <1>1, <1>2, <1>3, <1>6, <2>1, <2>3, <2>5, <2>7 DEF CtrCrypt
    <2>9. d = [table |-> e.table, res |-> e.res, out |-> g.out \o t, iv |-> e.iv]
      BY <2>2, <2>8 DEF IsOn, IsState
    <2>10. d.table = e.table /\ d.out = g.out \o t /\ d.iv = e.iv /\ IsState(d)
      BY <2>9 DEF IsState
    <2>11. IsOn("ctr", d)
      BY <2>2, <2>10 DEF IsOn
    <2>12. Extends(s.table, d.table)
      BY <1>4, <2>2, <2>10, ExtendsIs DEF IsOn
    <2>13. /\ d.out \in Seq(Byte) /\ Len(d.out) = q * BS + r
           /\ \A k \in Nat : k < q => Blk(d.out, k) = Blk(g.out, k)
           /\ \A i \in 1..r : d.out[q * BS + i] = t[i]
      <3>1. PICK o : o = g.out
        OBVIOUS
      <3>2. o \in Seq(Byte) /\ Len(o) = q * BS /\ d.out = o \o t
        BY <1>4, <2>10, <3>1
      <3>3. /\ o \o t \in Seq(Byte) /\ Len(o \o t) = q * BS + r
            /\ \A k \in Nat : k < q => Blk(o \o t, k) = Blk(o, k)
            /\ \A i \in 1..r : (o \o t)[q * BS + i] = t[i]
        BY <2>6, <3>2, TailJoins
      <3>. QED BY <3>1, <3>2, <3>3
    <2>14. IsStream("ctr", d.table, s.iv, in, d.out, q)
      <3>1. IsStream("ctr", d.table, s.iv, in, g.out, q)
        BY <1>4, <2>2, <2>10, StreamStays DEF IsOn
      <3>. QED BY <2>13, <3>1, StreamSame
    <2>15. CtrTail(d.table, s.iv, in, d.out, q, r)
      <3>1. g.iv = s.iv + q
        BY <1>4 DEF Before
      <3>2. Enciphers(d.table, Named(<<"ctr", s.iv + q>>, BS), e.res)
        BY <2>2, <2>10, <3>1
      <3>3. \A i \in 1..r : d.out[q * BS + i] = SymDiff(in[q * BS + i], e.res[i])
        BY <2>6, <2>13
      <3>. QED BY <3>2, <3>3 DEF CtrTail
    <2>16. IsCipher("ctr", d.table, s.iv, in, d.out)
      <3>1. Full("ctr", Len(in)) = q
        BY <1>1 DEF Full
      <3>2. IsTail("ctr", d.table, s.iv, in, d.out, q, r)
        BY <2>15 DEF IsTail
      <3>. QED BY <1>1, <2>13, <2>14, <3>1, <3>2 DEF IsCipher
    <2>. QED BY <1>1, <1>6, <2>7, <2>11, <2>12, <2>16 DEF Gives
  <1>. QED BY <1>5, <1>6

\* mode_ctr_crypt, decrypting.
LEMMA CtrOpens ==
  ASSUME NEW s, IsOn("ctr", s), NEW m, NEW in, IsCipher("ctr", s.table, s.iv, m, in)
  PROVE  Opens("ctr", s, in, m, CtrCrypt(s, in))
  <1>1. m \in Seq(Byte) /\ in \in Seq(Byte) /\ Len(in) = Len(m)
    BY DEF IsCipher
  <1>2. PICK q \in Nat, r \in Nat :
          /\ q = Len(in) \div BS /\ r = Len(in) % BS /\ Len(in) = q * BS + r
          /\ r < BS /\ q * BS \in Nat
    BY <1>1, LengthParts
  <1>3. /\ IsStream("ctr", s.table, s.iv, m, in, q)
        /\ r # 0 => CtrTail(s.table, s.iv, m, in, q, r)
    BY <1>1, <1>2 DEF IsCipher, Full, IsTail
  <1>4. PICK f : /\ IsLoop("ctr", s, in, q, f)
                 /\ Loop(s, in, q, BS, CtrBytes) = f[q]
    BY CtrCrypts, Zenon
  <1>5. PICK g : g = f[q]
    OBVIOUS
  <1>6. /\ IsOn("ctr", g) /\ g.table = s.table
        /\ g.out \in Seq(Byte) /\ Len(g.out) = q * BS
        /\ g.iv = Before("ctr", s.iv, in, q)
        /\ \A k \in Nat : k < q => Blk(g.out, k) = Blk(m, k)
    <2>1. /\ "ctr" \in Chained /\ IsLoop(DecTurn("ctr"), s, in, q, f)
          /\ q * BS <= Len(in) /\ q * BS <= Len(m)
      BY <1>1, <1>2, <1>4 DEF Chained, DecTurn
    <2>. QED BY <1>1, <1>3, <1>5, <2>1, DecLoop
  <1>7. CASE r = 0
    <2>1. CtrCrypt(s, in) = g
      BY <1>2, <1>4, <1>5, <1>7 DEF CtrCrypt
    <2>2. g.out = m
      <3>1. PICK o : o = g.out
        OBVIOUS
      <3>2. o \in Seq(Byte) /\ Len(o) = Len(m) /\ Len(o) \div BS = q /\ Len(o) % BS = 0
        BY <1>1, <1>2, <1>6, <1>7, <3>1
      <3>3. \A k \in Nat : k < q => Blk(o, k) = Blk(m, k)
        BY <1>6, <3>1
      <3>. QED BY <1>1, <3>1, <3>2, <3>3, SameBlocks
    <2>. QED BY <1>2, <1>6, <2>1, <2>2 DEF Opens
  <1>8. CASE r # 0
    <2>1. PICK z : /\ Enciphers(s.table, Named(<<"ctr", s.iv + q>>, BS), z)
                   /\ \A i \in 1..r : in[q * BS + i] = SymDiff(m[q * BS + i], z[i])
      BY <1>3, <1>8 DEF CtrTail
    <2>2. z \in Block
      BY <2>1, EnciphersBlocks DEF IsOn
    <2>3. PICK e : e = CtrStream(g)
      OBVIOUS
    <2>4. e = [table |-> s.table, res |-> z, out |-> g.out, iv |-> g.iv + 1]
      <3>1. g.iv = s.iv + q
        BY <1>6 DEF Before
      <3>2. Enciphers(g.table, Named(<<"ctr", g.iv>>, BS), z)
        BY <1>6, <2>1, <3>1
      <3>3. e = [table |-> g.table, res |-> z, out |-> g.out, iv |-> g.iv + 1]
        BY <1>6, <2>3, <3>2, CtrStreamAgain
      <3>. QED BY <1>6, <3>3
    <2>5. PICK x : x = Piece(in, q * BS, r)
      OBVIOUS
    <2>6. x \in Bytes(r) /\ \A i \in 1..r : x[i] = in[q * BS + i]
      <3>1. q * BS \in Nat /\ q * BS + r <= Len(in)
        BY <1>1, <1>2
      <3>. QED BY ZenonT(60), <1>1, <1>2, <2>5, <3>1, PieceIs
    <2>7. PICK t : t = XorBytes(x, z)
      OBVIOUS
    <2>8. t \in Bytes(r) /\ \A i \in 1..r : t[i] = m[q * BS + i]
      <3>1. t \in Bytes(r) /\ \A i \in 1..r : t[i] = SymDiff(x[i], z[i])
        <4>1. r <= BS /\ BS \in Nat /\ z \in Bytes(BS)
          BY <1>2, <2>2, BlockSize DEF Block
        <4>. QED BY <2>6, <2>7, <4>1, XorPart
      <3>. QED BY <2>1, <2>6, <3>1, SymDiffTwice
    <2>9. PICK d : d = CtrCrypt(s, in)
      OBVIOUS
    <2>10. d = [e EXCEPT !.out = @ \o XorBytes(x, e.res)]
      BY <1>2, <1>4, <1>5, <1>8, <2>3, <2>5, <2>9 DEF CtrCrypt
    <2>11. d = [table |-> s.table, res |-> z, out |-> g.out \o t, iv |-> g.iv + 1]
      BY <2>4, <2>7, <2>10
    <2>12. d.table = s.table /\ d.out = g.out \o t /\ d.iv = g.iv + 1 /\ IsState(d)
      BY <2>11 DEF IsState
    <2>13. IsOn("ctr", d)
      BY <1>6, <2>12 DEF IsOn, IsIv
    <2>14. d.out = m
      <3>1. PICK o : o = g.out
        OBVIOUS
      <3>2. o \in Seq(Byte) /\ Len(o) = q * BS /\ d.out = o \o t
        BY <1>6, <2>12, <3>1
      <3>3. PICK u : u = o \o t
        OBVIOUS
      <3>4. /\ u \in Seq(Byte) /\ Len(u) = q * BS + r
            /\ \A k \in Nat : k < q => Blk(u, k) = Blk(o, k)
            /\ \A i \in 1..r : u[q * BS + i] = t[i]
        BY <2>8, <3>2, <3>3, TailJoins
      <3>5. \A k \in Nat : k < q => Blk(u, k) = Blk(m, k)
        BY <1>6, <3>1, <3>4
      <3>6. \A i \in Nat : 1 <= i /\ i <= r => u[q * BS + i] = m[q * BS + i]
        BY <2>8, <3>4
      <3>7. Len(u) = Len(m) /\ Len(u) \div BS = q /\ Len(u) % BS = r
        BY <1>1, <1>2, <3>4
      <3>8. u = m
        BY <1>1, <3>4, <3>5, <3>6, <3>7, SameBlocks
      <3>. QED BY <3>2, <3>3, <3>8
    <2>. QED BY <1>2, <1>8, <2>9, <2>12, <2>13, <2>14 DEF Opens
  <1>. QED BY <1>7, <1>8

\* One block of XTS with tweak k.
LEMMA XtsEncBlockIs ==
  ASSUME NEW s, IsState(s), IsTable(s.table), NEW k \in Nat, NEW x \in Block,
         NEW d, d = XtsEncBlock(s, k, x)
  PROVE  /\ IsState(d) /\ IsTable(d.table) /\ Extends(s.table, d.table)
         /\ BlockEnc("xts", d.table, k, x, d.res) /\ d.res \in Block
         /\ d.iv = s.iv /\ d.out = s.out
  <1>1. PICK w : w = Tweak(k)
    OBVIOUS
  <1>2. w \in Block
    BY <1>1, CounterIs
  <1>3. PICK e : e = Encrypted(s, XorBytes(x, w))
    OBVIOUS
  <1>4. /\ IsState(e) /\ IsTable(e.table) /\ Extends(s.table, e.table)
        /\ Enciphers(e.table, XorBytes(x, w), e.res) /\ e.res \in Block
        /\ e.iv = s.iv /\ e.out = s.out
    BY <1>2, <1>3, XorBlocks, EncryptedIs
  <1>5. d = [e EXCEPT !.res = XorBytes(@, w)]
    BY <1>1, <1>3 DEF XtsEncBlock
  <1>6. d = [table |-> e.table, res |-> XorBytes(e.res, w), out |-> e.out, iv |-> e.iv]
    BY <1>4, <1>5 DEF IsState
  <1>7. /\ d.table = e.table /\ d.res = XorBytes(e.res, w) /\ d.out = e.out
        /\ d.iv = e.iv /\ IsState(d)
    BY <1>6 DEF IsState
  <1>8. d.res \in Block
    BY <1>2, <1>4, <1>7, XorBlocks
  <1>9. BlockEnc("xts", d.table, k, x, d.res)
    BY <1>1, <1>4, <1>7 DEF BlockEnc
  <1>. QED BY <1>4, <1>7, <1>8, <1>9

LEMMA XtsDecBlockIs ==
  ASSUME NEW s, IsState(s), IsTable(s.table), NEW k \in Nat, NEW x \in Block,
         NEW y \in Block, BlockEnc("xts", s.table, k, x, y)
  PROVE  XtsDecBlock(s, k, y) = [table |-> s.table, res |-> x, out |-> s.out, iv |-> s.iv]
  <1>1. PICK w : w = Tweak(k)
    OBVIOUS
  <1>2. w \in Block
    BY <1>1, CounterIs
  <1>3. PICK z : Enciphers(s.table, XorBytes(x, w), z) /\ y = XorBytes(z, w)
    BY <1>1 DEF BlockEnc
  <1>4. z \in Block
    BY <1>3, EnciphersBlocks
  <1>5. XorBytes(y, w) = z
    BY <1>2, <1>3, <1>4, XorBlocks
  <1>6. PICK v : v = XorBytes(x, w)
    OBVIOUS
  <1>7. Decrypted(s, z) = [s EXCEPT !.res = v]
    BY <1>3, <1>6, DecryptedIs
  <1>8. XtsDecBlock(s, k, y) = [[s EXCEPT !.res = v] EXCEPT !.res = XorBytes(@, w)]
    BY <1>1, <1>5, <1>7 DEF XtsDecBlock
  <1>9. XorBytes(v, w) = x
    BY <1>2, <1>6, XorBlocks
  <1>. QED BY <1>8, <1>9 DEF IsState

\* A string filled up to a block with the end of another one.
LEMMA FilledUp ==
  ASSUME NEW r \in Nat, r <= BS, NEW u \in Bytes(r), NEW x \in Block
  PROVE  /\ u \o Piece(x, r, BS - r) \in Block
         /\ \A i \in 1..BS : (u \o Piece(x, r, BS - r))[i] = IF i <= r THEN u[i] ELSE x[i]
  <1>1. BS \in Nat /\ BS - r \in Nat /\ x \in Seq(Byte) /\ Len(x) = BS /\ r + (BS - r) = BS
    BY BytesAreSeq, BlockSize DEF Block
  <1>2. PICK v : v = Piece(x, r, BS - r)
    OBVIOUS
  <1>3. v \in Bytes(BS - r) /\ \A i \in 1..(BS - r) : v[i] = x[r + i]
    BY <1>1, <1>2, PieceIs
  <1>4. u \in Seq(Byte) /\ v \in Seq(Byte) /\ Len(u) = r /\ Len(v) = BS - r
    BY <1>1, <1>3, BytesAreSeq
  <1>5. PICK w : w = u \o v
    OBVIOUS
  <1>6. /\ w \in Seq(Byte) /\ Len(w) = BS
        /\ \A i \in 1..r : w[i] = u[i]
        /\ \A i \in 1..(BS - r) : w[r + i] = v[i]
    <2>1. /\ w \in Seq(Byte) /\ Len(w) = Len(u) + Len(v)
          /\ \A i \in 1..Len(u) : w[i] = u[i]
          /\ \A i \in 1..Len(v) : w[Len(u) + i] = v[i]
      BY <1>4, <1>5, CatIs
    <2>. QED BY <1>1, <1>4, <2>1
  <1>7. w \in Block
    BY <1>6, SeqIsBytes DEF Block
  <1>8. ASSUME NEW i \in 1..BS PROVE w[i] = IF i <= r THEN u[i] ELSE x[i]
    <2>1. CASE i <= r
      BY <1>1, <1>6, <2>1
    <2>2. CASE ~ (i <= r)
      <3>1. PICK j \in 1..(BS - r) : i = r + j
        <4>1. i - r \in 1..(BS - r) /\ i = r + (i - r)
          BY <1>1, <2>2
        <4>. QED BY <4>1
      <3>. QED BY <1>3, <1>6, <2>2, <3>1
    <2>. QED BY <2>1, <2>2
  <1>. QED BY <1>2, <1>5, <1>7, <1>8

LEMMA StolenIs ==
  ASSUME NEW m \in Seq(Byte), NEW q \in Nat, NEW r \in Nat, r <= BS, q * BS + r <= Len(m),
         NEW cc \in Block
  PROVE  /\ Stolen(m, q, r, cc) \in Block
         /\ Piece(m, q * BS, r) \o Piece(cc, r, BS - r) = Stolen(m, q, r, cc)
  <1>1. q * BS \in Nat /\ BS \in Nat
    BY Multiples, BlockSize
  <1>2. PICK u : u = Piece(m, q * BS, r)
    OBVIOUS
  <1>3. u \in Bytes(r) /\ \A i \in 1..r : u[i] = m[q * BS + i]
    BY <1>1, <1>2, PieceIs
  <1>4. PICK w : w = u \o Piece(cc, r, BS - r)
    OBVIOUS
  <1>5. w \in Block /\ \A i \in 1..BS : w[i] = IF i <= r THEN u[i] ELSE cc[i]
    BY <1>3, <1>4, FilledUp
  <1>6. \A i \in 1..BS : w[i] = IF i <= r THEN m[q * BS + i] ELSE cc[i]
    BY <1>1, <1>3, <1>5
  <1>7. w = [i \in 1..BS |-> w[i]]
    BY <1>5 DEF Block, Bytes
  <1>8. w = Stolen(m, q, r, cc)
    BY <1>6, <1>7 DEF Stolen
  <1>. QED BY <1>2, <1>4, <1>5, <1>8

\* A block and the end of a message, appended to the blocks before.
Appended(u, o, p, x, r, t) ==
  /\ u \in Seq(Byte) /\ Len(u) = (p + 1) * BS + r
  /\ \A k \in Nat : k < p => Blk(u, k) = Blk(o, k)
  /\ Blk(u, p) = x
  /\ \A i \in 1..r : u[(p + 1) * BS + i] = t[i]

LEMMA BlockJoins ==
  ASSUME NEW o \in Seq(Byte), NEW p \in Nat, Len(o) = p * BS, NEW x \in Block,
         NEW r \in Nat, NEW t \in Bytes(r)
  PROVE  Appended(o \o x \o t, o, p, x, r, t)
  <1>1. x \in Seq(Byte) /\ Len(x) = BS
    BY BytesAreSeq, BlockSize DEF Block
  <1>2. PICK v : v = o \o x
    OBVIOUS
  <1>3. v \in Seq(Byte) /\ Len(v) = (p + 1) * BS
    <2>1. v \in Seq(Byte) /\ Len(v) = Len(o) + Len(x)
      BY <1>1, <1>2, CatIs
    <2>. QED BY <1>1, <2>1, Multiples
  <1>4. BlocksJoin(v, o, x, p)
    BY <1>1, <1>2, BlkCat
  <1>5. \A k \in Nat : k < p => Blk(v, k) = Blk(o, k)
    BY <1>4 DEF BlocksJoin
  <1>6. Blk(v, p) = x
    <2>1. 0 * BS + BS <= Len(x) /\ p + 0 = p
      BY <1>1, BlockSize
    <2>2. Blk(v, p) = Blk(x, 0)
      BY <1>4, <2>1 DEF BlocksJoin
    <2>3. x \in [1..BS -> Byte]
      BY DEF Block, Bytes
    <2>4. \A j \in 1..BS : 0 * BS + j = j
      BY BlockSize
    <2>5. Blk(x, 0) = x
      BY <2>3, <2>4 DEF Blk
    <2>. QED BY <2>2, <2>5
  <1>7. PICK u : u = v \o t
    OBVIOUS
  <1>8. PICK l \in Nat : l = p + 1
    OBVIOUS
  <1>9. /\ u \in Seq(Byte) /\ Len(u) = l * BS + r
        /\ \A k \in Nat : k < l => Blk(u, k) = Blk(v, k)
        /\ \A i \in 1..r : u[l * BS + i] = t[i]
    <2>1. v \in Seq(Byte) /\ Len(v) = l * BS
      BY <1>3, <1>8
    <2>. QED BY SMTT(30), <1>7, <2>1, TailJoins
  <1>10. p < l /\ \A k \in Nat : k < p => k < l
    BY <1>8
  <1>. QED BY <1>2, <1>5, <1>6, <1>7, <1>8, <1>9, <1>10 DEF Appended

\* mode_xts_encrypt.
LEMMA XtsGives ==
  ASSUME NEW s, IsOn("xts", s), NEW in \in Seq(Byte), Len(in) = 0 \/ Len(in) >= BS
  PROVE  Gives("xts", s, in, XtsEncrypt(s, in))
  <1>1. PICK q \in Nat, r \in Nat :
          /\ q = Len(in) \div BS /\ r = Len(in) % BS /\ Len(in) = q * BS + r
          /\ r < BS /\ q * BS \in Nat
    BY LengthParts
  <1>2. IsState(s) /\ IsTable(s.table) /\ s.iv \in Nat
    BY DEF IsOn, IsIv
  <1>3. CASE Len(in) = 0
    <2>1. q = 0 /\ r = 0 /\ Len(in) < BS
      <3>1. Len(in) = 0 * BS + 0 /\ 0 < BS
        BY <1>3, BlockSize
      <3>. QED BY <1>1, <1>3, <3>1, PartsAre
    <2>2. PICK d : d = XtsEncrypt(s, in)
      OBVIOUS
    <2>3. d = [s EXCEPT !.out = Untouched(0)]
      BY <1>3, <2>1, <2>2 DEF XtsEncrypt
    <2>4. d = [table |-> s.table, res |-> s.res, out |-> Untouched(0), iv |-> s.iv]
      BY <1>2, <2>3 DEF IsState
    <2>5. d.table = s.table /\ d.out = Untouched(0) /\ d.iv = s.iv /\ IsState(d)
      BY <2>4 DEF IsState
    <2>6. d.out \in Seq(Byte) /\ Len(d.out) = 0
      BY <2>5 DEF Untouched
    <2>7. IsCipher("xts", d.table, s.iv, in, d.out)
      <3>1. Full("xts", Len(in)) = 0
        BY <1>1, <2>1 DEF Full
      <3>2. IsTail("xts", d.table, s.iv, in, d.out, q, r)
        BY <2>1 DEF IsTail
      <3>3. IsStream("xts", d.table, s.iv, in, d.out, 0)
        BY DEF IsStream
      <3>. QED BY <1>1, <1>3, <2>6, <3>1, <3>2, <3>3 DEF IsCipher
    <2>8. Before("xts", s.iv, d.out, 0) = s.iv
      BY <1>2 DEF Before
    <2>9. IsOn("xts", d) /\ Extends(s.table, d.table)
      BY <1>2, <2>5, ExtendsIs DEF IsOn, IsIv
    <2>. QED BY <1>1, <2>1, <2>2, <2>5, <2>7, <2>8, <2>9 DEF Gives
  <1>4. CASE Len(in) >= BS /\ r = 0
    <2>1. PICK f : /\ IsLoop("xts-enc", s, in, q, f)
                   /\ Loop(s, in, q, BS, XtsEncNext) = f[q]
      BY XtsEncrypts, Zenon
    <2>2. PICK g : g = f[q]
      OBVIOUS
    <2>3. /\ IsOn("xts", g) /\ Extends(s.table, g.table)
          /\ g.out \in Seq(Byte) /\ Len(g.out) = q * BS
          /\ g.iv = Before("xts", s.iv, g.out, q)
          /\ IsStream("xts", g.table, s.iv, in, g.out, q)
      <3>1. "xts" \in Chained /\ IsLoop(EncTurn("xts"), s, in, q, f) /\ q * BS <= Len(in)
        BY <1>1, <2>1 DEF Chained, EncTurn
      <3>. QED BY <2>2, <3>1, EncLoop
    <2>4. Whole(in) = q
      BY <1>1, <1>4 DEF Whole
    <2>5. ~ (Len(in) < BS)
      BY <1>1, <1>4, BlockSize
    <2>6. XtsEncrypt(s, in) = g
      BY <1>1, <1>4, <2>1, <2>2, <2>4, <2>5, Zenon DEF XtsEncrypt
    <2>7. IsCipher("xts", g.table, s.iv, in, g.out)
      <3>1. Full("xts", Len(in)) = q
        BY <1>1, <1>4 DEF Full
      <3>2. IsTail("xts", g.table, s.iv, in, g.out, q, r)
        BY <1>4 DEF IsTail
      <3>3. Len(g.out) = Len(in)
        <4>1. Len(g.out) = q * BS
          BY <2>3
        <4>2. q * BS + 0 = q * BS
          BY <1>1
        <4>. QED BY <1>1, <1>4, <4>1, <4>2, Zenon
      <3>. QED BY <1>1, <2>3, <3>1, <3>2, <3>3, Zenon DEF IsCipher
    <2>. QED BY <1>1, <2>3, <2>6, <2>7 DEF Gives
  <1>5. CASE Len(in) >= BS /\ r # 0
    <2>1. PICK p \in Nat : q = p + 1 /\ p = q - 1
      <3>1. q # 0
        BY <1>1, <1>5, BlockSize
      <3>. QED BY <3>1
    <2>2. p * BS \in Nat /\ q * BS = p * BS + BS /\ p * BS + BS <= Len(in)
      <3>1. p * BS \in Nat /\ (p + 1) * BS = p * BS + BS
        BY Multiples
      <3>. QED BY <1>1, <2>1, <3>1, BlockSize
    <2>3. PICK f : /\ IsLoop("xts-enc", s, in, p, f)
                   /\ Loop(s, in, p, BS, XtsEncNext) = f[p]
      BY XtsEncrypts, Zenon
    <2>4. PICK g : g = f[p]
      OBVIOUS
    <2>5. /\ IsOn("xts", g) /\ Extends(s.table, g.table)
          /\ g.out \in Seq(Byte) /\ Len(g.out) = p * BS
          /\ g.iv = Before("xts", s.iv, g.out, p)
          /\ IsStream("xts", g.table, s.iv, in, g.out, p)
      <3>1. "xts" \in Chained /\ IsLoop(EncTurn("xts"), s, in, p, f) /\ p * BS <= Len(in)
        BY <2>2, <2>3, BlockSize DEF Chained, EncTurn
      <3>. QED BY <2>4, <3>1, EncLoop
    <2>6. IsState(g) /\ IsTable(g.table) /\ g.iv = s.iv + p /\ g.iv \in Nat
      BY <1>2, <2>5 DEF IsOn, Before
    <2>7. PICK x \in Block : x = Piece(in, p * BS, BS) /\ x = Blk(in, p)
      BY <2>2, BlkIs
    <2>8. PICK cc : cc = XtsEncBlock(g, g.iv, x)
      OBVIOUS
    <2>9. /\ IsState(cc) /\ IsTable(cc.table) /\ Extends(g.table, cc.table)
          /\ BlockEnc("xts", cc.table, g.iv, x, cc.res) /\ cc.res \in Block
          /\ cc.iv = g.iv /\ cc.out = g.out
      BY <2>6, <2>8, XtsEncBlockIs
    <2>10. PICK y : y = Stolen(in, q, r, cc.res)
      OBVIOUS
    <2>11. y \in Block /\ Piece(in, q * BS, r) \o Piece(cc.res, r, BS - r) = y
      <3>1. r <= BS /\ q * BS + r <= Len(in)
        BY <1>1, BlockSize
      <3>. QED BY <2>9, <2>10, <3>1, StolenIs
    <2>12. PICK pp : pp = XtsEncBlock(cc, g.iv + 1, y)
      OBVIOUS
    <2>13. /\ IsState(pp) /\ IsTable(pp.table) /\ Extends(cc.table, pp.table)
           /\ BlockEnc("xts", pp.table, g.iv + 1, y, pp.res) /\ pp.res \in Block
           /\ pp.iv = cc.iv /\ pp.out = cc.out
      <3>1. g.iv + 1 \in Nat
        BY <2>6
      <3>. QED BY <2>9, <2>11, <2>12, <3>1, XtsEncBlockIs
    <2>14. PICK t : t = Piece(cc.res, 0, r)
      OBVIOUS
    <2>15. t \in Bytes(r) /\ \A i \in 1..r : t[i] = cc.res[i]
      <3>1. cc.res \in Seq(Byte) /\ Len(cc.res) = BS /\ 0 + r <= BS
        <4>1. cc.res \in Bytes(BS) /\ BS \in Nat
          BY <2>9, BlockSize DEF Block
        <4>. QED BY <1>1, <4>1, BytesAreSeq
      <3>2. t \in Bytes(r) /\ \A i \in 1..r : t[i] = cc.res[0 + i]
        BY <2>14, <3>1, PieceIs
      <3>. QED BY <3>2
    <2>16. PICK d : d = XtsEncrypt(s, in)
      OBVIOUS
    <2>17. d = [pp EXCEPT !.iv = @ + 1, !.out = @ \o pp.res \o t]
      <3>1. Whole(in) = p /\ p + 1 = q /\ Len(in) % BS = r
        BY <1>1, <1>5, <2>1 DEF Whole
      <3>2. ~ (Len(in) < BS)
        BY <1>1, <1>5, BlockSize
      <3>. QED BY <1>5, <2>3, <2>4, <2>7, <2>8, <2>11, <2>12, <2>14, <2>16, <3>1, <3>2, Zenon
           DEF XtsEncrypt
    <2>18. d = [table |-> pp.table, res |-> pp.res, out |-> g.out \o pp.res \o t, iv |-> pp.iv + 1]
      BY <2>9, <2>13, <2>17 DEF IsState
    <2>19. /\ d.table = pp.table /\ d.out = g.out \o pp.res \o t
           /\ d.iv = pp.iv + 1 /\ IsState(d)
      BY <2>18 DEF IsState
    <2>20. Appended(d.out, g.out, p, pp.res, r, t)
      <3>1. PICK o, z : o = g.out /\ z = pp.res
        OBVIOUS
      <3>2. o \in Seq(Byte) /\ Len(o) = p * BS /\ z \in Block
        BY <2>5, <2>13, <3>1
      <3>3. Appended(o \o z \o t, o, p, z, r, t)
        BY <2>15, <3>2, BlockJoins
      <3>. QED BY <2>19, <3>1, <3>3
    <2>21. /\ d.out \in Seq(Byte) /\ Len(d.out) = q * BS + r
           /\ \A k \in Nat : k < p => Blk(d.out, k) = Blk(g.out, k)
           /\ Blk(d.out, p) = pp.res
           /\ \A i \in 1..r : d.out[q * BS + i] = t[i]
      BY <2>1, <2>20 DEF Appended
    <2>22. IsTable(d.table) /\ Extends(g.table, d.table) /\ Extends(s.table, d.table)
      <3>1. Extends(g.table, d.table)
        BY <2>6, <2>9, <2>13, <2>19, ExtendsIs
      <3>. QED BY <1>2, <2>5, <2>6, <2>13, <2>19, <3>1, ExtendsIs
    <2>23. IsStream("xts", d.table, s.iv, in, d.out, p)
      <3>1. IsStream("xts", d.table, s.iv, in, g.out, p)
        BY <2>5, <2>6, <2>22, StreamStays
      <3>. QED BY <2>21, <3>1, StreamSame
    <2>24. XtsTail(d.table, s.iv, in, d.out, q, r)
      <3>1. q >= 1 /\ q - 1 = p /\ s.iv + (q - 1) = g.iv /\ s.iv + q = g.iv + 1
        BY <1>2, <2>1, <2>6
      <3>2. BlockEnc("xts", d.table, g.iv, x, cc.res)
        BY <2>9, <2>13, <2>19, BlockEncStays
      <3>3. BlockEnc("xts", d.table, g.iv + 1, y, pp.res)
        BY <2>13, <2>19
      <3>4. \A i \in 1..r : d.out[q * BS + i] = cc.res[i]
        BY <2>15, <2>21
      <3>. QED BY <2>7, <2>10, <2>21, <3>1, <3>2, <3>3, <3>4 DEF XtsTail
    <2>25. IsCipher("xts", d.table, s.iv, in, d.out)
      <3>1. Full("xts", Len(in)) = p
        BY <1>1, <1>5, <2>1 DEF Full
      <3>2. IsTail("xts", d.table, s.iv, in, d.out, q, r)
        BY <2>24 DEF IsTail
      <3>. QED BY <1>1, <2>21, <2>23, <3>1, <3>2 DEF IsCipher
    <2>26. IsOn("xts", d)
      BY <2>6, <2>9, <2>13, <2>19, <2>22 DEF IsOn, IsIv
    <2>. QED BY <1>1, <1>5, <2>16, <2>22, <2>25, <2>26 DEF Gives
  <1>. QED BY <1>3, <1>4, <1>5

\* mode_xts_decrypt.
LEMMA XtsOpens ==
  ASSUME NEW s, IsOn("xts", s), NEW m, NEW in, IsCipher("xts", s.table, s.iv, m, in)
  PROVE  Opens("xts", s, in, m, XtsDecrypt(s, in))
  <1>1. m \in Seq(Byte) /\ in \in Seq(Byte) /\ Len(in) = Len(m)
    BY DEF IsCipher
  <1>2. PICK q \in Nat, r \in Nat :
          /\ q = Len(in) \div BS /\ r = Len(in) % BS /\ Len(in) = q * BS + r
          /\ r < BS /\ q * BS \in Nat
    BY <1>1, LengthParts
  <1>3. IsState(s) /\ IsTable(s.table) /\ s.iv \in Nat
    BY DEF IsOn, IsIv
  <1>4. CASE r = 0 /\ q = 0
    <2>1. Len(in) = 0 /\ Len(in) < BS
      <3>1. 0 * BS = 0 /\ BS > 0
        BY BlockSize
      <3>. QED BY <1>2, <1>4, <3>1
    <2>2. PICK d : d = XtsDecrypt(s, in)
      OBVIOUS
    <2>3. d = [s EXCEPT !.out = Untouched(0)]
      BY <2>1, <2>2 DEF XtsDecrypt
    <2>4. d = [table |-> s.table, res |-> s.res, out |-> Untouched(0), iv |-> s.iv]
      BY <1>3, <2>3 DEF IsState
    <2>5. d.table = s.table /\ d.out = Untouched(0) /\ d.iv = s.iv /\ IsState(d)
      BY <2>4 DEF IsState
    <2>6. d.out = m
      <3>1. PICK o : o = Untouched(0)
        OBVIOUS
      <3>2. o \in Seq(Byte) /\ Len(o) = 0 /\ Len(m) = 0
        BY <1>1, <2>1, <3>1 DEF Untouched
      <3>3. o = m
        BY <1>1, <3>2, SameSeq
      <3>. QED BY <2>5, <3>1, <3>3
    <2>7. Before("xts", s.iv, in, 0) = s.iv
      BY <1>3 DEF Before
    <2>8. IsOn("xts", d)
      BY <1>3, <2>5 DEF IsOn, IsIv
    <2>. QED BY <1>2, <1>4, <2>2, <2>5, <2>6, <2>7, <2>8 DEF Opens
  <1>5. CASE r = 0 /\ q # 0
    <2>1. PICK f : /\ IsLoop("xts-dec", s, in, q, f)
                   /\ Loop(s, in, q, BS, XtsDecNext) = f[q]
      BY XtsDecrypts, Zenon
    <2>2. PICK g : g = f[q]
      OBVIOUS
    <2>3. IsStream("xts", s.table, s.iv, m, in, q)
      BY <1>1, <1>2, <1>5 DEF IsCipher, Full
    <2>4. /\ IsOn("xts", g) /\ g.table = s.table
          /\ g.out \in Seq(Byte) /\ Len(g.out) = q * BS
          /\ g.iv = Before("xts", s.iv, in, q)
          /\ \A k \in Nat : k < q => Blk(g.out, k) = Blk(m, k)
      <3>1. /\ "xts" \in Chained /\ IsLoop(DecTurn("xts"), s, in, q, f)
            /\ q * BS <= Len(in) /\ q * BS <= Len(m)
        BY <1>1, <1>2, <2>1 DEF Chained, DecTurn
      <3>. QED BY <1>1, <2>2, <2>3, <3>1, DecLoop
    <2>5. Whole(in) = q
      BY <1>2, <1>5 DEF Whole
    <2>6. ~ (Len(in) < BS)
      <3>1. 0 * BS + BS <= q * BS
        BY <1>5, Multiples
      <3>. QED BY <1>2, <3>1, BlockSize
    <2>7. XtsDecrypt(s, in) = g
      BY <1>2, <1>5, <2>1, <2>2, <2>5, <2>6, Zenon DEF XtsDecrypt
    <2>8. g.out = m
      <3>1. PICK o : o = g.out
        OBVIOUS
      <3>2. o \in Seq(Byte) /\ Len(o) = Len(m) /\ Len(o) \div BS = q /\ Len(o) % BS = 0
        BY <1>1, <1>2, <1>5, <2>4, <3>1
      <3>3. \A k \in Nat : k < q => Blk(o, k) = Blk(m, k)
        BY <2>4, <3>1
      <3>. QED BY <1>1, <3>1, <3>2, <3>3, SameBlocks
    <2>. QED BY <1>2, <2>4, <2>7, <2>8 DEF Opens
  <1>6. CASE r # 0
    <2>1. XtsTail(s.table, s.iv, m, in, q, r)
      BY <1>1, <1>2, <1>6 DEF IsCipher, IsTail
    <2>2. PICK cc : /\ BlockEnc("xts", s.table, s.iv + (q - 1), Blk(m, q - 1), cc)
                    /\ BlockEnc("xts", s.table, s.iv + q, Stolen(m, q, r, cc), Blk(in, q - 1))
                    /\ \A i \in 1..r : in[q * BS + i] = cc[i]
      BY <2>1 DEF XtsTail
    <2>3. PICK p \in Nat : q = p + 1 /\ p = q - 1
      <3>1. q >= 1
        BY <2>1 DEF XtsTail
      <3>. QED BY <3>1
    <2>4. p * BS \in Nat /\ q * BS = p * BS + BS /\ p * BS + BS <= Len(in)
      <3>1. p * BS \in Nat /\ (p + 1) * BS = p * BS + BS
        BY Multiples
      <3>. QED BY <1>2, <2>3, <3>1, BlockSize
    <2>5. IsStream("xts", s.table, s.iv, m, in, p)
      BY <1>1, <1>2, <1>6, <2>3 DEF IsCipher, Full
    <2>6. PICK f : /\ IsLoop("xts-dec", s, in, p, f)
                   /\ Loop(s, in, p, BS, XtsDecNext) = f[p]
      BY XtsDecrypts, Zenon
    <2>7. PICK g : g = f[p]
      OBVIOUS
    <2>8. /\ IsOn("xts", g) /\ g.table = s.table
          /\ g.out \in Seq(Byte) /\ Len(g.out) = p * BS
          /\ g.iv = Before("xts", s.iv, in, p)
          /\ \A k \in Nat : k < p => Blk(g.out, k) = Blk(m, k)
      <3>1. /\ "xts" \in Chained /\ IsLoop(DecTurn("xts"), s, in, p, f)
            /\ p * BS <= Len(in) /\ p * BS <= Len(m)
        BY <1>1, <2>4, <2>6, BlockSize DEF Chained, DecTurn
      <3>. QED BY <1>1, <2>5, <2>7, <3>1, DecLoop
    <2>9. IsState(g) /\ g.iv = s.iv + p /\ g.iv \in Nat /\ g.iv + 1 \in Nat
      BY <1>3, <2>8 DEF IsOn, Before
    <2>10. s.iv + (q - 1) = g.iv /\ s.iv + q = g.iv + 1
      BY <1>3, <2>3, <2>9
    <2>11. PICK a \in Block : a = Blk(m, p)
      BY <1>1, <2>4, BlkIs
    <2>12. PICK b \in Block : b = Blk(in, p) /\ b = Piece(in, p * BS, BS)
      BY <1>1, <2>4, BlkIs
    <2>13. BlockEnc("xts", s.table, g.iv, a, cc)
      BY <2>2, <2>3, <2>10, <2>11
    <2>14. cc \in Block
      <3>1. "xts" \in Chained /\ IsIv("xts", g.iv)
        BY <2>9 DEF Chained, IsIv
      <3>. QED BY <1>3, <2>13, <3>1, BlockEncIs
    <2>15. r <= BS /\ q * BS + r <= Len(in) /\ q * BS + r <= Len(m)
      BY <1>1, <1>2, BlockSize
    <2>16. PICK x : x = Stolen(m, q, r, cc)
      OBVIOUS
    <2>17. x \in Block
      BY <1>1, <2>14, <2>15, <2>16, StolenIs
    <2>18. BlockEnc("xts", s.table, g.iv + 1, x, b)
      BY <2>2, <2>3, <2>10, <2>12, <2>16
    <2>19. PICK pp : pp = XtsDecBlock(g, g.iv + 1, b)
      OBVIOUS
    <2>20. pp = [table |-> s.table, res |-> x, out |-> g.out, iv |-> g.iv]
      <3>1. XtsDecBlock(g, g.iv + 1, b) = [table |-> g.table, res |-> x, out |-> g.out, iv |-> g.iv]
        BY <1>3, <2>8, <2>9, <2>17, <2>18, XtsDecBlockIs
      <3>. QED BY <2>8, <2>19, <3>1
    <2>21. pp.table = s.table /\ pp.res = x /\ pp.out = g.out /\ pp.iv = g.iv /\ IsState(pp)
      BY <2>20 DEF IsState
    <2>22. Piece(in, q * BS, r) \o Piece(x, r, BS - r) = cc
      <3>1. /\ Stolen(in, q, r, x) \in Block
            /\ Piece(in, q * BS, r) \o Piece(x, r, BS - r) = Stolen(in, q, r, x)
        BY <1>1, <2>15, <2>17, StolenIs
      <3>2. ASSUME NEW i \in 1..BS PROVE Stolen(in, q, r, x)[i] = cc[i]
        <4>1. Stolen(in, q, r, x)[i] = IF i <= r THEN in[q * BS + i] ELSE x[i]
          BY DEF Stolen
        <4>2. x[i] = IF i <= r THEN m[q * BS + i] ELSE cc[i]
          BY <2>16 DEF Stolen
        <4>3. i <= r => i \in 1..r
          BY <1>2, BlockSize
        <4>. QED BY <2>2, <4>1, <4>2, <4>3
      <3>3. PICK w : w = Stolen(in, q, r, x)
        OBVIOUS
      <3>4. w = cc
        BY <2>14, <3>1, <3>2, <3>3, SameBytes, BlockSize DEF Block
      <3>. QED BY <3>1, <3>3, <3>4
    <2>23. PICK e : e = XtsDecBlock(pp, g.iv, cc)
      OBVIOUS
    <2>24. e = [table |-> s.table, res |-> a, out |-> g.out, iv |-> g.iv]
      <3>1. XtsDecBlock(pp, g.iv, cc) = [table |-> pp.table, res |-> a, out |-> pp.out, iv |-> pp.iv]
        BY <1>3, <2>9, <2>11, <2>13, <2>14, <2>21, XtsDecBlockIs
      <3>. QED BY <2>21, <2>23, <3>1
    <2>25. PICK t : t = Piece(x, 0, r)
      OBVIOUS
    <2>26. t \in Bytes(r) /\ \A i \in 1..r : t[i] = m[q * BS + i]
      <3>1. x \in Seq(Byte) /\ Len(x) = BS /\ 0 + r <= BS
        <4>1. x \in Bytes(BS) /\ BS \in Nat
          BY <2>17, BlockSize DEF Block
        <4>. QED BY <1>2, <4>1, BytesAreSeq
      <3>2. t \in Bytes(r) /\ \A i \in 1..r : t[i] = x[0 + i]
        BY <2>25, <3>1, PieceIs
      <3>3. ASSUME NEW i \in 1..r PROVE t[i] = m[q * BS + i]
        <4>1. i \in 1..BS /\ i <= r
          BY <1>2, BlockSize
        <4>2. x[i] = m[q * BS + i]
          BY <2>16, <4>1 DEF Stolen
        <4>. QED BY <3>2, <4>2
      <3>. QED BY <3>2, <3>3
    <2>27. PICK d : d = XtsDecrypt(s, in)
      OBVIOUS
    <2>28. d = [e EXCEPT !.out = @ \o e.res \o t]
      <3>1. Whole(in) = p /\ p + 1 = q /\ Len(in) % BS = r
        BY <1>2, <1>6, <2>3 DEF Whole
      <3>2. ~ (Len(in) < BS)
        BY <1>2, <2>4, BlockSize
      <3>3. pp.res = x
        BY <2>21
      <3>. QED BY <1>6, <2>6, <2>7, <2>12, <2>19, <2>22, <2>23, <2>25, <2>27, <3>1, <3>2, <3>3, Zenon
           DEF XtsDecrypt
    <2>29. d = [table |-> s.table, res |-> a, out |-> g.out \o a \o t, iv |-> g.iv]
      BY <2>24, <2>28
    <2>30. d.table = s.table /\ d.out = g.out \o a \o t /\ d.iv = g.iv /\ IsState(d)
      BY <2>29 DEF IsState
    <2>31. d.out = m
      <3>1. PICK o : o = g.out
        OBVIOUS
      <3>2. o \in Seq(Byte) /\ Len(o) = p * BS
        BY <2>8, <3>1
      <3>3. PICK u : u = o \o a \o t
        OBVIOUS
      <3>4. Appended(u, o, p, a, r, t)
        BY <2>26, <3>2, <3>3, BlockJoins
      <3>5. /\ u \in Seq(Byte) /\ Len(u) = q * BS + r
            /\ \A k \in Nat : k < p => Blk(u, k) = Blk(o, k)
            /\ Blk(u, p) = a
            /\ \A i \in 1..r : u[q * BS + i] = t[i]
        BY <2>3, <3>4 DEF Appended
      <3>6. \A k \in Nat : k < q => Blk(u, k) = Blk(m, k)
        <4>1. \A k \in Nat : k < q => k < p \/ k = p
          BY <2>3
        <4>. QED BY <2>8, <2>11, <3>1, <3>5, <4>1
      <3>7. \A i \in Nat : 1 <= i /\ i <= r => u[q * BS + i] = m[q * BS + i]
        BY <2>26, <3>5
      <3>8. Len(u) = Len(m) /\ Len(u) \div BS = q /\ Len(u) % BS = r
        BY <1>1, <1>2, <3>5
      <3>9. u = m
        BY <1>1, <3>5, <3>6, <3>7, <3>8, SameBlocks
      <3>. QED BY <2>30, <3>1, <3>3, <3>9
    <2>32. IsOn("xts", d)
      BY <1>3, <2>9, <2>30 DEF IsOn, IsIv
    <2>. QED BY <1>2, <1>6, <2>27, <2>30, <2>31, <2>32 DEF Opens
  <1>. QED BY <1>4, <1>5, <1>6

-----------------------------------------------------------------------------
(* Ciphertexts: there is one of a message, whatever its pieces are.        *)

LEMMA CipherStays ==
  ASSUME NEW mode, NEW T, NEW U, IsTable(T), IsTable(U), Extends(T, U),
         NEW iv, NEW m, NEW c, IsCipher(mode, T, iv, m, c)
  PROVE  IsCipher(mode, U, iv, m, c)
  <1>1. IsStream(mode, U, iv, m, c, Full(mode, Len(m)))
    BY StreamStays DEF IsCipher
  <1>2. \A x, y : Enciphers(T, x, y) => Enciphers(U, x, y)
    BY EnciphersStays
  <1>3. \A p, x, y : BlockEnc("xts", T, p, x, y) => BlockEnc("xts", U, p, x, y)
    BY BlockEncStays
  <1>4. PICK q, r : q = Len(m) \div BS /\ r = Len(m) % BS
    OBVIOUS
  <1>5. CtrTail(T, iv, m, c, q, r) => CtrTail(U, iv, m, c, q, r)
    BY <1>2, Zenon DEF CtrTail
  <1>6. XtsTail(T, iv, m, c, q, r) => XtsTail(U, iv, m, c, q, r)
    BY <1>3, Zenon DEF XtsTail
  <1>7. IsTail(mode, T, iv, m, c, q, r)
    BY <1>4 DEF IsCipher
  <1>8. IsTail(mode, U, iv, m, c, q, r)
    BY <1>5, <1>6, <1>7, Zenon DEF IsTail
  <1>. QED BY <1>1, <1>4, <1>8 DEF IsCipher

\* The whole blocks of a stream are the only ones.
LEMMA StreamOnce ==
  ASSUME NEW mode, NEW T, IsTable(T), NEW iv, NEW m, NEW c, NEW d, NEW n \in Nat,
         IsStream(mode, T, iv, m, c, n), IsStream(mode, T, iv, m, d, n)
  PROVE  \A k \in Nat : k < n => Blk(c, k) = Blk(d, k)
  <1>. DEFINE S == {i \in Nat : i <= n => \A k \in Nat : k < i => Blk(c, k) = Blk(d, k)}
  <1>1. 0 \in S
    OBVIOUS
  <1>2. ASSUME NEW i \in Nat, i \in S PROVE i + 1 \in S
    <2>. SUFFICES ASSUME i + 1 <= n PROVE \A k \in Nat : k < i + 1 => Blk(c, k) = Blk(d, k)
      OBVIOUS
    <2>1. i < n /\ \A k \in Nat : k < i => Blk(c, k) = Blk(d, k)
      BY <1>2
    <2>2. Before(mode, iv, c, i) = Before(mode, iv, d, i)
      BY <2>1, BeforeSame
    <2>3. /\ BlockEnc(mode, T, Before(mode, iv, c, i), Blk(m, i), Blk(c, i))
          /\ BlockEnc(mode, T, Before(mode, iv, d, i), Blk(m, i), Blk(d, i))
      BY <2>1 DEF IsStream
    <2>4. Blk(c, i) = Blk(d, i)
      BY <2>2, <2>3, BlockEncOnce
    <2>5. \A k \in Nat : k < i + 1 => k < i \/ k = i
      OBVIOUS
    <2>. QED BY <2>1, <2>4, <2>5
  <1>. HIDE DEF S
  <1>3. n \in S
    BY <1>1, <1>2, SetInduction
  <1>. QED BY <1>3 DEF S

\* A message has one ciphertext.
LEMMA CipherOnce ==
  ASSUME NEW mode, NEW T, IsTable(T), NEW iv, NEW m, NEW c, NEW d,
         IsCipher(mode, T, iv, m, c), IsCipher(mode, T, iv, m, d)
  PROVE  c = d
  <1>1. /\ m \in Seq(Byte) /\ c \in Seq(Byte) /\ d \in Seq(Byte)
        /\ Len(c) = Len(m) /\ Len(d) = Len(m)
    BY DEF IsCipher
  <1>2. PICK q \in Nat, r \in Nat :
          /\ q = Len(m) \div BS /\ r = Len(m) % BS /\ Len(m) = q * BS + r
          /\ r < BS /\ q * BS \in Nat
    BY <1>1, LengthParts
  <1>3. PICK n : n = Full(mode, Len(m))
    OBVIOUS
  <1>4. IsStream(mode, T, iv, m, c, n) /\ IsStream(mode, T, iv, m, d, n)
    BY <1>3 DEF IsCipher
  <1>5. IsTail(mode, T, iv, m, c, q, r) /\ IsTail(mode, T, iv, m, d, q, r)
    BY <1>2 DEF IsCipher
  <1>6. CASE r # 0 /\ mode = "xts"
    <2>1. XtsTail(T, iv, m, c, q, r) /\ XtsTail(T, iv, m, d, q, r)
      BY <1>5, <1>6 DEF IsTail
    <2>2. PICK x : /\ BlockEnc("xts", T, iv + (q - 1), Blk(m, q - 1), x)
                   /\ BlockEnc("xts", T, iv + q, Stolen(m, q, r, x), Blk(c, q - 1))
                   /\ \A i \in 1..r : c[q * BS + i] = x[i]
      BY <2>1 DEF XtsTail
    <2>3. PICK y : /\ BlockEnc("xts", T, iv + (q - 1), Blk(m, q - 1), y)
                   /\ BlockEnc("xts", T, iv + q, Stolen(m, q, r, y), Blk(d, q - 1))
                   /\ \A i \in 1..r : d[q * BS + i] = y[i]
      BY <2>1 DEF XtsTail
    <2>4. x = y
      BY <2>2, <2>3, BlockEncOnce
    <2>5. Blk(c, q - 1) = Blk(d, q - 1)
      BY <2>2, <2>3, <2>4, BlockEncOnce
    <2>6. n = q - 1 /\ n \in Nat
      BY <1>2, <1>3, <1>6, <2>1 DEF Full, XtsTail
    <2>7. \A k \in Nat : k < n => Blk(c, k) = Blk(d, k)
      BY <1>4, <2>6, StreamOnce
    <2>8. \A k \in Nat : k < q => Blk(c, k) = Blk(d, k)
      <3>1. \A k \in Nat : k < q => k < n \/ k = q - 1
        BY <2>6
      <3>. QED BY <2>5, <2>7, <3>1
    <2>9. \A i \in Nat : 1 <= i /\ i <= r => c[q * BS + i] = d[q * BS + i]
      BY <2>2, <2>3, <2>4
    <2>. QED BY ZenonT(60), <1>1, <1>2, <2>8, <2>9, SameBlocks
  <1>7. CASE ~ (r # 0 /\ mode = "xts")
    <2>1. n = q
      BY <1>2, <1>3, <1>7 DEF Full
    <2>2. \A k \in Nat : k < q => Blk(c, k) = Blk(d, k)
      BY <1>4, <2>1, StreamOnce
    <2>3. ASSUME r # 0
          PROVE  \A i \in Nat : 1 <= i /\ i <= r => c[q * BS + i] = d[q * BS + i]
      <3>1. CtrTail(T, iv, m, c, q, r) /\ CtrTail(T, iv, m, d, q, r)
        BY <1>5, <1>7, <2>3 DEF IsTail
      <3>2. PICK x : /\ Enciphers(T, Named(<<"ctr", iv + q>>, BS), x)
                     /\ \A i \in 1..r : c[q * BS + i] = SymDiff(m[q * BS + i], x[i])
        BY <3>1 DEF CtrTail
      <3>3. PICK y : /\ Enciphers(T, Named(<<"ctr", iv + q>>, BS), y)
                     /\ \A i \in 1..r : d[q * BS + i] = SymDiff(m[q * BS + i], y[i])
        BY <3>1 DEF CtrTail
      <3>4. x = y
        BY <3>2, <3>3, EnciphersOnce
      <3>. QED BY <3>2, <3>3, <3>4
    <2>4. \A i \in Nat : 1 <= i /\ i <= r => c[q * BS + i] = d[q * BS + i]
      BY <2>3
    <2>. QED BY ZenonT(60), <1>1, <1>2, <2>2, <2>4, SameBlocks
  <1>. QED BY <1>6, <1>7

\* n blocks of c, from block a on, are those of d.
Agree(c, a, d, n) == \A k \in Nat : k < n => Blk(c, a + k) = Blk(d, k)

\* What comes before a block of the second part of a stream.
LEMMA BeforeJoin ==
  ASSUME NEW mode, NEW iv, mode # "cbc" => iv \in Nat, NEW c, NEW a \in Nat, NEW j \in Nat,
         NEW c1, NEW c2, Agree(c, 0, c1, a), Agree(c, a, c2, j)
  PROVE  Before(mode, iv, c, a + j) = Before(mode, Before(mode, iv, c1, a), c2, j)
  <1>. /\ \A k \in Nat : k < a => Blk(c, k) = Blk(c1, k)
       /\ \A k \in Nat : k < j => Blk(c, a + k) = Blk(c2, k)
    <2>1. \A k \in Nat : 0 + k = k
      OBVIOUS
    <2>. QED BY <2>1 DEF Agree
  <1>1. CASE mode = "cbc" /\ j = 0
    <2>1. a # 0 => a - 1 \in Nat /\ a - 1 < a
      OBVIOUS
    <2>2. a + j = a
      BY <1>1
    <2>. QED BY <1>1, <2>1, <2>2 DEF Before
  <1>2. CASE mode = "cbc" /\ j # 0
    <2>1. PICK i \in Nat : j = i + 1 /\ i = j - 1
      <3>1. j - 1 \in Nat /\ j = (j - 1) + 1
        BY <1>2
      <3>. QED BY <3>1
    <2>2. a + j # 0 /\ (a + j) - 1 = a + i /\ i < j
      BY <2>1
    <2>. QED BY <1>2, <2>1, <2>2 DEF Before
  <1>3. CASE mode # "cbc"
    BY <1>3 DEF Before
  <1>. QED BY <1>1, <1>2, <1>3

\* The ciphertext of two messages, the first one of whole blocks.
LEMMA CipherJoins ==
  ASSUME NEW mode, NEW T, NEW iv, mode # "cbc" => iv \in Nat,
         NEW m1, NEW c1, IsCipher(mode, T, iv, m1, c1),
         NEW a \in Nat, Len(m1) = a * BS,
         NEW m2, NEW c2, IsCipher(mode, T, Before(mode, iv, c1, a), m2, c2)
  PROVE  /\ IsCipher(mode, T, iv, m1 \o m2, c1 \o c2)
         /\ Len(m2) % BS = 0 =>
              Before(mode, iv, c1 \o c2, Len(m1 \o m2) \div BS)
                = Before(mode, Before(mode, iv, c1, a), c2, Len(m2) \div BS)
  <1>1. /\ m1 \in Seq(Byte) /\ c1 \in Seq(Byte) /\ Len(c1) = Len(m1)
        /\ m2 \in Seq(Byte) /\ c2 \in Seq(Byte) /\ Len(c2) = Len(m2)
    BY DEF IsCipher
  <1>2. PICK q \in Nat, r \in Nat :
          /\ q = Len(m2) \div BS /\ r = Len(m2) % BS /\ Len(m2) = q * BS + r
          /\ r < BS /\ q * BS \in Nat
    BY <1>1, LengthParts
  <1>3. PICK m, c : m = m1 \o m2 /\ c = c1 \o c2
    OBVIOUS
  <1>4. PICK w : w = Before(mode, iv, c1, a)
    OBVIOUS
  <1>5. a * BS \in Nat /\ (a + q) * BS = a * BS + q * BS
    BY Multiples
  <1>6. /\ m \in Seq(Byte) /\ Len(m) = a * BS + Len(m2)
        /\ \A i \in 1..Len(m2) : m[a * BS + i] = m2[i]
    <2>1. /\ m \in Seq(Byte) /\ Len(m) = Len(m1) + Len(m2)
          /\ \A i \in 1..Len(m2) : m[Len(m1) + i] = m2[i]
      BY <1>1, <1>3, CatIs
    <2>. QED BY <2>1
  <1>7. /\ c \in Seq(Byte) /\ Len(c) = a * BS + Len(m2)
        /\ \A i \in 1..Len(m2) : c[a * BS + i] = c2[i]
    <2>1. /\ c \in Seq(Byte) /\ Len(c) = Len(c1) + Len(c2)
          /\ \A i \in 1..Len(c2) : c[Len(c1) + i] = c2[i]
      BY <1>1, <1>3, CatIs
    <2>. QED BY <1>1, <2>1
  <1>8. BlocksJoin(m, m1, m2, a) /\ BlocksJoin(c, c1, c2, a)
    BY <1>1, <1>3, BlkCat
  <1>9. /\ \A k \in Nat : k < a => Blk(m, k) = Blk(m1, k) /\ Blk(c, k) = Blk(c1, k)
        /\ \A k \in Nat : k < q => Blk(m, a + k) = Blk(m2, k) /\ Blk(c, a + k) = Blk(c2, k)
    <2>1. ASSUME NEW k \in Nat, k < q
          PROVE  Blk(m, a + k) = Blk(m2, k) /\ Blk(c, a + k) = Blk(c2, k)
      <3>1. k * BS + BS <= q * BS /\ k * BS \in Nat
        BY <2>1, Multiples
      <3>2. k * BS + BS <= Len(m2)
        BY <1>2, <3>1, BlockSize
      <3>. QED BY <1>1, <1>8, <3>2 DEF BlocksJoin
    <2>. QED BY <1>8, <2>1 DEF BlocksJoin
  <1>10. Len(m) \div BS = a + q /\ Len(m) % BS = r
    <2>1. Len(m) = (a + q) * BS + r /\ Len(m) \in Nat
      <3>1. PICK x \in Nat, y \in Nat : x = a * BS /\ y = q * BS
        BY <1>2, <1>5
      <3>2. Len(m) = x + (y + r) /\ (a + q) * BS = x + y
        BY <1>2, <1>5, <1>6, <3>1
      <3>. QED BY <1>6, <3>2
    <2>2. PICK l \in Nat, b \in Nat : l = Len(m) /\ b = a + q
      BY <2>1
    <2>3. l = b * BS + r /\ r < BS
      BY <1>2, <2>1, <2>2
    <2>4. l \div BS = b /\ l % BS = r
      BY <2>3, PartsAre
    <2>. QED BY <2>2, <2>4
  <1>11. ASSUME NEW j \in Nat, j <= q
         PROVE  Before(mode, iv, c, a + j) = Before(mode, w, c2, j)
    <2>1. Agree(c, a, c2, j)
      BY <1>9, <1>11 DEF Agree
    <2>2. Agree(c, 0, c1, a)
      <3>1. \A k \in Nat : 0 + k = k
        OBVIOUS
      <3>. QED BY <1>9, <3>1 DEF Agree
    <2>3. mode # "cbc" => iv \in Nat
      OBVIOUS
    <2>4. Before(mode, iv, c, a + j) = Before(mode, Before(mode, iv, c1, a), c2, j)
      BY ONLY a \in Nat, j \in Nat, <2>1, <2>2, <2>3, BeforeJoin
    <2>. QED BY <1>4, <2>4
  <1>12. Full(mode, Len(m1)) = a
    <2>1. Len(m1) \in Nat /\ Len(m1) = a * BS + 0
      BY <1>1, <1>5
    <2>2. Len(m1) \div BS = a /\ Len(m1) % BS = 0
      BY <2>1, PartsAre, BlockSize
    <2>. QED BY <2>2 DEF Full
  <1>13. IsTail(mode, T, w, m2, c2, q, r)
    BY <1>2, <1>4 DEF IsCipher
  <1>14. IsStream(mode, T, iv, m, c, Full(mode, Len(m)))
    <2>. SUFFICES ASSUME NEW k \in Nat, k < Full(mode, Len(m))
                  PROVE  BlockEnc(mode, T, Before(mode, iv, c, k), Blk(m, k), Blk(c, k))
      BY DEF IsStream
    <2>1. CASE k < a
      <3>1. BlockEnc(mode, T, Before(mode, iv, c1, k), Blk(m1, k), Blk(c1, k))
        BY <1>12, <2>1 DEF IsCipher, IsStream
      <3>2. Before(mode, iv, c, k) = Before(mode, iv, c1, k)
        <4>1. \A j \in Nat : j < k => Blk(c, j) = Blk(c1, j)
          BY <1>9, <2>1
        <4>. QED BY <4>1, BeforeSame
      <3>. QED BY <1>9, <2>1, <3>1, <3>2
    <2>2. CASE ~ (k < a)
      <3>1. PICK j \in Nat : k = a + j
        <4>1. k - a \in Nat /\ k = a + (k - a)
          BY <2>2
        <4>. QED BY <4>1
      <3>2. j < Full(mode, Len(m2)) /\ j < q
        BY SMTT(40), <1>2, <1>10, <3>1 DEF Full
      <3>3. BlockEnc(mode, T, Before(mode, w, c2, j), Blk(m2, j), Blk(c2, j))
        BY <1>4, <3>2 DEF IsCipher, IsStream
      <3>. QED BY <1>9, <1>11, <3>1, <3>2, <3>3
    <2>. QED BY <2>1, <2>2
  <1>15. IsTail(mode, T, iv, m, c, a + q, r)
    <2>. SUFFICES ASSUME r # 0
                  PROVE  \/ mode = "ctr" /\ CtrTail(T, iv, m, c, a + q, r)
                         \/ mode = "xts" /\ XtsTail(T, iv, m, c, a + q, r)
      BY DEF IsTail
    <2>1. ASSUME NEW i \in 1..r
          PROVE  /\ m[(a + q) * BS + i] = m2[q * BS + i]
                 /\ c[(a + q) * BS + i] = c2[q * BS + i]
      <3>1. PICK l \in 1..Len(m2) : l = q * BS + i
        <4>1. q * BS + i \in 1..Len(m2)
          BY <1>2
        <4>. QED BY <4>1
      <3>2. (a + q) * BS + i = a * BS + l
        <4>1. PICK x \in Nat, y \in Nat : x = a * BS /\ y = q * BS
          BY <1>2, <1>5
        <4>2. (a + q) * BS = x + y /\ i \in Nat
          BY <1>5, <4>1
        <4>. QED BY <3>1, <4>1, <4>2
      <3>. QED BY <1>6, <1>7, <3>1, <3>2
    <2>2. CASE mode = "ctr"
      <3>1. CtrTail(T, w, m2, c2, q, r)
        BY <1>13, <2>2 DEF IsTail
      <3>2. w + q = iv + (a + q)
        BY <1>4, <2>2 DEF Before
      <3>. QED BY <2>1, <2>2, <3>1, <3>2 DEF CtrTail
    <2>3. CASE mode = "xts"
      <3>1. XtsTail(T, w, m2, c2, q, r)
        BY <1>13, <2>3 DEF IsTail
      <3>2. w + q = iv + (a + q)
        BY <1>4, <2>3 DEF Before
      <3>3. PICK j \in Nat : j = q - 1 /\ j < q
        BY <3>1 DEF XtsTail
      <3>4. (a + q) - 1 = a + j /\ a + q >= 1 /\ w + j = iv + (a + j)
        BY <1>4, <2>3, <3>3 DEF Before
      <3>5. Blk(m, a + j) = Blk(m2, j) /\ Blk(c, a + j) = Blk(c2, j)
        BY <1>9, <3>3
      <3>6. PICK x : /\ BlockEnc("xts", T, w + j, Blk(m2, j), x)
                     /\ BlockEnc("xts", T, w + q, Stolen(m2, q, r, x), Blk(c2, j))
                     /\ \A i \in 1..r : c2[q * BS + i] = x[i]
        BY <3>1, <3>3 DEF XtsTail
      <3>7. Stolen(m, a + q, r, x) = Stolen(m2, q, r, x)
        <4>1. \A i \in 1..BS : i <= r => i \in 1..r
          BY BlockSize
        <4>. QED BY <2>1, <4>1 DEF Stolen
      <3>8. \A i \in 1..r : c[(a + q) * BS + i] = x[i]
        BY <2>1, <3>6
      <3>. QED BY <2>3, <3>2, <3>4, <3>5, <3>6, <3>7, <3>8 DEF XtsTail
    <2>4. mode = "ctr" \/ mode = "xts"
      BY <1>13 DEF IsTail
    <2>. QED BY <2>2, <2>3, <2>4
  <1>16. IsCipher(mode, T, iv, m, c)
    BY <1>1, <1>6, <1>7, <1>10, <1>14, <1>15 DEF IsCipher
  <1>17. Before(mode, iv, c, a + q) = Before(mode, w, c2, q)
    BY <1>11
  <1>. QED BY <1>2, <1>3, <1>4, <1>10, <1>16, <1>17

\* The blocks of a piece.
LEMMA PieceBlocks ==
  ASSUME NEW m \in Seq(Byte), NEW a \in Nat, NEW n \in Nat, a * BS + n <= Len(m),
         NEW p, p = Piece(m, a * BS, n), NEW q \in Nat, q * BS <= n
  PROVE  /\ p \in Seq(Byte) /\ Len(p) = n
         /\ \A i \in 1..n : p[i] = m[a * BS + i]
         /\ Agree(m, a, p, q)
  <1>1. PICK x \in Nat : x = a * BS
    BY Multiples
  <1>2. p \in Bytes(n) /\ \A i \in 1..n : p[i] = m[x + i]
    BY <1>1, PieceIs
  <1>3. p \in Seq(Byte) /\ Len(p) = n
    BY <1>2, BytesAreSeq
  <1>4. ASSUME NEW k \in Nat, k < q PROVE Blk(m, a + k) = Blk(p, k)
    <2>1. PICK y \in Nat : y = k * BS
      BY Multiples
    <2>2. (a + k) * BS = x + y
      BY <1>1, <2>1, Multiples
    <2>3. y + BS <= n
      <3>1. k * BS + BS <= q * BS /\ q * BS \in Nat
        BY <1>4, Multiples
      <3>. QED BY <2>1, <3>1, BlockSize
    <2>4. ASSUME NEW i \in 1..BS PROVE m[(a + k) * BS + i] = p[k * BS + i]
      <3>1. PICK j \in 1..n : j = y + i
        <4>1. y + i \in 1..n
          BY <2>3, BlockSize
        <4>. QED BY <4>1
      <3>2. (a + k) * BS + i = x + j
        BY <2>2, <3>1, BlockSize
      <3>. QED BY <1>2, <2>1, <3>1, <3>2
    <2>. QED BY <2>4 DEF Blk
  <1>. QED BY <1>1, <1>2, <1>3, <1>4 DEF Agree

\* Does a mode take n bytes in one call, and leave what it must?
Fits(mode, n) ==
  /\ mode = "cbc" => n % BS = 0
  /\ mode = "xts" => n = 0 \/ n >= BS

Leaves(mode, n, left) == mode = "xts" /\ left # 0 => n % BS = 0 /\ left >= BS

\* A piece of a ciphertext is that of the piece of the message.
LEMMA CipherSplits ==
  ASSUME NEW mode \in Chained, NEW T, IsTable(T), NEW iv, mode # "cbc" => iv \in Nat,
         NEW m, NEW c, IsCipher(mode, T, iv, m, c),
         NEW a \in Nat, NEW n \in Nat, NEW left \in Nat, a * BS + n + left = Len(c),
         Fits(mode, n), Leaves(mode, n, left)
  PROVE  /\ IsCipher(mode, T, Before(mode, iv, c, a), Piece(m, a * BS, n), Piece(c, a * BS, n))
         /\ n % BS = 0 => Before(mode, Before(mode, iv, c, a), Piece(c, a * BS, n), n \div BS)
                            = Before(mode, iv, c, a + n \div BS)
  <1>1. m \in Seq(Byte) /\ c \in Seq(Byte) /\ Len(c) = Len(m)
    BY DEF IsCipher
  <1>2. PICK Q \in Nat, R \in Nat :
          /\ Q = Len(m) \div BS /\ R = Len(m) % BS /\ Len(m) = Q * BS + R
          /\ R < BS /\ Q * BS \in Nat
    BY <1>1, LengthParts
  <1>3. PICK q \in Nat, r \in Nat :
          q = n \div BS /\ r = n % BS /\ n = q * BS + r /\ r < BS /\ q * BS <= n
    BY Parts
  <1>4. PICK x, y : x = Piece(m, a * BS, n) /\ y = Piece(c, a * BS, n)
    OBVIOUS
  <1>5. PICK z \in Nat, u \in Nat : z = a * BS /\ u = q * BS
    BY Multiples
  <1>6. z + n + left = Len(c) /\ (a + q) * BS = z + u /\ n = u + r
    BY ZenonT(60), <1>3, <1>5, Multiples
  <1>7. /\ x \in Seq(Byte) /\ Len(x) = n /\ \A i \in 1..n : x[i] = m[z + i]
        /\ Agree(m, a, x, q)
    <2>1. a * BS + n <= Len(m) /\ m \in Seq(Byte) /\ q * BS <= n
      <3>1. z + n <= Len(m)
        BY <1>1, <1>6
      <3>. QED BY <1>1, <1>3, <1>5, <3>1, Zenon
    <2>2. /\ x \in Seq(Byte) /\ Len(x) = n
          /\ \A i \in 1..n : x[i] = m[a * BS + i]
          /\ Agree(m, a, x, q)
      BY ONLY a \in Nat, n \in Nat, q \in Nat, <1>4, <2>1, PieceBlocks
    <2>. QED BY <1>5, <2>2
  <1>8. /\ y \in Seq(Byte) /\ Len(y) = n /\ \A i \in 1..n : y[i] = c[z + i]
        /\ Agree(c, a, y, q)
    <2>1. a * BS + n <= Len(c) /\ c \in Seq(Byte) /\ q * BS <= n
      <3>1. z + n <= Len(c)
        BY <1>1, <1>6
      <3>. QED BY <1>1, <1>3, <1>5, <3>1, Zenon
    <2>2. /\ y \in Seq(Byte) /\ Len(y) = n
          /\ \A i \in 1..n : y[i] = c[a * BS + i]
          /\ Agree(c, a, y, q)
      BY ONLY a \in Nat, n \in Nat, q \in Nat, <1>4, <2>1, PieceBlocks
    <2>. QED BY <1>5, <2>2
  <1>9. PICK w : w = Before(mode, iv, c, a)
    OBVIOUS
  <1>10. ASSUME NEW j \in Nat, j <= q
         PROVE  Before(mode, iv, c, a + j) = Before(mode, w, y, j)
    <2>1. Agree(c, a, y, j) /\ Agree(c, 0, c, a)
      BY <1>8, <1>10 DEF Agree
    <2>2. mode # "cbc" => iv \in Nat
      OBVIOUS
    <2>3. Before(mode, iv, c, a + j) = Before(mode, Before(mode, iv, c, a), y, j)
      BY ONLY a \in Nat, j \in Nat, <2>1, <2>2, BeforeJoin
    <2>. QED BY <1>9, <2>3
  <1>11. a + q <= Q
    <2>1. CASE Q < a + q
      <3>1. PICK h \in Nat : h = a + q
        OBVIOUS
      <3>2. Q * BS + BS <= h * BS
        BY <2>1, <3>1, Multiples
      <3>. QED BY <1>1, <1>2, <1>5, <1>6, <3>1, <3>2, BlockSize
    <2>. QED BY <2>1
  <1>12. ASSUME left = 0 PROVE a + q = Q /\ r = R
    <2>1. PICK l \in Nat, h \in Nat : l = Len(m) /\ h = a + q
      BY <1>1
    <2>2. l = h * BS + r
      BY <1>1, <1>6, <1>12, <2>1
    <2>3. l \div BS = h /\ l % BS = r
      BY <1>3, <2>2, PartsAre
    <2>. QED BY <1>2, <2>1, <2>3
  <1>13. ASSUME NEW j \in Nat, j < Full(mode, n) PROVE a + j < Full(mode, Len(m)) /\ j < q
    <2>1. CASE mode # "xts"
      <3>1. Full(mode, n) = q /\ Full(mode, Len(m)) = Q
        BY <1>2, <1>3, <2>1 DEF Full
      <3>. QED BY <1>11, <1>13, <3>1
    <2>2. CASE mode = "xts" /\ left = 0
      <3>1. /\ Full(mode, n) = IF r # 0 THEN q - 1 ELSE q
            /\ Full(mode, Len(m)) = IF r # 0 THEN Q - 1 ELSE Q
        BY <1>2, <1>3, <1>12, <2>2 DEF Full
      <3>. QED BY <1>12, <1>13, <2>2, <3>1
    <2>3. CASE mode = "xts" /\ left # 0
      <3>1. r = 0 /\ left >= BS
        BY <1>3, <2>3 DEF Leaves
      <3>2. j < q
        BY <1>3, <1>13, <3>1 DEF Full
      <3>3. a + q + 1 <= Q
        <4>1. CASE Q < a + q + 1
          <5>1. PICK h \in Nat : h = a + q
            OBVIOUS
          <5>2. Q = h
            BY <1>11, <4>1, <5>1
          <5>3. Q * BS = z + u
            BY <1>6, <5>1, <5>2
          <5>. QED BY <1>1, <1>2, <1>6, <3>1, <5>3, BlockSize
        <4>. QED BY <4>1
      <3>4. Full(mode, Len(m)) >= Q - 1
        BY <1>2 DEF Full
      <3>5. Full(mode, Len(m)) \in Int
        BY <1>2 DEF Full
      <3>. QED BY <3>2, <3>3, <3>4, <3>5
    <2>. QED BY <2>1, <2>2, <2>3
  <1>14. IsStream(mode, T, w, x, y, Full(mode, Len(x)))
    <2>. SUFFICES ASSUME NEW j \in Nat, j < Full(mode, n)
                  PROVE  BlockEnc(mode, T, Before(mode, w, y, j), Blk(x, j), Blk(y, j))
      BY <1>7 DEF IsStream
    <2>1. a + j < Full(mode, Len(m)) /\ j < q /\ a + j \in Nat
      BY <1>13
    <2>2. BlockEnc(mode, T, Before(mode, iv, c, a + j), Blk(m, a + j), Blk(c, a + j))
      BY <2>1 DEF IsCipher, IsStream
    <2>3. Blk(m, a + j) = Blk(x, j) /\ Blk(c, a + j) = Blk(y, j)
      BY <1>7, <1>8, <2>1 DEF Agree
    <2>. QED BY <1>10, <2>1, <2>2, <2>3
  <1>15. ASSUME NEW i \in 1..r
         PROVE  /\ x[q * BS + i] = m[(a + q) * BS + i]
                /\ y[q * BS + i] = c[(a + q) * BS + i]
    <2>1. PICK l \in 1..n : l = u + i
      <3>1. u + i \in 1..n
        BY <1>6
      <3>. QED BY <3>1
    <2>2. z + l = (a + q) * BS + i
      BY <1>6, <2>1
    <2>. QED BY <1>5, <1>7, <1>8, <2>1, <2>2
  <1>16. ASSUME mode = "ctr", r # 0 PROVE CtrTail(T, w, x, y, q, r)
    <2>1. w + q = iv + (a + q)
      BY <1>9, <1>16 DEF Before
    <2>2. PICK h \in Nat : h = a + q
      OBVIOUS
    <2>3. PICK v : /\ Enciphers(T, Named(<<"ctr", iv + h>>, BS), v)
                   /\ \A i \in 1..r : c[h * BS + i] = SymDiff(m[h * BS + i], v[i])
      <3>1. CASE h < Q
        <4>1. h < Full(mode, Len(m))
          BY <1>2, <1>16, <3>1 DEF Full
        <4>2. BlockEnc("ctr", T, Before("ctr", iv, c, h), Blk(m, h), Blk(c, h))
          BY <1>16, <4>1 DEF IsCipher, IsStream
        <4>3. PICK v : /\ Enciphers(T, Named(<<"ctr", iv + h>>, BS), v)
                       /\ Blk(c, h) = XorBytes(Blk(m, h), v)
          BY <4>2 DEF BlockEnc, Before
        <4>4. v \in Block
          BY <4>3, EnciphersBlocks
        <4>5. Blk(m, h) \in Block
          <5>1. h * BS + BS <= Q * BS
            BY <3>1, Multiples
          <5>2. h * BS + BS <= Len(m)
            <6>1. PICK b \in Nat : b = h * BS
              BY Multiples
            <6>. QED BY <1>2, <5>1, <6>1, BlockSize
          <5>. QED BY <1>1, <5>2, BlkIs
        <4>6. \A i \in 1..BS : Blk(c, h)[i] = SymDiff(Blk(m, h)[i], v[i])
          <5>1. PICK b : b = Blk(m, h)
            OBVIOUS
          <5>2. \A i \in 1..BS : XorBytes(b, v)[i] = SymDiff(b[i], v[i])
            <6>1. BS \in Nat /\ BS <= BS /\ v \in Bytes(BS) /\ b \in Bytes(BS)
              BY <4>4, <4>5, <5>1, BlockSize DEF Block
            <6>. QED BY <6>1, XorPart
          <5>. QED BY <4>3, <5>1, <5>2
        <4>7. \A i \in 1..BS : Blk(c, h)[i] = c[h * BS + i] /\ Blk(m, h)[i] = m[h * BS + i]
          BY DEF Blk
        <4>8. \A i \in 1..r : i \in 1..BS
          BY <1>3, BlockSize
        <4>. QED BY <4>3, <4>6, <4>7, <4>8
      <3>2. CASE h = Q
        <4>1. r <= R
          <5>1. Q * BS = z + u
            BY <1>6, <2>2, <3>2
          <5>. QED BY SMTT(40), <1>1, <1>2, <1>6, <5>1
        <4>2. R # 0
          BY <1>16, <4>1
        <4>3. CtrTail(T, iv, m, c, h, R)
          BY <1>2, <1>16, <3>2, <4>2 DEF IsCipher, IsTail
        <4>4. \A i \in 1..r : i \in 1..R
          BY <4>1
        <4>. QED BY <4>3, <4>4 DEF CtrTail
      <3>. QED BY <1>11, <2>2, <3>1, <3>2
    <2>4. Enciphers(T, Named(<<"ctr", w + q>>, BS), v)
      BY <2>1, <2>2, <2>3
    <2>5. \A i \in 1..r : y[q * BS + i] = SymDiff(x[q * BS + i], v[i])
      BY <1>15, <2>2, <2>3
    <2>. QED BY <2>4, <2>5 DEF CtrTail
  <1>17. ASSUME mode = "xts", r # 0 PROVE XtsTail(T, w, x, y, q, r)
    <2>1. left = 0
      BY <1>3, <1>17 DEF Leaves
    <2>2. a + q = Q /\ r = R
      BY <1>12, <2>1
    <2>3. XtsTail(T, iv, m, c, a + q, r)
      BY <1>2, <1>17, <2>2 DEF IsCipher, IsTail
    <2>4. q >= 1
      <3>1. n >= BS
        <4>1. n # 0
          BY <1>5, <1>6, <1>17
        <4>. QED BY <1>17, <4>1 DEF Fits
      <3>2. q = 0 => q * BS = 0
        BY BlockSize
      <3>. QED BY <1>3, <3>1, <3>2, BlockSize
    <2>5. PICK j \in Nat : j = q - 1 /\ j < q
      BY <2>4
    <2>6. w + q = iv + (a + q) /\ (a + q) - 1 = a + j /\ w + j = iv + (a + j)
      BY <1>9, <1>17, <2>5 DEF Before
    <2>7. PICK v : /\ BlockEnc("xts", T, w + j, Blk(m, a + j), v)
                   /\ BlockEnc("xts", T, w + q, Stolen(m, a + q, r, v), Blk(c, a + j))
                   /\ \A i \in 1..r : c[(a + q) * BS + i] = v[i]
      BY <2>3, <2>6 DEF XtsTail
    <2>8. Blk(m, a + j) = Blk(x, j) /\ Blk(c, a + j) = Blk(y, j)
      BY <1>7, <1>8, <2>5 DEF Agree
    <2>9. Stolen(m, a + q, r, v) = Stolen(x, q, r, v)
      <3>1. \A i \in 1..BS : i <= r => i \in 1..r
        BY BlockSize
      <3>. QED BY <1>15, <3>1 DEF Stolen
    <2>10. \A i \in 1..r : y[q * BS + i] = v[i]
      BY <1>15, <2>7
    <2>. QED BY <2>4, <2>5, <2>7, <2>8, <2>9, <2>10 DEF XtsTail
  <1>18. IsTail(mode, T, w, x, y, q, r)
    <2>1. mode = "cbc" => r = 0
      BY <1>3 DEF Fits
    <2>. QED BY <1>16, <1>17, <2>1 DEF IsTail, Chained
  <1>19. IsCipher(mode, T, w, x, y)
    BY <1>3, <1>7, <1>8, <1>14, <1>18 DEF IsCipher
  <1>. QED BY <1>3, <1>4, <1>9, <1>10, <1>19

-----------------------------------------------------------------------------
(* Semiblocks.                                                             *)

LEMMA HalfSize == Half \in Nat /\ Half > 0 /\ BS = Half + Half
  BY BlockSize DEF Half

LEMMA HalfMultiples ==
  ASSUME NEW k \in Nat
  PROVE  /\ k * Half \in Nat /\ (k + 1) * Half = k * Half + Half
         /\ \A l \in Nat : k < l => k * Half + Half <= l * Half
  <1>1. k * Half \in Nat /\ (k + 1) * Half = k * Half + Half
    BY HalfSize
  <1>2. ASSUME NEW l \in Nat, k < l PROVE k * Half + Half <= l * Half
    <2>1. PICK j \in Nat : l = k + (1 + j)
      <3>1. l - k - 1 \in Nat /\ l = k + (1 + (l - k - 1))
        BY <1>2
      <3>. QED BY <3>1
    <2>2. l * Half = k * Half + (1 + j) * Half /\ (1 + j) * Half = Half + j * Half
          /\ j * Half \in Nat
      BY <2>1, HalfSize
    <2>. QED BY <1>1, <2>2, HalfSize
  <1>. QED BY <1>1, <1>2

\* A byte and its semiblock.
LEMMA SemiAt ==
  ASSUME NEW j \in Nat, NEW i \in 1..Half, NEW l, l = j * Half + i
  PROVE  /\ (l - 1) \div Half = j /\ l - j * Half = i
         /\ \A n \in Nat : j < n => l \in 1..(n * Half)
  <1>1. PICK x \in Nat : x = j * Half
    BY HalfMultiples
  <1>2. PICK k \in Nat : k = i - 1 /\ k < Half
    <2>1. i - 1 \in Nat /\ i - 1 < Half
      BY HalfSize
    <2>. QED BY <2>1
  <1>3. (x + k) \div Half = j
    BY <1>1, <1>2, HalfSize
  <1>4. x + i - 1 = x + k /\ x + i - x = i
    BY <1>2
  <1>5. ASSUME NEW n \in Nat, j < n PROVE x + i \in 1..(n * Half)
    <2>1. x + Half <= n * Half /\ n * Half \in Nat
      BY <1>1, <1>5, HalfMultiples
    <2>. QED BY <2>1, HalfSize
  <1>. QED BY <1>1, <1>3, <1>4, <1>5

LEMMA SemiOf ==
  ASSUME NEW n \in Nat, NEW l \in 1..(n * Half)
  PROVE  \E j \in Nat, i \in 1..Half :
           j < n /\ l = j * Half + i /\ (l - 1) \div Half = j /\ l - j * Half = i
  <1>1. n * Half \in Nat
    BY HalfMultiples
  <1>2. PICK h \in Nat : l = h + 1 /\ h = l - 1 /\ h < n * Half
    <2>1. l - 1 \in Nat /\ l = (l - 1) + 1 /\ l - 1 < n * Half
      BY <1>1
    <2>. QED BY <2>1
  <1>3. PICK j \in Nat, k \in Nat : j = h \div Half /\ h = j * Half + k /\ k < Half
    <2>1. /\ h \div Half \in Nat /\ h % Half \in Nat /\ h % Half < Half
          /\ h = (h \div Half) * Half + (h % Half)
      BY HalfSize
    <2>. QED BY <2>1
  <1>4. PICK x \in Nat : x = j * Half
    BY HalfMultiples
  <1>5. PICK i \in 1..Half : i = k + 1
    <2>1. k + 1 \in 1..Half
      BY <1>3, HalfSize
    <2>. QED BY <2>1
  <1>6. l = x + i /\ l - x = i
    BY <1>2, <1>3, <1>4, <1>5
  <1>7. j < n
    <2>1. CASE j = n
      BY <1>2, <1>3, <1>4, <2>1
    <2>2. CASE n < j
      <3>1. n * Half + Half <= x
        BY <1>4, <2>2, HalfMultiples
      <3>. QED BY <1>1, <1>2, <1>3, <1>4, <3>1, HalfSize
    <2>. QED BY <2>1, <2>2
  <1>. QED BY <1>2, <1>3, <1>4, <1>6, <1>7

Semi(m, j) == [i \in 1..Half |-> m[j * Half + i]]

LEMMA SemiIs ==
  ASSUME NEW n \in Nat, NEW m \in Bytes(n * Half), NEW j \in Nat, j < n
  PROVE  Semi(m, j) \in Bytes(Half) /\ Piece(m, j * Half, Half) = Semi(m, j)
  <1>1. PICK x \in Nat, y \in Nat : x = j * Half /\ y = n * Half /\ x + Half <= y
    BY HalfMultiples
  <1>2. m \in Seq(Byte) /\ Len(m) = y
    BY <1>1, BytesAreSeq
  <1>3. /\ Piece(m, x, Half) \in Bytes(Half)
        /\ \A i \in 1..Half : Piece(m, x, Half)[i] = m[x + i]
    BY <1>1, <1>2, PieceIs, HalfSize
  <1>4. PICK p : p = Piece(m, x, Half)
    OBVIOUS
  <1>5. p = [i \in 1..Half |-> p[i]]
    BY <1>3, <1>4 DEF Bytes
  <1>6. p = Semi(m, j)
    BY <1>1, <1>3, <1>4, <1>5 DEF Semi
  <1>. QED BY <1>1, <1>3, <1>4, <1>6

LEMMA SameSemis ==
  ASSUME NEW n \in Nat, NEW a \in Bytes(n * Half), NEW b \in Bytes(n * Half),
         \A j \in Nat : j < n => Semi(a, j) = Semi(b, j)
  PROVE  a = b
  <1>1. ASSUME NEW l \in 1..(n * Half) PROVE a[l] = b[l]
    <2>1. PICK j \in Nat, i \in 1..Half : j < n /\ l = j * Half + i
      BY SemiOf
    <2>2. Semi(a, j)[i] = a[j * Half + i] /\ Semi(b, j)[i] = b[j * Half + i]
      BY DEF Semi
    <2>3. Semi(a, j) = Semi(b, j)
      BY <2>1
    <2>. QED BY <2>1, <2>2, <2>3
  <1>. QED BY <1>1, SameBytes, HalfMultiples

\* One semiblock in place of another one.
LEMMA ReplacedIs ==
  ASSUME NEW n \in Nat, NEW m \in Bytes(n * Half), NEW j \in Nat, j < n, NEW r \in Bytes(Half)
  PROVE  /\ Replaced(m, j, r) \in Bytes(n * Half)
         /\ Semi(Replaced(m, j, r), j) = r
         /\ \A k \in Nat : k < n /\ k # j => Semi(Replaced(m, j, r), k) = Semi(m, k)
  <1>1. DOMAIN m = 1..(n * Half) /\ \A l \in 1..(n * Half) : m[l] \in Byte
    BY DEF Bytes
  <1>2. PICK w : w = Replaced(m, j, r)
    OBVIOUS
  <1>3. w = [l \in 1..(n * Half) |-> IF (l - 1) \div Half = j THEN r[l - j * Half] ELSE m[l]]
    BY <1>1, <1>2 DEF Replaced
  <1>4. \A i \in 1..Half : r[i] \in Byte
    BY DEF Bytes
  <1>5. ASSUME NEW l \in 1..(n * Half) PROVE w[l] \in Byte
    <2>1. PICK k \in Nat, i \in 1..Half :
            k < n /\ l = k * Half + i /\ (l - 1) \div Half = k /\ l - k * Half = i
      BY SemiOf
    <2>2. CASE k = j
      BY <1>3, <1>4, <2>1, <2>2
    <2>3. CASE k # j
      BY <1>1, <1>3, <2>1, <2>3
    <2>. QED BY <2>2, <2>3
  <1>6. w \in Bytes(n * Half)
    BY <1>3, <1>5 DEF Bytes
  <1>7. ASSUME NEW k \in Nat, k < n, NEW i \in 1..Half
        PROVE  Semi(w, k)[i] = IF k = j THEN r[i] ELSE m[k * Half + i]
    <2>1. PICK l : l = k * Half + i
      OBVIOUS
    <2>2. l \in 1..(n * Half)
      BY <1>7, <2>1, SemiAt
    <2>3. (l - 1) \div Half = k /\ l - k * Half = i
      BY <2>1, SemiAt
    <2>4. Semi(w, k)[i] = w[l]
      BY <2>1 DEF Semi
    <2>. QED BY <1>3, <2>1, <2>2, <2>3, <2>4
  <1>8. Semi(w, j) = r
    <2>1. \A i \in 1..Half : Semi(w, j)[i] = r[i]
      BY <1>7
    <2>2. Semi(w, j) = [i \in 1..Half |-> Semi(w, j)[i]] /\ r = [i \in 1..Half |-> r[i]]
      BY DEF Semi, Bytes
    <2>. QED BY <2>1, <2>2
  <1>9. ASSUME NEW k \in Nat, k < n, k # j PROVE Semi(w, k) = Semi(m, k)
    BY <1>7, <1>9 DEF Semi
  <1>. QED BY <1>2, <1>6, <1>8, <1>9

\* Two semiblocks are a block.
LEMMA HalvesJoin ==
  ASSUME NEW u \in Bytes(Half), NEW v \in Bytes(Half), NEW x, x = u \o v
  PROVE  /\ x \in Block /\ x[1] = u[1]
         /\ Piece(x, 0, Half) = u /\ Piece(x, Half, Half) = v
  <1>1. /\ u \in Seq(Byte) /\ Len(u) = Half /\ v \in Seq(Byte) /\ Len(v) = Half
    BY BytesAreSeq, HalfSize
  <1>2. /\ x \in Seq(Byte) /\ Len(x) = Half + Half
        /\ \A i \in 1..Half : x[i] = u[i]
        /\ \A i \in 1..Half : x[Half + i] = v[i]
    <2>1. /\ x \in Seq(Byte) /\ Len(x) = Len(u) + Len(v)
          /\ \A i \in 1..Len(u) : x[i] = u[i]
          /\ \A i \in 1..Len(v) : x[Len(u) + i] = v[i]
      BY <1>1, CatIs
    <2>. QED BY <1>1, <2>1
  <1>3. x \in Block
    BY <1>2, SeqIsBytes, HalfSize DEF Block
  <1>4. x[1] = u[1]
    BY <1>2, HalfSize
  <1>5. /\ Piece(x, 0, Half) \in Bytes(Half)
        /\ \A i \in 1..Half : Piece(x, 0, Half)[i] = x[0 + i]
    <2>1. x \in Seq(Byte) /\ 0 + Half <= Len(x) /\ Half \in Nat
      BY <1>2, HalfSize
    <2>. QED BY <2>1, PieceIs
  <1>6. \A i \in 1..Half : 0 + i = i
    BY HalfSize
  <1>7. \A i \in 1..Half : Piece(x, 0, Half)[i] = u[i]
    BY <1>2, <1>5, <1>6
  <1>8. Piece(x, 0, Half) = u
    BY <1>5, <1>7, SameBytes, HalfSize
  <1>9. /\ Piece(x, Half, Half) \in Bytes(Half)
        /\ \A i \in 1..Half : Piece(x, Half, Half)[i] = x[Half + i]
    <2>1. x \in Seq(Byte) /\ Half + Half <= Len(x) /\ Half \in Nat
      BY <1>2, HalfSize
    <2>. QED BY <2>1, PieceIs
  <1>10. Piece(x, Half, Half) = v
    <2>1. PICK w : w = Piece(x, Half, Half)
      OBVIOUS
    <2>2. w \in Bytes(Half) /\ \A i \in 1..Half : w[i] = v[i]
      BY <1>2, <1>9, <2>1
    <2>3. w = v
      BY <2>2, SameBytes, HalfSize
    <2>. QED BY <2>1, <2>3
  <1>. QED BY <1>3, <1>4, <1>8, <1>10

\* A block is two semiblocks.
LEMMA HalvesOf ==
  ASSUME NEW x \in Block
  PROVE  \E u \in Bytes(Half), v \in Bytes(Half) :
           x = u \o v /\ u = Piece(x, 0, Half) /\ v = Piece(x, Half, Half) /\ u[1] = x[1]
  <1>1. x \in Seq(Byte) /\ Len(x) = Half + Half /\ BS \in Nat
    BY BytesAreSeq, HalfSize, BlockSize DEF Block
  <1>2. PICK u : u = Piece(x, 0, Half)
    OBVIOUS
  <1>3. u \in Bytes(Half) /\ \A i \in 1..Half : u[i] = x[0 + i]
    BY <1>1, <1>2, PieceIs, HalfSize
  <1>4. PICK v : v = Piece(x, Half, Half)
    OBVIOUS
  <1>5. v \in Bytes(Half) /\ \A i \in 1..Half : v[i] = x[Half + i]
    BY <1>1, <1>4, PieceIs, HalfSize
  <1>6. PICK w : w = u \o v
    OBVIOUS
  <1>7. w \in Block /\ w[1] = u[1]
    BY <1>3, <1>5, <1>6, HalvesJoin
  <1>8. u \in Seq(Byte) /\ v \in Seq(Byte) /\ Len(u) = Half /\ Len(v) = Half
    BY <1>3, <1>5, BytesAreSeq, HalfSize
  <1>9. /\ \A i \in 1..Half : w[i] = u[i]
        /\ \A i \in 1..Half : w[Half + i] = v[i]
    <2>1. /\ \A i \in 1..Len(u) : w[i] = u[i]
          /\ \A i \in 1..Len(v) : w[Len(u) + i] = v[i]
      BY <1>6, <1>8, CatIs
    <2>. QED BY <1>8, <2>1
  <1>10. ASSUME NEW i \in 1..BS PROVE w[i] = x[i]
    <2>1. CASE i \in 1..Half
      BY <1>3, <1>9, <2>1
    <2>2. CASE i \notin 1..Half
      <3>1. PICK k \in 1..Half : i = Half + k
        <4>1. i - Half \in 1..Half /\ i = Half + (i - Half)
          BY <2>2, HalfSize
        <4>. QED BY <4>1
      <3>. QED BY <1>5, <1>9, <3>1
    <2>. QED BY <2>1, <2>2
  <1>11. w = x
    BY <1>1, <1>7, <1>10, SameBytes DEF Block
  <1>. QED BY <1>2, <1>3, <1>4, <1>5, <1>6, <1>7, <1>11

-----------------------------------------------------------------------------
(* Key wrapping.                                                           *)

\* Step t of lc_aes_kw_encrypt.
WrapTurn(d, t, n) ==
  LET j == (t - 1) % n
      e == Encrypted(d, d.iv \o Piece(d.out, j * Half, Half))
  IN [e EXCEPT !.iv = XorBytes(Piece(e.res, 0, Half), Count(t)),
               !.out = Replaced(@, j, Piece(e.res, Half, Half))]

\* f is the first m steps of wrapping.
IsWrap(s, in, n, m, f) ==
  f = [t \in 0..m |-> IF t = 0 THEN [s EXCEPT !.iv = KwIv, !.out = in]
                      ELSE WrapTurn(f[t - 1], t, n)]

LEMMA WrapExists ==
  ASSUME NEW s, NEW in, NEW n, NEW m \in Nat
  PROVE  \E f : IsWrap(s, in, n, m, f)
  <1>. DEFINE S == {k \in Nat : \E f : IsWrap(s, in, n, k, f)}
  <1>1. 0 \in S
    <2>1. IsWrap(s, in, n, 0, [t \in 0..0 |-> [s EXCEPT !.iv = KwIv, !.out = in]])
      BY DEF IsWrap
    <2>. QED BY <2>1
  <1>2. ASSUME NEW k \in Nat, k \in S PROVE k + 1 \in S
    <2>1. PICK f : IsWrap(s, in, n, k, f)
      BY <1>2
    <2>. DEFINE g == [t \in 0..(k + 1) |-> IF t <= k THEN f[t] ELSE WrapTurn(f[k], t, n)]
    <2>2. \A t \in 0..(k + 1) : g[t] = IF t = 0 THEN [s EXCEPT !.iv = KwIv, !.out = in]
                                       ELSE WrapTurn(g[t - 1], t, n)
      <3>1. \A t \in 0..k : f[t] = IF t = 0 THEN [s EXCEPT !.iv = KwIv, !.out = in]
                                   ELSE WrapTurn(f[t - 1], t, n)
        BY <2>1 DEF IsWrap
      <3>2. ASSUME NEW t \in 0..(k + 1), t <= k
            PROVE  g[t] = IF t = 0 THEN [s EXCEPT !.iv = KwIv, !.out = in]
                          ELSE WrapTurn(g[t - 1], t, n)
        <4>1. t \in 0..k /\ g[t] = f[t] /\ (t # 0 => g[t - 1] = f[t - 1])
          BY <3>2
        <4>. QED BY <3>1, <4>1
      <3>3. ASSUME NEW t \in 0..(k + 1), ~ (t <= k)
            PROVE  g[t] = IF t = 0 THEN [s EXCEPT !.iv = KwIv, !.out = in]
                          ELSE WrapTurn(g[t - 1], t, n)
        <4>1. t # 0 /\ t - 1 = k /\ g[t] = WrapTurn(f[k], t, n) /\ g[k] = f[k]
          BY <3>3
        <4>. QED BY <4>1
      <3>. QED BY <3>2, <3>3
    <2>3. IsWrap(s, in, n, k + 1, g)
      BY <2>2, Zenon DEF IsWrap
    <2>. QED BY <2>3
  <1>. HIDE DEF S
  <1>3. m \in S
    BY <1>1, <1>2, SetInduction
  <1>. QED BY <1>3 DEF S

\* lc_aes_kw_encrypt is these steps.
LEMMA KwWraps ==
  ASSUME NEW s, NEW in, NEW n \in Nat, n = Len(in) \div Half, n >= 2
  PROVE  \E f : IsWrap(s, in, n, 6 * n, f) /\ KwEncrypt(s, in) = f[6 * n]
  <1>. DEFINE Is(f) ==
         f = [t \in 0..6 * n |->
               IF t = 0 THEN [s EXCEPT !.iv = KwIv, !.out = in]
               ELSE LET d == f[t - 1]
                        j == (t - 1) % n
                        e == Encrypted(d, d.iv \o Piece(d.out, j * Half, Half))
                    IN [e EXCEPT !.iv = XorBytes(Piece(e.res, 0, Half), Count(t)),
                                 !.out = Replaced(@, j, Piece(e.res, Half, Half))]]
  <1>1. \A f : Is(f) <=> IsWrap(s, in, n, 6 * n, f)
    BY Zenon DEF IsWrap, WrapTurn
  <1>2. ~ (n < 2)
    OBVIOUS
  <1>3. KwEncrypt(s, in) = (CHOOSE f : Is(f))[6 * n]
    BY <1>2, ZenonT(60) DEF KwEncrypt
  <1>. HIDE DEF Is
  <1>4. 6 * n \in Nat
    OBVIOUS
  <1>5. Is(CHOOSE f : Is(f))
    BY <1>1, <1>4, WrapExists, Zenon
  <1>. QED BY <1>1, <1>3, <1>5, Zenon

\* Step t of lc_aes_kw_decrypt, undone.
UnwrapTurn(d, t, n) ==
  LET j == t % n
      e == Decrypted(d, XorBytes(d.iv, Count(t + 1)) \o Piece(d.out, j * Half, Half))
  IN [e EXCEPT !.iv = Piece(e.res, 0, Half),
               !.out = Replaced(@, j, Piece(e.res, Half, Half))]

IsUnwrap(s, in, n, m, f) ==
  f = [t \in 0..m |-> IF t = m THEN [s EXCEPT !.out = in]
                      ELSE UnwrapTurn(f[t + 1], t, n)]

LEMMA UnwrapExists ==
  ASSUME NEW s, NEW in, NEW n, NEW m \in Nat
  PROVE  \E f : IsUnwrap(s, in, n, m, f)
  <1>. DEFINE Is(k, f) ==
                \A t \in 0..m : t + k >= m =>
                  f[t] = IF t = m THEN [s EXCEPT !.out = in] ELSE UnwrapTurn(f[t + 1], t, n)
              S == {k \in Nat : \E f : f = [t \in 0..m |-> f[t]] /\ Is(k, f)}
  <1>1. 0 \in S
    <2>. DEFINE g == [t \in 0..m |-> [s EXCEPT !.out = in]]
    <2>1. g = [t \in 0..m |-> g[t]]
      OBVIOUS
    <2>2. Is(0, g)
      <3>1. \A t \in 0..m : t + 0 >= m => t = m
        OBVIOUS
      <3>. QED BY <3>1
    <2>. HIDE DEF g, Is
    <2>. QED BY <2>1, <2>2
  <1>2. ASSUME NEW k \in Nat, k \in S PROVE k + 1 \in S
    <2>1. PICK f : f = [t \in 0..m |-> f[t]] /\ Is(k, f)
      BY <1>2
    <2>. DEFINE g == [t \in 0..m |-> IF t + k >= m THEN f[t] ELSE UnwrapTurn(f[t + 1], t, n)]
    <2>2. g = [t \in 0..m |-> g[t]]
      OBVIOUS
    <2>3. Is(k + 1, g)
      <3>. SUFFICES ASSUME NEW t \in 0..m, t + (k + 1) >= m
                    PROVE  g[t] = IF t = m THEN [s EXCEPT !.out = in] ELSE UnwrapTurn(g[t + 1], t, n)
        OBVIOUS
      <3>1. t # m => t + 1 \in 0..m /\ (t + 1) + k >= m
        OBVIOUS
      <3>2. t # m => g[t + 1] = f[t + 1]
        BY <3>1
      <3>3. CASE t + k >= m
        BY <2>1, <3>2, <3>3
      <3>4. CASE ~ (t + k >= m)
        <4>1. t # m
          BY <3>4
        <4>. QED BY <3>2, <3>4, <4>1
      <3>. QED BY <3>3, <3>4
    <2>. HIDE DEF g, Is
    <2>. QED BY <2>2, <2>3
  <1>. HIDE DEF S
  <1>3. m \in S
    BY <1>1, <1>2, SetInduction
  <1>4. PICK f : f = [t \in 0..m |-> f[t]] /\ Is(m, f)
    BY <1>3 DEF S
  <1>5. \A t \in 0..m : f[t] = IF t = m THEN [s EXCEPT !.out = in] ELSE UnwrapTurn(f[t + 1], t, n)
    BY <1>4
  <1>6. IsUnwrap(s, in, n, m, f)
    BY <1>4, <1>5, Zenon DEF IsUnwrap
  <1>. QED BY <1>6

\* lc_aes_kw_decrypt is these steps.
LEMMA KwUnwraps ==
  ASSUME NEW s, NEW in, NEW n \in Nat, n = Len(in) \div Half, n >= 2
  PROVE  \E f : IsUnwrap(s, in, n, 6 * n, f) /\ KwUnwrap(s, in) = f[0]
  <1>. DEFINE Is(f) ==
         f = [t \in 0..6 * n |->
               IF t = 6 * n THEN [s EXCEPT !.out = in]
               ELSE LET d == f[t + 1]
                        j == t % n
                        e == Decrypted(d, XorBytes(d.iv, Count(t + 1))
                                            \o Piece(d.out, j * Half, Half))
                    IN [e EXCEPT !.iv = Piece(e.res, 0, Half),
                                 !.out = Replaced(@, j, Piece(e.res, Half, Half))]]
  <1>1. \A f : Is(f) <=> IsUnwrap(s, in, n, 6 * n, f)
    BY Zenon DEF IsUnwrap, UnwrapTurn
  <1>2. ~ (n < 2)
    OBVIOUS
  <1>3. KwUnwrap(s, in) = (CHOOSE f : Is(f))[0]
    BY <1>2, ZenonT(60) DEF KwUnwrap, KwDecrypt
  <1>. HIDE DEF Is
  <1>4. 6 * n \in Nat
    OBVIOUS
  <1>5. Is(CHOOSE f : Is(f))
    BY <1>1, <1>4, UnwrapExists, Zenon
  <1>. QED BY <1>1, <1>3, <1>5, Zenon

\* AES on a block that is not in the table.
LEMMA EncryptedNew ==
  ASSUME NEW s, IsState(s), IsTable(s.table), NEW x \in Block,
         \A i \in 1..Len(s.table) : s.table[i].of # x, NEW e, e = Encrypted(s, x)
  PROVE  /\ IsState(e) /\ IsTable(e.table) /\ Len(e.table) = Len(s.table) + 1
         /\ \A i \in 1..Len(s.table) : e.table[i] = s.table[i]
         /\ e.table[Len(s.table) + 1].of = x
         /\ e.res = Named(<<"aes", Len(s.table) + 1>>, BS)
         /\ e.iv = s.iv /\ e.out = s.out
  <1>. DEFINE T == s.table
              new == [dir |-> "enc", of |-> x]
              known == {i \in DOMAIN T : T[i] = new}
              E == [dir : {"enc"}, of : Block]
  <1>1. new.of = x /\ new \in E
    OBVIOUS
  <1>2. known = {}
    <2>1. \A i \in 1..Len(T) : T[i] # new
      BY <1>1
    <2>. HIDE DEF new
    <2>. QED BY <2>1, EntryIs
  <1>3. e = [s EXCEPT !.table = IF known = {} THEN Append(@, new) ELSE @,
                      !.res = Named(<<"aes", IF known = {} THEN Len(T) + 1
                                             ELSE CHOOSE i \in known : TRUE>>, BS)]
    BY NothingUndone DEF Encrypted, Aes
  <1>4. e = [table |-> Append(T, new), res |-> Named(<<"aes", Len(T) + 1>>, BS),
             out |-> s.out, iv |-> s.iv]
    BY <1>2, <1>3 DEF IsState
  <1>5. e.table = Append(T, new) /\ e.res = Named(<<"aes", Len(T) + 1>>, BS)
        /\ e.iv = s.iv /\ e.out = s.out
    BY <1>4
  <1>6. IsState(e) /\ IsTable(e.table)
    BY EncryptedIs
  <1>7. T \in Seq(E)
    BY DEF IsTable
  <1>8. PICK v : v = new
    OBVIOUS
  <1>. HIDE DEF new, E
  <1>9. /\ Len(Append(T, v)) = Len(T) + 1 /\ Append(T, v)[Len(T) + 1] = v
        /\ \A i \in 1..Len(T) : Append(T, v)[i] = T[i]
    BY <1>1, <1>7, <1>8
  <1>. QED BY <1>1, <1>5, <1>6, <1>8, <1>9

\* What the IV of step t begins with.
Mark(t) == IF t = 0 THEN {[of |-> <<"AES_KW_IV", 0>>, at |-> 1]}
           ELSE {[of |-> <<"aes", t>>, at |-> 1], [of |-> <<"t", t>>, at |-> 1]}

LEMMA Marks ==
  ASSUME NEW a \in Nat
  PROVE  /\ \A b \in Nat : Mark(a) = Mark(b) => a = b
         /\ \A i \in Nat : Mark(a) # {[of |-> <<"aes", i>>, at |-> 1]}
  <1>1. \A p, q : [of |-> p, at |-> 1] = [of |-> q, at |-> 1] => p = q
    <2>. TAKE p, q
    <2>1. [of |-> p, at |-> 1].of = p /\ [of |-> q, at |-> 1].of = q
      OBVIOUS
    <2>. QED BY <2>1
  <1>. DEFINE At(p) == [of |-> p, at |-> 1]
  <1>2. \A p, q : At(p) = At(q) => p = q
    BY <1>1
  <1>3. \A i, j : /\ <<"aes", i>> = <<"aes", j>> => i = j
                  /\ <<"aes", i>> # <<"t", j>> /\ <<"aes", i>> # <<"AES_KW_IV", 0>>
                  /\ <<"t", i>> # <<"AES_KW_IV", 0>>
    OBVIOUS
  <1>4. \A t : Mark(t) = IF t = 0 THEN {At(<<"AES_KW_IV", 0>>)}
                         ELSE {At(<<"aes", t>>), At(<<"t", t>>)}
    BY DEF Mark
  <1>. HIDE DEF At
  <1>5. ASSUME NEW b \in Nat, Mark(a) = Mark(b) PROVE a = b
    <2>1. CASE a = 0 /\ b # 0
      <3>1. At(<<"aes", b>>) \in Mark(a) /\ Mark(a) = {At(<<"AES_KW_IV", 0>>)}
        BY <1>4, <1>5, <2>1
      <3>. QED BY <1>2, <1>3, <3>1
    <2>2. CASE a # 0 /\ b = 0
      <3>1. At(<<"aes", a>>) \in Mark(b) /\ Mark(b) = {At(<<"AES_KW_IV", 0>>)}
        BY <1>4, <1>5, <2>2
      <3>. QED BY <1>2, <1>3, <3>1
    <2>3. CASE a # 0 /\ b # 0
      <3>1. At(<<"aes", a>>) \in Mark(b) /\ Mark(b) = {At(<<"aes", b>>), At(<<"t", b>>)}
        BY <1>4, <1>5, <2>3
      <3>2. At(<<"aes", a>>) = At(<<"aes", b>>) \/ At(<<"aes", a>>) = At(<<"t", b>>)
        BY <3>1
      <3>. QED BY <1>2, <1>3, <3>2
    <2>. QED BY <2>1, <2>2, <2>3
  <1>6. ASSUME NEW i \in Nat PROVE Mark(a) # {At(<<"aes", i>>)}
    <2>1. CASE a = 0
      <3>1. At(<<"AES_KW_IV", 0>>) \in Mark(a)
        BY <1>4, <2>1
      <3>2. At(<<"AES_KW_IV", 0>>) # At(<<"aes", i>>)
        BY <1>2, <1>3
      <3>. QED BY <3>1, <3>2
    <2>2. CASE a # 0
      <3>1. At(<<"t", a>>) \in Mark(a)
        BY <1>4, <2>2
      <3>2. At(<<"t", a>>) # At(<<"aes", i>>)
        BY <1>2, <1>3
      <3>. QED BY <3>1, <3>2
    <2>. QED BY <2>1, <2>2
  <1>. QED BY <1>5, <1>6 DEF At

\* The i-th result of AES.
Result(i) == Named(<<"aes", i>>, BS)

LEMMA ResultIs ==
  ASSUME NEW i \in Nat
  PROVE  /\ Result(i) \in Block /\ Result(i)[1] = {[of |-> <<"aes", i>>, at |-> 1]}
         /\ Piece(Result(i), 0, Half) \in Bytes(Half)
         /\ Piece(Result(i), Half, Half) \in Bytes(Half)
         /\ Result(i) = Piece(Result(i), 0, Half) \o Piece(Result(i), Half, Half)
         /\ Piece(Result(i), 0, Half)[1] = Result(i)[1]
  <1>1. <<"aes", i>> \in Name \X Nat
    BY DEF Name
  <1>2. PICK x : x = Result(i)
    OBVIOUS
  <1>3. x \in Block /\ \A k \in 1..BS : x[k] = {[of |-> <<"aes", i>>, at |-> k]}
    BY <1>1, <1>2, NamedIs, BlockSize DEF Result, Block
  <1>4. x[1] = {[of |-> <<"aes", i>>, at |-> 1]}
    BY <1>3, BlockSize
  <1>5. \E u \in Bytes(Half), v \in Bytes(Half) :
           x = u \o v /\ u = Piece(x, 0, Half) /\ v = Piece(x, Half, Half) /\ u[1] = x[1]
    BY <1>3, HalvesOf
  <1>. QED BY <1>2, <1>3, <1>4, <1>5

\* The IV after step t.
IvAt(t) == XorBytes(Piece(Result(t), 0, Half), Count(t))

LEMMA CountIs ==
  ASSUME NEW t \in Nat
  PROVE  Count(t) \in Bytes(Half) /\ Count(t)[1] = {[of |-> <<"t", t>>, at |-> 1]}
  <1>1. <<"t", t>> \in Name \X Nat
    BY DEF Name
  <1>2. /\ Count(t) \in Bytes(Half)
        /\ \A k \in 1..Half : Count(t)[k] = {[of |-> <<"t", t>>, at |-> k]}
    BY <1>1, NamedIs, HalfSize DEF Count
  <1>. QED BY <1>2, HalfSize

LEMMA KwIvIs ==
  KwIv \in Bytes(Half) /\ KwIv[1] = Mark(0)
  <1>1. <<"AES_KW_IV", 0>> \in Name \X Nat
    BY DEF Name
  <1>2. /\ KwIv \in Bytes(Half)
        /\ \A k \in 1..Half : KwIv[k] = {[of |-> <<"AES_KW_IV", 0>>, at |-> k]}
    BY <1>1, NamedIs, HalfSize DEF KwIv
  <1>. QED BY <1>2, HalfSize DEF Mark

LEMMA IvAtIs ==
  ASSUME NEW t \in Nat, t # 0
  PROVE  /\ IvAt(t) \in Bytes(Half) /\ IvAt(t)[1] = Mark(t)
         /\ XorBytes(IvAt(t), Count(t)) = Piece(Result(t), 0, Half)
  <1>1. PICK a, b : a = Piece(Result(t), 0, Half) /\ b = Count(t)
    OBVIOUS
  <1>2. /\ a \in Bytes(Half) /\ a[1] = {[of |-> <<"aes", t>>, at |-> 1]}
        /\ b \in Bytes(Half) /\ b[1] = {[of |-> <<"t", t>>, at |-> 1]}
    BY <1>1, ResultIs, CountIs
  <1>3. PICK c : c = XorBytes(a, b)
    OBVIOUS
  <1>4. c \in Bytes(Half) /\ c[1] = (a[1] \ b[1]) \union (b[1] \ a[1])
    BY <1>2, <1>3, XorIs, HalfSize
  <1>5. XorBytes(c, b) = a
    BY <1>2, <1>3, XorTwice, HalfSize
  <1>6. [of |-> <<"aes", t>>, at |-> 1] # [of |-> <<"t", t>>, at |-> 1]
    <2>1. [of |-> <<"aes", t>>, at |-> 1].of # [of |-> <<"t", t>>, at |-> 1].of
      OBVIOUS
    <2>. QED BY <2>1
  <1>7. c[1] = Mark(t)
    <2>1. PICK p, q : p = [of |-> <<"aes", t>>, at |-> 1] /\ q = [of |-> <<"t", t>>, at |-> 1]
      OBVIOUS
    <2>2. c[1] = ({p} \ {q}) \union ({q} \ {p}) /\ p # q
      BY <1>2, <1>4, <1>6, <2>1
    <2>3. c[1] = {p, q}
      BY <2>2
    <2>. QED BY <2>1, <2>3 DEF Mark
  <1>. QED BY <1>1, <1>3, <1>4, <1>5, <1>7 DEF IvAt

\* Wrapping after step t.
WrapAt(f, n, t) ==
  /\ IsState(f[t]) /\ IsTable(f[t].table) /\ Len(f[t].table) = t
  /\ \A i \in 1..t : f[t].table[i].of = f[i - 1].iv \o Semi(f[i - 1].out, (i - 1) % n)
  /\ f[t].iv \in Bytes(Half) /\ f[t].iv[1] = Mark(t) /\ f[t].out \in Bytes(n * Half)

\* What step t + 1 does.
WrapStep(f, n, t) ==
  /\ f[t + 1].iv = IvAt(t + 1)
  /\ f[t + 1].out = Replaced(f[t].out, t % n, Piece(Result(t + 1), Half, Half))

LEMMA Remainder ==
  ASSUME NEW n \in Nat, n >= 2, NEW t \in Nat
  PROVE  t % n \in Nat /\ t % n < n /\ (t < n => t % n = t)
  OBVIOUS

LEMMA WrapNext ==
  ASSUME NEW n \in Nat, n >= 2, NEW f, NEW t \in Nat,
         f[t + 1] = WrapTurn(f[t], t + 1, n),
         \A u \in 0..t : WrapAt(f, n, u)
  PROVE  WrapAt(f, n, t + 1) /\ WrapStep(f, n, t)
  <1>1. PICK g, j : g = f[t] /\ j = t % n /\ j \in Nat /\ j < n
    BY Remainder
  <1>2. /\ IsState(g) /\ IsTable(g.table) /\ Len(g.table) = t
        /\ \A i \in 1..t : g.table[i].of = f[i - 1].iv \o Semi(f[i - 1].out, (i - 1) % n)
        /\ g.iv \in Bytes(Half) /\ g.iv[1] = Mark(t) /\ g.out \in Bytes(n * Half)
    <2>1. WrapAt(f, n, t)
      OBVIOUS
    <2>. QED BY <1>1, <2>1 DEF WrapAt
  <1>3. PICK o : o = g.out
    OBVIOUS
  <1>4. o \in Bytes(n * Half)
    BY <1>2, <1>3
  <1>5. PICK w \in Bytes(Half) : w = Semi(o, j) /\ w = Piece(o, j * Half, Half)
    BY <1>1, <1>4, SemiIs
  <1>6. PICK x : x = g.iv \o w
    OBVIOUS
  <1>7. x \in Block /\ x[1] = Mark(t)
    <2>1. PICK v : v = g.iv
      OBVIOUS
    <2>2. v \in Bytes(Half) /\ x = v \o w
      BY <1>2, <1>6, <2>1
    <2>3. x \in Block /\ x[1] = v[1]
      BY <2>2, HalvesJoin
    <2>. QED BY <1>2, <2>1, <2>3
  <1>8. ASSUME NEW i \in 1..t PROVE g.table[i].of # x
    <2>1. PICK h \in Nat : h = i - 1 /\ h \in 0..t /\ h # t
      OBVIOUS
    <2>2. WrapAt(f, n, h)
      BY <2>1
    <2>3. /\ f[h].iv \in Bytes(Half) /\ f[h].iv[1] = Mark(h) /\ f[h].out \in Bytes(n * Half)
      BY <2>2 DEF WrapAt
    <2>4. PICK v, p : v = f[h].iv /\ p = f[h].out
      OBVIOUS
    <2>5. Semi(p, h % n) \in Bytes(Half)
      BY <2>3, <2>4, Remainder, SemiIs
    <2>6. PICK y : y = v \o Semi(p, h % n)
      OBVIOUS
    <2>7. y[1] = Mark(h)
      <3>1. y[1] = v[1]
        BY ZenonT(60), <2>3, <2>4, <2>5, <2>6, HalvesJoin
      <3>. QED BY <2>3, <2>4, <3>1
    <2>8. y # x
      BY <1>7, <2>1, <2>7, Marks
    <2>. QED BY <1>2, <2>1, <2>4, <2>6, <2>8
  <1>9. PICK e : e = Encrypted(g, x)
    OBVIOUS
  <1>10. /\ IsState(e) /\ IsTable(e.table) /\ Len(e.table) = t + 1
         /\ \A i \in 1..t : e.table[i] = g.table[i]
         /\ e.table[t + 1].of = x /\ e.res = Result(t + 1)
         /\ e.iv = g.iv /\ e.out = g.out
    BY <1>2, <1>7, <1>8, <1>9, EncryptedNew DEF Result
  <1>11. PICK d : d = f[t + 1]
    OBVIOUS
  <1>12. d = [e EXCEPT !.iv = IvAt(t + 1),
                       !.out = Replaced(@, j, Piece(Result(t + 1), Half, Half))]
    <2>1. (t + 1) - 1 = t
      OBVIOUS
    <2>2. PICK k : k = t + 1
      OBVIOUS
    <2>3. /\ d = WrapTurn(g, k, n) /\ k - 1 = t /\ e.res = Result(k)
          /\ e = Encrypted(g, g.iv \o Piece(g.out, j * Half, Half)) /\ j = t % n
      BY <1>1, <1>3, <1>5, <1>6, <1>9, <1>10, <1>11, <2>1, <2>2, Zenon
    <2>4. d = [e EXCEPT !.iv = IvAt(k), !.out = Replaced(@, j, Piece(Result(k), Half, Half))]
      BY <2>3, Zenon DEF WrapTurn, IvAt
    <2>. QED BY <2>2, <2>4, Zenon
  <1>13. PICK z : z = Replaced(o, j, Piece(Result(t + 1), Half, Half))
    OBVIOUS
  <1>14. d = [table |-> e.table, res |-> e.res, out |-> z, iv |-> IvAt(t + 1)]
    BY <1>3, <1>10, <1>12, <1>13 DEF IsState
  <1>15. d.table = e.table /\ d.out = z /\ d.iv = IvAt(t + 1) /\ IsState(d)
    BY <1>14 DEF IsState
  <1>16. z \in Bytes(n * Half)
    <2>1. Piece(Result(t + 1), Half, Half) \in Bytes(Half)
      BY ResultIs
    <2>. QED BY <1>1, <1>4, <1>13, <2>1, ReplacedIs
  <1>17. IvAt(t + 1) \in Bytes(Half) /\ IvAt(t + 1)[1] = Mark(t + 1)
    <2>1. t + 1 \in Nat /\ t + 1 # 0
      OBVIOUS
    <2>. QED BY <2>1, IvAtIs
  <1>18. ASSUME NEW i \in 1..(t + 1)
         PROVE  d.table[i].of = f[i - 1].iv \o Semi(f[i - 1].out, (i - 1) % n)
    <2>1. CASE i \in 1..t
      BY <1>2, <1>10, <1>15, <2>1
    <2>2. CASE i = t + 1
      <3>1. i - 1 = t
        BY <2>2
      <3>2. d.table[i].of = x
        BY <1>10, <1>15, <2>2
      <3>3. x = f[t].iv \o Semi(f[t].out, t % n)
        BY <1>1, <1>3, <1>5, <1>6, Zenon
      <3>. QED BY <3>1, <3>2, <3>3, Zenon
    <2>3. i \in 1..t \/ i = t + 1
      OBVIOUS
    <2>. QED BY <2>1, <2>2, <2>3, Zenon
  <1>19. WrapAt(f, n, t + 1)
    BY <1>10, <1>11, <1>15, <1>16, <1>17, <1>18 DEF WrapAt
  <1>20. WrapStep(f, n, t)
    BY <1>1, <1>3, <1>11, <1>13, <1>15 DEF WrapStep
  <1>. QED BY <1>19, <1>20

\* All steps of wrapping.
Wrapping(f, n) ==
  /\ f[0].iv = KwIv
  /\ \A t \in 0..6 * n : WrapAt(f, n, t)
  /\ \A t \in Nat : t < 6 * n => WrapStep(f, n, t)

LEMMA WrapIs ==
  ASSUME NEW s, IsState(s), s.table = <<>>, NEW n \in Nat, n >= 2,
         NEW in \in Bytes(n * Half), NEW f, IsWrap(s, in, n, 6 * n, f)
  PROVE  Wrapping(f, n) /\ f[0].out = in
  <1>1. f[0] = [s EXCEPT !.iv = KwIv, !.out = in]
    BY DEF IsWrap
  <1>2. f[0] = [table |-> <<>>, res |-> s.res, out |-> in, iv |-> KwIv]
    BY <1>1 DEF IsState
  <1>3. PICK g : g = f[0]
    OBVIOUS
  <1>4. g.table = <<>> /\ g.out = in /\ g.iv = KwIv /\ IsState(g)
    BY <1>2, <1>3 DEF IsState
  <1>5. WrapAt(f, n, 0)
    <2>1. IsTable(g.table) /\ Len(g.table) = 0
      BY <1>4 DEF IsTable
    <2>. QED BY <1>3, <1>4, <2>1, KwIvIs DEF WrapAt
  <1>6. ASSUME NEW t \in Nat, t < 6 * n PROVE f[t + 1] = WrapTurn(f[t], t + 1, n)
    <2>1. t + 1 \in 0..6 * n /\ t + 1 # 0 /\ (t + 1) - 1 = t
      BY <1>6
    <2>2. \A u \in 0..6 * n : f[u] = IF u = 0 THEN [s EXCEPT !.iv = KwIv, !.out = in]
                                     ELSE WrapTurn(f[u - 1], u, n)
      BY DEF IsWrap
    <2>. QED BY <2>1, <2>2
  <1>. DEFINE P(t) == /\ \A u \in 0..t : WrapAt(f, n, u)
                      /\ \A u \in Nat : u < t => WrapStep(f, n, u)
              S == {t \in Nat : t <= 6 * n => P(t)}
  <1>7. 0 \in S
    BY <1>5
  <1>8. ASSUME NEW t \in Nat, t \in S PROVE t + 1 \in S
    <2>. SUFFICES ASSUME t + 1 <= 6 * n PROVE P(t + 1)
      OBVIOUS
    <2>1. P(t) /\ t < 6 * n
      BY <1>8
    <2>2. WrapAt(f, n, t + 1) /\ WrapStep(f, n, t)
      BY <1>6, <2>1, WrapNext
    <2>3. \A u \in 0..(t + 1) : u \in 0..t \/ u = t + 1
      OBVIOUS
    <2>4. \A u \in Nat : u < t + 1 => u < t \/ u = t
      OBVIOUS
    <2>. QED BY <2>1, <2>2, <2>3, <2>4
  <1>. HIDE DEF S
  <1>9. \A t \in Nat : t \in S
    BY <1>7, <1>8, SetInduction
  <1>10. 6 * n \in Nat /\ 6 * n <= 6 * n
    OBVIOUS
  <1>11. P(6 * n)
    <2>. HIDE DEF P
    <2>. QED BY <1>9, <1>10 DEF S
  <1>. QED BY <1>3, <1>4, <1>11 DEF Wrapping

\* A string and what it is cut into.
IsCut(x, k, l, u, v) ==
  x \in Seq(Byte) /\ Len(x) = k + l /\ Piece(x, 0, k) = u /\ Piece(x, k, l) = v

LEMMA CutIs ==
  ASSUME NEW k \in Nat, NEW l \in Nat, NEW u \in Bytes(k), NEW v \in Bytes(l),
         NEW x, x = u \o v
  PROVE  IsCut(x, k, l, u, v)
  <1>1. u \in Seq(Byte) /\ Len(u) = k /\ v \in Seq(Byte) /\ Len(v) = l
    BY BytesAreSeq
  <1>2. /\ x \in Seq(Byte) /\ Len(x) = k + l
        /\ \A i \in 1..k : x[i] = u[i]
        /\ \A i \in 1..l : x[k + i] = v[i]
    <2>1. /\ x \in Seq(Byte) /\ Len(x) = Len(u) + Len(v)
          /\ \A i \in 1..Len(u) : x[i] = u[i]
          /\ \A i \in 1..Len(v) : x[Len(u) + i] = v[i]
      BY <1>1, CatIs
    <2>. QED BY <1>1, <2>1
  <1>3. PICK p, q : p = Piece(x, 0, k) /\ q = Piece(x, k, l)
    OBVIOUS
  <1>4. p \in Bytes(k) /\ \A i \in 1..k : p[i] = x[0 + i]
    <2>1. 0 + k <= Len(x)
      BY <1>2
    <2>. QED BY ZenonT(60), <1>2, <1>3, <2>1, PieceIs
  <1>5. q \in Bytes(l) /\ \A i \in 1..l : q[i] = x[k + i]
    <2>1. k + l <= Len(x) /\ x \in Seq(Byte)
      BY <1>2
    <2>. QED BY <1>3, <2>1, PieceIs
  <1>6. p = u
    <2>1. \A i \in 1..k : p[i] = u[i]
      BY <1>2, <1>4
    <2>. QED BY <1>4, <2>1, SameBytes
  <1>7. q = v
    <2>1. \A i \in 1..l : q[i] = v[i]
      BY <1>2, <1>5
    <2>. QED BY <1>5, <2>1, SameBytes
  <1>. QED BY <1>2, <1>3, <1>6, <1>7 DEF IsCut

LEMMA CutOf ==
  ASSUME NEW k \in Nat, NEW l \in Nat, NEW x \in Seq(Byte), Len(x) = k + l
  PROVE  /\ Piece(x, 0, k) \in Bytes(k) /\ Piece(x, k, l) \in Bytes(l)
         /\ x = Piece(x, 0, k) \o Piece(x, k, l)
  <1>1. PICK p, q : p = Piece(x, 0, k) /\ q = Piece(x, k, l)
    OBVIOUS
  <1>2. p \in Bytes(k) /\ \A i \in 1..k : p[i] = x[0 + i]
    <2>1. 0 + k <= Len(x)
      OBVIOUS
    <2>. QED BY <1>1, <2>1, PieceIs
  <1>3. q \in Bytes(l) /\ \A i \in 1..l : q[i] = x[k + i]
    BY <1>1, PieceIs
  <1>4. PICK y : y = p \o q
    OBVIOUS
  <1>5. p \in Seq(Byte) /\ Len(p) = k /\ q \in Seq(Byte) /\ Len(q) = l
    BY <1>2, <1>3, BytesAreSeq
  <1>6. /\ y \in Seq(Byte) /\ Len(y) = k + l
        /\ \A i \in 1..k : y[i] = p[i]
        /\ \A i \in 1..l : y[k + i] = q[i]
    <2>1. /\ y \in Seq(Byte) /\ Len(y) = Len(p) + Len(q)
          /\ \A i \in 1..Len(p) : y[i] = p[i]
          /\ \A i \in 1..Len(q) : y[Len(p) + i] = q[i]
      BY <1>4, <1>5, CatIs
    <2>. QED BY <1>5, <2>1
  <1>7. ASSUME NEW i \in 1..Len(x) PROVE x[i] = y[i]
    <2>1. CASE i <= k
      BY <1>2, <1>6, <2>1
    <2>2. CASE ~ (i <= k)
      <3>1. PICK h \in 1..l : i = k + h
        <4>1. i - k \in 1..l /\ i = k + (i - k)
          BY <2>2
        <4>. QED BY <4>1
      <3>. QED BY <1>3, <1>6, <3>1
    <2>. QED BY <2>1, <2>2
  <1>8. x = y
    BY <1>6, <1>7, SameSeq
  <1>. QED BY <1>1, <1>2, <1>3, <1>4, <1>8

\* c is the tag and the wrapped key of m, and T the table of wrapping.
IsWrapped(T, m, c) ==
  \E n \in Nat : \E f :
    /\ n >= 2 /\ Wrapping(f, n) /\ f[0].out = m
    /\ T = f[6 * n].table /\ c = f[6 * n].iv \o f[6 * n].out

\* The facts of the last step.
LEMMA WrappedIs ==
  ASSUME NEW n \in Nat, n >= 2, NEW f, Wrapping(f, n)
  PROVE  /\ IsTable(f[6 * n].table) /\ Len(f[6 * n].table) = 6 * n
         /\ f[6 * n].iv \in Bytes(Half) /\ f[6 * n].out \in Bytes(n * Half)
         /\ \A t \in Nat : t < 6 * n =>
              f[6 * n].table[t + 1].of = f[t].iv \o Semi(f[t].out, t % n)
  <1>1. WrapAt(f, n, 6 * n)
    <2>1. 6 * n \in 0..6 * n
      OBVIOUS
    <2>. QED BY <2>1 DEF Wrapping
  <1>2. PICK g : g = f[6 * n]
    OBVIOUS
  <1>3. /\ IsTable(g.table) /\ Len(g.table) = 6 * n
        /\ \A i \in 1..6 * n : g.table[i].of = f[i - 1].iv \o Semi(f[i - 1].out, (i - 1) % n)
        /\ g.iv \in Bytes(Half) /\ g.out \in Bytes(n * Half)
    BY <1>1, <1>2 DEF WrapAt
  <1>4. ASSUME NEW t \in Nat, t < 6 * n
        PROVE  g.table[t + 1].of = f[t].iv \o Semi(f[t].out, t % n)
    <2>1. PICK i \in 1..6 * n : i = t + 1 /\ i - 1 = t
      <3>1. t + 1 \in 1..6 * n /\ (t + 1) - 1 = t
        BY <1>4
      <3>. QED BY <3>1
    <2>2. g.table[i].of = f[i - 1].iv \o Semi(f[i - 1].out, (i - 1) % n)
      BY <1>3
    <2>. QED BY <2>1, <2>2, Zenon
  <1>. QED BY <1>2, <1>3, <1>4

\* lc_aes_kw_encrypt.
LEMMA KwGives ==
  ASSUME NEW s, IsState(s), s.table = <<>>, NEW n \in Nat, n >= 2,
         NEW in \in Seq(Byte), Len(in) = n * Half
  PROVE  /\ IsState(KwEncrypt(s, in)) /\ IsTable(KwEncrypt(s, in).table)
         /\ IsWrapped(KwEncrypt(s, in).table, in, KwEncrypt(s, in).iv \o KwEncrypt(s, in).out)
  <1>1. n = Len(in) \div Half
    <2>1. PICK l \in Nat : l = n * Half
      BY HalfMultiples
    <2>2. l \div Half = n
      BY <2>1, HalfSize
    <2>. QED BY <2>1, <2>2
  <1>2. PICK f : IsWrap(s, in, n, 6 * n, f) /\ KwEncrypt(s, in) = f[6 * n]
    BY <1>1, KwWraps
  <1>3. in \in Bytes(n * Half)
    BY SeqIsBytes
  <1>4. Wrapping(f, n) /\ f[0].out = in
    BY <1>2, <1>3, WrapIs
  <1>5. IsState(f[6 * n])
    <2>1. 6 * n \in 0..6 * n
      OBVIOUS
    <2>. QED BY <1>4, <2>1 DEF Wrapping, WrapAt
  <1>. QED BY <1>2, <1>4, <1>5, WrappedIs DEF IsWrapped

\* What unwrapping begins with, and its steps.
Undone(s, in, n, m, g) ==
  /\ g[m] = [table |-> s.table, res |-> s.res, out |-> in, iv |-> s.iv]
  /\ \A t \in Nat : t < m => g[t] = UnwrapTurn(g[t + 1], t, n)

LEMMA UnwrapStart ==
  ASSUME NEW s, IsState(s), NEW in, NEW n, NEW m \in Nat, NEW g, IsUnwrap(s, in, n, m, g)
  PROVE  Undone(s, in, n, m, g)
  <1>1. \A t \in 0..m : g[t] = IF t = m THEN [s EXCEPT !.out = in] ELSE UnwrapTurn(g[t + 1], t, n)
    BY DEF IsUnwrap
  <1>2. g[m] = [s EXCEPT !.out = in]
    BY <1>1
  <1>3. g[m] = [table |-> s.table, res |-> s.res, out |-> in, iv |-> s.iv]
    BY <1>2 DEF IsState
  <1>4. \A t \in Nat : t < m => t \in 0..m /\ t # m
    OBVIOUS
  <1>. QED BY <1>1, <1>3, <1>4 DEF Undone

\* Undoing step t + 1 of what was wrapped.
LEMMA UnwrapBack ==
  ASSUME NEW n \in Nat, n >= 2, NEW f, Wrapping(f, n), NEW T, T = f[6 * n].table,
         NEW t \in Nat, t < 6 * n,
         NEW d, IsState(d), d.table = T, d.iv = f[t + 1].iv, d.out = f[t + 1].out,
         NEW e, e = UnwrapTurn(d, t, n)
  PROVE  IsState(e) /\ e.table = T /\ e.iv = f[t].iv /\ e.out = f[t].out
  <1>1. PICK k : k = t + 1
    OBVIOUS
  <1>2. PICK j : j = t % n /\ j \in Nat /\ j < n
    BY Remainder
  <1>3. PICK a, o : a = f[t].iv /\ o = f[t].out
    OBVIOUS
  <1>4. a \in Bytes(Half) /\ o \in Bytes(n * Half)
    <2>1. t \in 0..6 * n
      OBVIOUS
    <2>. QED BY <1>3, <2>1 DEF Wrapping, WrapAt
  <1>5. PICK p, q : p = Piece(Result(k), 0, Half) /\ q = Piece(Result(k), Half, Half)
    OBVIOUS
  <1>6. k \in Nat /\ k # 0 /\ k \in 1..6 * n
    BY <1>1
  <1>7. p \in Bytes(Half) /\ q \in Bytes(Half) /\ Result(k) = p \o q
    BY <1>5, <1>6, ResultIs
  <1>8. d.iv = IvAt(k) /\ d.out = Replaced(o, j, q)
    <2>1. WrapStep(f, n, t)
      BY DEF Wrapping
    <2>. QED BY <1>1, <1>2, <1>3, <1>5, <2>1 DEF WrapStep
  <1>9. XorBytes(d.iv, Count(k)) = p
    BY <1>5, <1>6, <1>8, IvAtIs
  <1>10. PICK w : w = Replaced(o, j, q)
    OBVIOUS
  <1>11. /\ w \in Bytes(n * Half) /\ Semi(w, j) = q
         /\ \A i \in Nat : i < n /\ i # j => Semi(w, i) = Semi(o, i)
    BY <1>2, <1>4, <1>7, <1>10, ReplacedIs
  <1>12. Piece(w, j * Half, Half) = q
    BY <1>2, <1>11, SemiIs
  <1>13. PICK v : v = Semi(o, j)
    OBVIOUS
  <1>14. v \in Bytes(Half)
    BY <1>2, <1>4, <1>13, SemiIs
  <1>15. PICK x : x = a \o v
    OBVIOUS
  <1>16. x \in Block /\ Piece(x, 0, Half) = a /\ Piece(x, Half, Half) = v
    BY <1>4, <1>14, <1>15, HalvesJoin
  <1>17. Enciphers(T, x, Result(k)) /\ IsTable(T)
    <2>1. T[k].of = x /\ IsTable(T) /\ Len(T) = 6 * n
      BY ZenonT(60), <1>1, <1>2, <1>3, <1>13, <1>15, WrappedIs
    <2>. QED BY <1>6, <2>1 DEF Enciphers, Result
  <1>18. PICK h : h = Decrypted(d, Result(k))
    OBVIOUS
  <1>19. h = [d EXCEPT !.res = x]
    BY <1>17, <1>18, DecryptedIs
  <1>20. h = [table |-> T, res |-> x, out |-> w, iv |-> d.iv]
    BY <1>8, <1>10, <1>19 DEF IsState
  <1>21. e = [h EXCEPT !.iv = Piece(h.res, 0, Half),
                       !.out = Replaced(@, j, Piece(h.res, Half, Half))]
    <2>1. h = Decrypted(d, XorBytes(d.iv, Count(k)) \o Piece(d.out, j * Half, Half))
      BY <1>7, <1>8, <1>9, <1>10, <1>12, <1>18
    <2>. QED BY <1>1, <1>2, <2>1, Zenon DEF UnwrapTurn
  <1>22. e = [table |-> T, res |-> x, out |-> Replaced(w, j, v), iv |-> a]
    BY <1>16, <1>20, <1>21
  <1>23. PICK z : z = Replaced(w, j, v)
    OBVIOUS
  <1>24. /\ z \in Bytes(n * Half) /\ Semi(z, j) = v
         /\ \A i \in Nat : i < n /\ i # j => Semi(z, i) = Semi(w, i)
    BY <1>2, <1>11, <1>14, <1>23, ReplacedIs
  <1>25. \A i \in Nat : i < n => Semi(z, i) = Semi(o, i)
    BY <1>11, <1>13, <1>24
  <1>26. z = o
    BY <1>4, <1>24, <1>25, SameSemis
  <1>27. e = [table |-> T, res |-> x, out |-> o, iv |-> a]
    BY <1>22, <1>23, <1>26
  <1>. QED BY <1>3, <1>27 DEF IsState

\* lc_aes_kw_decrypt of what was wrapped.
LEMMA KwOpens ==
  ASSUME NEW s, IsState(s), NEW m, NEW c, IsWrapped(s.table, m, c),
         s.iv = Piece(c, 0, Half), NEW in, in = Piece(c, Half, Len(c) - Half)
  PROVE  KwUnwrap(s, in).iv = KwIv /\ KwUnwrap(s, in).out = m
  <1>1. PICK n \in Nat : \E f :
          /\ n >= 2 /\ Wrapping(f, n) /\ f[0].out = m
          /\ s.table = f[6 * n].table /\ c = f[6 * n].iv \o f[6 * n].out
    BY DEF IsWrapped
  <1>2. PICK f :
          /\ n >= 2 /\ Wrapping(f, n) /\ f[0].out = m
          /\ s.table = f[6 * n].table /\ c = f[6 * n].iv \o f[6 * n].out
    BY <1>1
  <1>3. PICK M \in Nat : M = 6 * n
    OBVIOUS
  <1>4. PICK a, o : a = f[M].iv /\ o = f[M].out
    OBVIOUS
  <1>5. a \in Bytes(Half) /\ o \in Bytes(n * Half)
    BY <1>2, <1>3, <1>4, WrappedIs
  <1>6. s.iv = a /\ in = o
    <2>1. PICK l \in Nat : l = n * Half
      BY HalfMultiples
    <2>2. c = a \o o
      BY <1>2, <1>3, <1>4
    <2>3. Len(c) = Half + l /\ Piece(c, 0, Half) = a /\ Piece(c, Half, l) = o
      <3>1. a \in Bytes(Half) /\ o \in Bytes(l) /\ Half \in Nat
        BY <1>5, <2>1, HalfSize
      <3>2. IsCut(c, Half, l, a, o)
        BY <2>2, <3>1, CutIs, Zenon
      <3>. QED BY <3>2 DEF IsCut
    <2>4. Len(c) - Half = l
      BY <2>3, HalfSize
    <2>. QED BY <2>3, <2>4
  <1>7. n = Len(in) \div Half
    <2>1. PICK l \in Nat : l = n * Half
      BY HalfMultiples
    <2>2. Len(o) = l
      BY <1>5, <2>1, BytesAreSeq
    <2>3. l \div Half = n
      BY <2>1, HalfSize
    <2>. QED BY <1>6, <2>2, <2>3
  <1>8. PICK g : IsUnwrap(s, in, n, M, g) /\ KwUnwrap(s, in) = g[0]
    <2>1. \E g : IsUnwrap(s, in, n, 6 * n, g) /\ KwUnwrap(s, in) = g[0]
      <3>1. n >= 2 /\ n \in Nat
        BY <1>2
      <3>. QED BY ONLY <1>7, <3>1, KwUnwraps
    <2>. QED BY <1>3, <2>1, Zenon
  <1>9. /\ g[M] = [table |-> s.table, res |-> s.res, out |-> in, iv |-> s.iv]
        /\ \A t \in Nat : t < M => g[t] = UnwrapTurn(g[t + 1], t, n)
    <2>1. IsUnwrap(s, in, n, M, g) /\ IsState(s)
      BY <1>8
    <2>2. Undone(s, in, n, M, g)
      BY ONLY M \in Nat, <2>1, UnwrapStart
    <2>. QED BY <2>2 DEF Undone
  <1>. DEFINE Is(t) == /\ IsState(g[t]) /\ g[t].table = s.table
                       /\ g[t].iv = f[t].iv /\ g[t].out = f[t].out
              S == {k \in Nat : k <= M => Is(M - k)}
  <1>10. 0 \in S
    <2>1. M - 0 = M
      OBVIOUS
    <2>2. Is(M)
      BY <1>4, <1>6, <1>9 DEF IsState
    <2>. QED BY <2>1, <2>2
  <1>11. ASSUME NEW k \in Nat, k \in S PROVE k + 1 \in S
    <2>. SUFFICES ASSUME k + 1 <= M PROVE Is(M - (k + 1))
      OBVIOUS
    <2>1. PICK t \in Nat : t = M - (k + 1) /\ t + 1 = M - k /\ t < M
      <3>1. M - (k + 1) \in Nat /\ (M - (k + 1)) + 1 = M - k /\ M - (k + 1) < M
        OBVIOUS
      <3>. QED BY <3>1
    <2>2. Is(t + 1)
      BY <1>11, <2>1
    <2>3. PICK d, e : d = g[t + 1] /\ e = g[t]
      OBVIOUS
    <2>4. e = UnwrapTurn(d, t, n)
      BY <1>9, <2>1, <2>3
    <2>5. IsState(d) /\ d.table = s.table /\ d.iv = f[t + 1].iv /\ d.out = f[t + 1].out
      BY <2>2, <2>3
    <2>6. s.table = f[6 * n].table /\ t < 6 * n
      BY <1>2, <1>3, <2>1
    <2>7. IsState(e) /\ e.table = s.table /\ e.iv = f[t].iv /\ e.out = f[t].out
      BY <1>2, <2>4, <2>5, <2>6, UnwrapBack
    <2>. QED BY <2>1, <2>3, <2>7
  <1>. HIDE DEF S
  <1>12. M \in S
    BY <1>10, <1>11, SetInduction
  <1>13. Is(0)
    <2>1. M - M = 0
      OBVIOUS
    <2>. HIDE DEF Is
    <2>. QED BY <1>12, <2>1 DEF S
  <1>. QED BY <1>2, <1>8, <1>13 DEF Wrapping

-----------------------------------------------------------------------------
(* Unwrapping of something else.                                           *)

\* T with what unwrapping adds to it.
Grown(T, U) ==
  /\ U \in Seq([dir : {"enc", "dec"}, of : Block])
  /\ Len(T) <= Len(U)
  /\ \A i \in 1..Len(T) : U[i] = T[i]
  /\ \A i \in 1..Len(U) : i > Len(T) => U[i].dir = "dec"

\* AES backwards on block b gives y.
Deciphers(T, b, y) ==
  \/ \E i \in 1..Len(T) : b = Result(i) /\ y = T[i].of
  \/ \E i \in Nat : y = Result(i)

LEMMA DecryptedAny ==
  ASSUME NEW T, IsTable(T), NEW s, IsState(s), Grown(T, s.table), NEW b \in Block,
         NEW e, e = Decrypted(s, b)
  PROVE  /\ IsState(e) /\ Grown(T, e.table) /\ e.iv = s.iv /\ e.out = s.out
         /\ e.res \in Block /\ Deciphers(T, b, e.res)
  <1>. DEFINE U == s.table
              E == [dir : {"enc", "dec"}, of : Block]
              new == [dir |-> "dec", of |-> b]
              ids == {i \in DOMAIN U : U[i].dir = "enc" /\ b = Named(<<"aes", i>>, BS)}
              known == {i \in DOMAIN U : U[i] = new}
              id == IF known = {} THEN Len(U) + 1 ELSE CHOOSE i \in known : TRUE
              V == IF known = {} THEN Append(U, new) ELSE U
  <1>1. /\ U \in Seq(E) /\ Len(U) \in Nat /\ DOMAIN U = 1..Len(U) /\ Len(T) <= Len(U)
        /\ \A i \in 1..Len(T) : U[i] = T[i]
        /\ \A i \in 1..Len(U) : i > Len(T) => U[i].dir = "dec"
    BY DEF Grown
  <1>2. Len(T) \in Nat
    BY EntryIs
  <1>3. CASE ids # {}
    <2>1. PICK i : i = (CHOOSE k \in ids : TRUE) /\ i \in ids
      BY <1>3
    <2>2. i \in 1..Len(U) /\ U[i].dir = "enc" /\ b = Result(i)
      BY <1>1, <2>1 DEF Result
    <2>3. i \in 1..Len(T)
      <3>1. i \in Nat /\ ~ (i > Len(T))
        BY <1>1, <2>2
      <3>. QED BY <1>2, <2>2, <3>1
    <2>4. ResultOf(U, "enc", b) = i
      BY <1>3, <2>1, Zenon DEF ResultOf
    <2>5. i # 0
      BY <2>3
    <2>6. e = [s EXCEPT !.res = U[i].of]
      BY <2>4, <2>5 DEF Decrypted, Aes
    <2>7. e = [table |-> U, res |-> T[i].of, out |-> s.out, iv |-> s.iv]
      BY <1>1, <2>3, <2>6 DEF IsState
    <2>8. e.table = U /\ e.res = T[i].of /\ e.out = s.out /\ e.iv = s.iv /\ IsState(e)
      BY <2>7 DEF IsState
    <2>9. T[i].of \in Block
      BY <2>3, EntryIs
    <2>10. Deciphers(T, b, e.res)
      BY <2>2, <2>3, <2>8 DEF Deciphers
    <2>. QED BY <2>8, <2>9, <2>10
  <1>4. CASE ids = {}
    <2>1. ResultOf(U, "enc", b) = 0
      BY <1>4, Zenon DEF ResultOf
    <2>2. e = [s EXCEPT !.table = IF known = {} THEN Append(@, new) ELSE @,
                        !.res = Named(<<"aes", id>>, BS)]
      BY <2>1 DEF Decrypted, Aes
    <2>3. e = [table |-> V, res |-> Result(id), out |-> s.out, iv |-> s.iv]
      BY <2>2 DEF IsState, Result
    <2>4. e.table = V /\ e.res = Result(id) /\ e.out = s.out /\ e.iv = s.iv /\ IsState(e)
      BY <2>3 DEF IsState
    <2>5. id \in Nat
      <3>1. known # {} => id \in known
        OBVIOUS
      <3>2. known = {} => id = Len(U) + 1
        OBVIOUS
      <3>. HIDE DEF id
      <3>. QED BY <1>1, <3>1, <3>2
    <2>6. Grown(T, V)
      <3>1. CASE known = {}
        <4>1. PICK v : v = new
          OBVIOUS
        <4>2. v \in E /\ v.dir = "dec"
          BY <4>1
        <4>. HIDE DEF new, E
        <4>3. /\ Append(U, v) \in Seq(E) /\ Len(Append(U, v)) = Len(U) + 1
              /\ Append(U, v)[Len(U) + 1] = v
              /\ \A i \in 1..Len(U) : Append(U, v)[i] = U[i]
          BY <1>1, <4>2
        <4>4. V = Append(U, v)
          BY <3>1, <4>1
        <4>. HIDE DEF V
        <4>5. /\ V \in Seq(E) /\ Len(V) = Len(U) + 1 /\ V[Len(U) + 1] = v
              /\ \A i \in 1..Len(U) : V[i] = U[i]
          BY <4>3, <4>4
        <4>6. \A i \in 1..Len(T) : V[i] = T[i]
          BY <1>1, <1>2, <4>5
        <4>7. \A i \in 1..Len(V) : i \in 1..Len(U) \/ i = Len(U) + 1
          BY <1>1, <4>5
        <4>8. \A i \in 1..Len(V) : i > Len(T) => V[i].dir = "dec"
          BY <1>1, <4>2, <4>5, <4>7
        <4>9. Len(T) <= Len(V)
          BY <1>1, <1>2, <4>5
        <4>. QED BY <4>5, <4>6, <4>8, <4>9 DEF Grown, E
      <3>2. CASE known # {}
        BY <3>2
      <3>. QED BY <3>1, <3>2
    <2>7. Result(id) \in Block
      BY <2>5, ResultIs
    <2>8. Deciphers(T, b, e.res)
      <3>. HIDE DEF id
      <3>. QED BY <2>4, <2>5 DEF Deciphers
    <2>. QED BY <2>4, <2>6, <2>7, <2>8
  <1>. QED BY <1>3, <1>4

\* One step of unwrapping anything.
Unwound(T, n, t, d, e) ==
  \E u \in Bytes(Half), v \in Bytes(Half) :
    /\ Deciphers(T, XorBytes(d.iv, Count(t + 1)) \o Semi(d.out, t % n), u \o v)
    /\ e.iv = u /\ e.out = Replaced(d.out, t % n, v)

\* A state of it.
IsWinding(T, n, d) ==
  /\ IsState(d) /\ Grown(T, d.table) /\ d.iv \in Bytes(Half) /\ d.out \in Bytes(n * Half)

LEMMA UnwrapAny ==
  ASSUME NEW T, IsTable(T), NEW n \in Nat, n >= 2, NEW t \in Nat,
         NEW d, IsWinding(T, n, d), NEW e, e = UnwrapTurn(d, t, n)
  PROVE  IsWinding(T, n, e) /\ Unwound(T, n, t, d, e)
  <1>1. PICK j : j = t % n /\ j \in Nat /\ j < n
    BY Remainder
  <1>2. PICK o, a : o = d.out /\ a = d.iv
    OBVIOUS
  <1>3. /\ IsState(d) /\ Grown(T, d.table) /\ a \in Bytes(Half) /\ o \in Bytes(n * Half)
    BY <1>2 DEF IsWinding
  <1>4. PICK w : w = Semi(o, j)
    OBVIOUS
  <1>5. w \in Bytes(Half) /\ Piece(o, j * Half, Half) = w
    BY <1>1, <1>3, <1>4, SemiIs
  <1>6. PICK k \in Nat : k = t + 1
    OBVIOUS
  <1>7. PICK x : x = XorBytes(a, Count(k))
    OBVIOUS
  <1>8. x \in Bytes(Half)
    BY <1>3, <1>7, CountIs, XorIs, HalfSize
  <1>9. PICK b : b = x \o w
    OBVIOUS
  <1>10. b \in Block
    BY <1>5, <1>8, <1>9, HalvesJoin
  <1>11. PICK h : h = Decrypted(d, b)
    OBVIOUS
  <1>12. /\ IsState(h) /\ Grown(T, h.table) /\ h.iv = d.iv /\ h.out = d.out
         /\ h.res \in Block /\ Deciphers(T, b, h.res)
    BY <1>3, <1>10, <1>11, DecryptedAny
  <1>13. PICK y : y = h.res
    OBVIOUS
  <1>14. PICK u \in Bytes(Half), v \in Bytes(Half) :
           y = u \o v /\ u = Piece(y, 0, Half) /\ v = Piece(y, Half, Half) /\ u[1] = y[1]
    BY <1>12, <1>13, HalvesOf
  <1>15. e = [h EXCEPT !.iv = Piece(h.res, 0, Half),
                       !.out = Replaced(@, j, Piece(h.res, Half, Half))]
    <2>1. h = Decrypted(d, XorBytes(d.iv, Count(k)) \o Piece(d.out, j * Half, Half))
      BY <1>2, <1>5, <1>7, <1>9, <1>11
    <2>. QED BY <1>1, <1>6, <2>1, Zenon DEF UnwrapTurn
  <1>16. PICK z : z = Replaced(o, j, v)
    OBVIOUS
  <1>17. e = [table |-> h.table, res |-> h.res, out |-> z, iv |-> u]
    BY <1>2, <1>12, <1>13, <1>14, <1>15, <1>16 DEF IsState
  <1>18. e.table = h.table /\ e.out = z /\ e.iv = u /\ IsState(e)
    BY <1>17 DEF IsState
  <1>19. z \in Bytes(n * Half)
    BY <1>1, <1>3, <1>16, ReplacedIs
  <1>20. IsWinding(T, n, e)
    BY <1>12, <1>18, <1>19 DEF IsWinding
  <1>21. Unwound(T, n, t, d, e)
    <2>1. Deciphers(T, XorBytes(d.iv, Count(t + 1)) \o Semi(d.out, t % n), u \o v)
      BY <1>1, <1>2, <1>4, <1>6, <1>7, <1>9, <1>12, <1>13, <1>14, Zenon
    <2>2. e.iv = u /\ e.out = Replaced(d.out, t % n, v)
      BY <1>1, <1>2, <1>16, <1>18
    <2>. QED BY <2>1, <2>2 DEF Unwound
  <1>. QED BY <1>20, <1>21

\* What AES gives back begins with the mark of one step only: the step before
\* the entry of the table.
LEMMA MarkTells ==
  ASSUME NEW n \in Nat, n >= 2, NEW f, Wrapping(f, n), NEW T, T = f[6 * n].table,
         NEW t \in Nat, t < 6 * n, NEW b, NEW y, y[1] = Mark(t), Deciphers(T, b, y)
  PROVE  b = Result(t + 1)
  <1>1. ASSUME NEW i \in Nat, y = Result(i) PROVE FALSE
    <2>1. Mark(t) = {[of |-> <<"aes", i>>, at |-> 1]}
      BY <1>1, ResultIs
    <2>. QED BY <2>1, Marks
  <1>2. PICK i \in 1..Len(T) : b = Result(i) /\ y = T[i].of
    BY <1>1 DEF Deciphers
  <1>3. Len(T) = 6 * n /\ 6 * n \in Nat
    <2>1. Len(f[6 * n].table) = 6 * n
      BY WrappedIs
    <2>2. 6 * n \in Nat
      OBVIOUS
    <2>. QED BY <2>1, <2>2
  <1>4. PICK k \in Nat : i = k + 1 /\ k < 6 * n /\ k \in 0..6 * n
    <2>1. i - 1 \in Nat /\ i = (i - 1) + 1 /\ i - 1 < 6 * n /\ i - 1 \in 0..6 * n
      BY <1>3
    <2>. QED BY <2>1
  <1>5. PICK a, v, j : a = f[k].iv /\ j = k % n /\ v = Semi(f[k].out, j)
    OBVIOUS
  <1>6. y = a \o v
    <2>1. T[k + 1].of = f[k].iv \o Semi(f[k].out, k % n)
      BY <1>4, WrappedIs
    <2>. QED BY <1>2, <1>4, <1>5, <2>1
  <1>7. a \in Bytes(Half) /\ a[1] = Mark(k) /\ f[k].out \in Bytes(n * Half)
    BY <1>4, <1>5 DEF Wrapping, WrapAt
  <1>8. j \in Nat /\ j < n
    BY <1>5, Remainder
  <1>9. v \in Bytes(Half)
    BY <1>5, <1>7, <1>8, SemiIs
  <1>10. y[1] = a[1]
    BY <1>6, <1>7, <1>9, HalvesJoin
  <1>11. k = t
    BY <1>7, <1>10, Marks
  <1>. QED BY <1>2, <1>4, <1>11

\* Where unwrapping came to what wrapping was at after step t, it came from what
\* wrapping was at one step later.
LEMMA UnwrapUp ==
  ASSUME NEW n \in Nat, n >= 2, NEW f, Wrapping(f, n), NEW T, T = f[6 * n].table,
         NEW t \in Nat, t < 6 * n, NEW d, IsWinding(T, n, d), NEW e, Unwound(T, n, t, d, e),
         e.iv = f[t].iv, \A k \in Nat : k < n /\ k < t => Semi(e.out, k) = Semi(f[t].out, k)
  PROVE  /\ d.iv = f[t + 1].iv
         /\ \A k \in Nat : k < n /\ k < t + 1 => Semi(d.out, k) = Semi(f[t + 1].out, k)
  <1>1. PICK j : j = t % n /\ j \in Nat /\ j < n /\ (t < n => j = t)
    BY Remainder
  <1>2. PICK h \in Nat : h = t + 1 /\ h # 0
    OBVIOUS
  <1>3. PICK a, o, x : a = d.iv /\ o = d.out /\ x = f[t].out
    OBVIOUS
  <1>4. a \in Bytes(Half) /\ o \in Bytes(n * Half)
    BY <1>3 DEF IsWinding
  <1>5. f[t].iv[1] = Mark(t) /\ x \in Bytes(n * Half)
    <2>1. t \in 0..6 * n
      OBVIOUS
    <2>. QED BY <1>3, <2>1 DEF Wrapping, WrapAt
  <1>6. PICK p, q : p = XorBytes(a, Count(h)) /\ q = Semi(o, j)
    OBVIOUS
  <1>7. p \in Bytes(Half) /\ q \in Bytes(Half)
    BY <1>1, <1>2, <1>4, <1>6, SemiIs, CountIs, XorIs, HalfSize
  <1>8. PICK u \in Bytes(Half), v \in Bytes(Half) :
          Deciphers(T, p \o q, u \o v) /\ e.iv = u /\ e.out = Replaced(o, j, v)
    BY <1>1, <1>2, <1>3, <1>6 DEF Unwound
  <1>9. (u \o v)[1] = Mark(t)
    <2>1. (u \o v)[1] = u[1]
      <3>1. PICK y : y = u \o v
        OBVIOUS
      <3>2. y[1] = u[1]
        BY <3>1, HalvesJoin
      <3>. QED BY <3>1, <3>2
    <2>. QED BY <1>5, <1>8, <2>1
  <1>10. p \o q = Result(h)
    BY <1>2, <1>8, <1>9, MarkTells
  <1>11. PICK r : r = Result(h)
    OBVIOUS
  <1>12. Piece(r, 0, Half) = p /\ Piece(r, Half, Half) = q
    <2>1. r = p \o q
      BY <1>10, <1>11
    <2>. QED BY ONLY <1>7, <2>1, HalvesJoin
  <1>13. f[h].iv = IvAt(h) /\ f[h].out = Replaced(x, j, q)
    BY <1>1, <1>2, <1>3, <1>11, <1>12 DEF Wrapping, WrapStep
  <1>14. a = f[h].iv
    <2>1. XorBytes(p, Count(h)) = a
      BY <1>2, <1>4, <1>6, CountIs, XorTwice, HalfSize
    <2>. QED BY <1>11, <1>12, <1>13, <2>1 DEF IvAt
  <1>15. PICK w : w = f[h].out
    OBVIOUS
  <1>16. /\ Semi(w, j) = q
         /\ \A k \in Nat : k < n /\ k # j => Semi(w, k) = Semi(x, k)
    BY <1>1, <1>5, <1>7, <1>13, <1>15, ReplacedIs
  <1>17. PICK z : z = e.out
    OBVIOUS
  <1>18. \A k \in Nat : k < n /\ k # j => Semi(z, k) = Semi(o, k)
    BY <1>1, <1>4, <1>8, <1>17, ReplacedIs
  <1>19. ASSUME NEW k \in Nat, k < n, k < t + 1 PROVE Semi(o, k) = Semi(w, k)
    <2>1. CASE k = j
      BY <1>6, <1>16, <2>1
    <2>2. CASE k # j
      <3>1. k < t
        BY <1>1, <1>19, <2>2
      <3>2. Semi(z, k) = Semi(x, k)
        BY <1>3, <1>17, <1>19, <3>1
      <3>. QED BY <1>16, <1>18, <1>19, <2>2, <3>2
    <2>. QED BY <2>1, <2>2
  <1>. QED BY <1>2, <1>3, <1>14, <1>15, <1>19

\* lc_aes_kw_decrypt of anything else of that length.
LEMMA KwRejects ==
  ASSUME NEW s, IsState(s), NEW m, NEW c, IsWrapped(s.table, m, c),
         NEW d \in Seq(Byte), Len(d) = Len(c),
         s.iv = Piece(d, 0, Half), NEW in, in = Piece(d, Half, Len(d) - Half),
         KwUnwrap(s, in).iv = KwIv
  PROVE  d = c
  <1>1. PICK n \in Nat : \E f :
          /\ n >= 2 /\ Wrapping(f, n) /\ f[0].out = m
          /\ s.table = f[6 * n].table /\ c = f[6 * n].iv \o f[6 * n].out
    BY DEF IsWrapped
  <1>2. PICK f :
          /\ n >= 2 /\ Wrapping(f, n) /\ f[0].out = m
          /\ s.table = f[6 * n].table /\ c = f[6 * n].iv \o f[6 * n].out
    BY <1>1
  <1>. PICK M \in Nat : M = 6 * n
    OBVIOUS
  <1>. PICK l \in Nat : l = n * Half
    BY HalfMultiples
  <1>3. PICK T : M = 6 * n /\ T = s.table
    OBVIOUS
  <1>4. PICK a, o : a = f[M].iv /\ o = f[M].out /\ l = n * Half
    OBVIOUS
  <1>5. a \in Bytes(Half) /\ o \in Bytes(l) /\ IsTable(T) /\ T = f[M].table
    BY <1>2, <1>3, <1>4, WrappedIs
  <1>6. Len(c) = Half + l
    <2>1. c = a \o o
      BY <1>2, <1>3, <1>4
    <2>2. IsCut(c, Half, l, a, o)
      BY <1>5, <2>1, CutIs, HalfSize
    <2>. QED BY <2>2 DEF IsCut
  <1>7. Len(d) = Half + l /\ Len(d) - Half = l
    BY <1>6, HalfSize
  <1>8. s.iv \in Bytes(Half) /\ in \in Bytes(l) /\ d = s.iv \o in
    <2>1. PICK h \in Nat : h = Half
      BY HalfSize
    <2>2. Len(d) = h + l
      BY <1>7, <2>1
    <2>3. /\ Piece(d, 0, h) \in Bytes(h) /\ Piece(d, h, l) \in Bytes(l)
          /\ d = Piece(d, 0, h) \o Piece(d, h, l)
      BY <2>2, CutOf, Zenon
    <2>. QED BY <1>7, <2>1, <2>3
  <1>9. n = Len(in) \div Half
    <2>1. Len(in) = l
      BY <1>8, BytesAreSeq
    <2>2. l \div Half = n
      BY <1>4, HalfSize
    <2>. QED BY <2>1, <2>2
  <1>10. PICK g : IsUnwrap(s, in, n, M, g) /\ KwUnwrap(s, in) = g[0]
    <2>1. \E g : IsUnwrap(s, in, n, 6 * n, g) /\ KwUnwrap(s, in) = g[0]
      <3>1. n >= 2 /\ n \in Nat
        BY <1>2
      <3>. QED BY ONLY <1>9, <3>1, KwUnwraps
    <2>. QED BY <1>3, <2>1, Zenon
  <1>11. /\ g[M] = [table |-> s.table, res |-> s.res, out |-> in, iv |-> s.iv]
         /\ \A t \in Nat : t < M => g[t] = UnwrapTurn(g[t + 1], t, n)
    <2>1. IsUnwrap(s, in, n, M, g) /\ IsState(s)
      BY <1>10
    <2>2. Undone(s, in, n, M, g)
      BY ONLY M \in Nat, <2>1, UnwrapStart
    <2>. QED BY <2>2 DEF Undone
  <1>. DEFINE W == {k \in Nat : k <= M => IsWinding(T, n, g[M - k])}
  <1>12. 0 \in W
    <2>1. PICK x : x = g[M]
      OBVIOUS
    <2>2. IsState(x) /\ x.table = T /\ x.iv = s.iv /\ x.out = in
      BY <1>3, <1>11, <2>1 DEF IsState
    <2>3. Grown(T, T)
      <3>. DEFINE E == [dir : {"enc"}, of : Block]
                  F == [dir : {"enc", "dec"}, of : Block]
      <3>1. T \in Seq(E)
        BY <1>5 DEF IsTable
      <3>2. E \subseteq F
        OBVIOUS
      <3>. HIDE DEF E, F
      <3>3. Len(T) \in Nat /\ \A i \in 1..Len(T) : T[i] \in F
        BY <3>1, <3>2
      <3>4. T \in Seq(F)
        BY <3>1, <3>2
      <3>5. \A i \in 1..Len(T) : ~ (i > Len(T))
        BY <3>3
      <3>6. Len(T) <= Len(T)
        BY <3>3
      <3>. QED BY <3>4, <3>5, <3>6 DEF Grown, F
    <2>4. IsWinding(T, n, x)
      BY <1>4, <1>8, <2>2, <2>3 DEF IsWinding
    <2>5. M - 0 = M
      OBVIOUS
    <2>. QED BY <2>1, <2>4, <2>5
  <1>13. ASSUME NEW k \in Nat, k \in W PROVE k + 1 \in W
    <2>. SUFFICES ASSUME k + 1 <= M PROVE IsWinding(T, n, g[M - (k + 1)])
      OBVIOUS
    <2>1. PICK t \in Nat : t = M - (k + 1) /\ t + 1 = M - k /\ t < M
      <3>1. M - (k + 1) \in Nat /\ (M - (k + 1)) + 1 = M - k /\ M - (k + 1) < M
        OBVIOUS
      <3>. QED BY <3>1
    <2>2. IsWinding(T, n, g[t + 1])
      BY <1>13, <2>1
    <2>3. g[t] = UnwrapTurn(g[t + 1], t, n)
      BY <1>11, <2>1
    <2>4. IsWinding(T, n, g[t])
      BY <1>2, <1>5, <2>2, <2>3, UnwrapAny
    <2>. QED BY <2>1, <2>4
  <1>. HIDE DEF W
  <1>14. \A k \in Nat : k \in W
    BY <1>12, <1>13, SetInduction
  <1>15. ASSUME NEW t \in Nat, t <= M PROVE IsWinding(T, n, g[t])
    <2>1. M - t \in Nat /\ M - t <= M /\ M - (M - t) = t
      BY <1>15
    <2>. QED BY <1>14, <2>1 DEF W
  <1>16. ASSUME NEW t \in Nat, t < M PROVE Unwound(T, n, t, g[t + 1], g[t])
    <2>1. t + 1 \in Nat /\ t + 1 <= M
      BY <1>16
    <2>2. IsWinding(T, n, g[t + 1])
      BY <1>15, <2>1
    <2>3. g[t] = UnwrapTurn(g[t + 1], t, n)
      BY <1>11, <1>16
    <2>. QED BY <1>2, <1>5, <2>2, <2>3, UnwrapAny
  <1>. DEFINE P(t) == /\ g[t].iv = f[t].iv
                      /\ \A k \in Nat : k < n /\ k < t => Semi(g[t].out, k) = Semi(f[t].out, k)
              S == {t \in Nat : t <= M => P(t)}
  <1>17. 0 \in S
    <2>1. g[0].iv = f[0].iv
      BY <1>2, <1>10 DEF Wrapping
    <2>2. \A k \in Nat : ~ (k < 0)
      OBVIOUS
    <2>. QED BY <2>1, <2>2
  <1>18. ASSUME NEW t \in Nat, t \in S PROVE t + 1 \in S
    <2>. SUFFICES ASSUME t + 1 <= M PROVE P(t + 1)
      OBVIOUS
    <2>1. t < M /\ t + 1 \in Nat
      OBVIOUS
    <2>2. P(t)
      BY <1>18, <2>1
    <2>3. PICK x, y : x = g[t + 1] /\ y = g[t]
      OBVIOUS
    <2>4. IsWinding(T, n, x) /\ Unwound(T, n, t, x, y)
      BY <1>15, <1>16, <2>1, <2>3
    <2>5. y.iv = f[t].iv /\ \A k \in Nat : k < n /\ k < t => Semi(y.out, k) = Semi(f[t].out, k)
      BY <2>2, <2>3
    <2>6. n >= 2 /\ Wrapping(f, n) /\ T = f[6 * n].table /\ t < 6 * n
      BY <1>2, <1>3, <2>1
    <2>7. /\ x.iv = f[t + 1].iv
          /\ \A k \in Nat : k < n /\ k < t + 1 => Semi(x.out, k) = Semi(f[t + 1].out, k)
      BY ONLY n \in Nat, t \in Nat, <2>4, <2>5, <2>6, UnwrapUp
    <2>. QED BY <2>3, <2>7
  <1>. HIDE DEF S
  <1>19. M \in S
    BY <1>17, <1>18, SetInduction
  <1>20. P(M)
    <2>. HIDE DEF P
    <2>. QED BY <1>19 DEF S
  <1>21. s.iv = a
    BY <1>4, <1>11, <1>20
  <1>22. \A k \in Nat : k < n => k < M
    BY <1>3
  <1>23. ASSUME NEW k \in Nat, k < n PROVE Semi(in, k) = Semi(o, k)
    <2>1. Semi(g[M].out, k) = Semi(f[M].out, k)
      BY <1>20, <1>22, <1>23
    <2>2. g[M].out = in
      BY <1>11
    <2>. QED BY <1>4, <2>1, <2>2
  <1>24. in = o
    BY SMTT(40), <1>4, <1>5, <1>8, <1>23, SameSemis
  <1>. QED BY <1>2, <1>3, <1>4, <1>8, <1>21, <1>24

-----------------------------------------------------------------------------
(* The calls of sym.c.                                                     *)

\* A length behind whole blocks.
LEMMA Sums ==
  ASSUME NEW a \in Nat, NEW n \in Nat, NEW l, l = a * BS + n
  PROVE  l \in Nat /\ l % BS = n % BS /\ l \div BS = a + (n \div BS)
  <1>1. PICK q \in Nat, r \in Nat :
          q = n \div BS /\ r = n % BS /\ n = q * BS + r /\ r < BS
    BY Parts
  <1>2. PICK x \in Nat, y \in Nat : x = a * BS /\ y = q * BS /\ (a + q) * BS = x + y
    BY ZenonT(60), Multiples
  <1>3. l = (a + q) * BS + r /\ l \in Nat
    <2>1. l = x + n /\ n = y + r
      BY <1>1, <1>2
    <2>2. x + n = (x + y) + r /\ x + n \in Nat
      BY <1>2, <2>1
    <2>. QED BY <1>2, <2>1, <2>2
  <1>4. l \div BS = a + q /\ l % BS = r
    BY <1>1, <1>3, PartsAre
  <1>. QED BY <1>1, <1>3, <1>4

LEMMA EncryptGives ==
  ASSUME modeOf \in Chained, NEW s, IsOn(modeOf, s), NEW in \in Seq(Byte),
         Fits(modeOf, Len(in))
  PROVE  Gives(modeOf, s, in, Encrypt(s, in))
  <1>1. CASE modeOf = "cbc"
    <2>1. Encrypt(s, in) = CbcEncrypt(s, in)
      BY <1>1 DEF Encrypt
    <2>2. Len(in) % BS = 0 /\ IsOn("cbc", s)
      BY <1>1 DEF Fits
    <2>. QED BY <1>1, <2>1, <2>2, CbcGives
  <1>2. CASE modeOf = "ctr"
    <2>1. Encrypt(s, in) = CtrCrypt(s, in)
      BY <1>2 DEF Encrypt
    <2>. QED BY <1>2, <2>1, CtrGives
  <1>3. CASE modeOf = "xts"
    <2>1. Encrypt(s, in) = XtsEncrypt(s, in)
      BY <1>3 DEF Encrypt
    <2>2. (Len(in) = 0 \/ Len(in) >= BS) /\ IsOn("xts", s)
      BY <1>3 DEF Fits
    <2>. QED BY <1>3, <2>1, <2>2, XtsGives
  <1>. QED BY <1>1, <1>2, <1>3 DEF Chained

LEMMA DecryptOpens ==
  ASSUME modeOf \in Chained, NEW s, IsOn(modeOf, s), NEW m, NEW in,
         IsCipher(modeOf, s.table, s.iv, m, in)
  PROVE  Opens(modeOf, s, in, m, Decrypt(s, in))
  <1>1. CASE modeOf = "cbc"
    <2>1. Decrypt(s, in) = CbcDecrypt(s, in)
      BY <1>1 DEF Decrypt
    <2>. QED BY <1>1, <2>1, CbcOpens
  <1>2. CASE modeOf = "ctr"
    <2>1. Decrypt(s, in) = CtrCrypt(s, in)
      BY <1>2 DEF Decrypt
    <2>. QED BY <1>2, <2>1, CtrOpens
  <1>3. CASE modeOf = "xts"
    <2>1. Decrypt(s, in) = XtsDecrypt(s, in)
      BY <1>3 DEF Decrypt
    <2>. QED BY <1>3, <2>1, XtsOpens
  <1>. QED BY <1>1, <1>2, <1>3 DEF Chained

LEMMA ForgetIs ==
  ASSUME NEW r, IsState(r)
  PROVE  IsState(Forget(r)) /\ Forget(r).table = r.table /\ Forget(r).iv = r.iv
  <1>1. Forget(r) = [r EXCEPT !.res = <<>>, !.out = <<>>]
    BY DEF Forget
  <1>2. Forget(r) = [table |-> r.table, res |-> <<>>, out |-> <<>>, iv |-> r.iv]
    BY <1>1 DEF IsState
  <1>. QED BY <1>2 DEF IsState

\* What a chained mode starts with.
StartIv(mode) == IF mode = "cbc" THEN Named(<<"iv", 0>>, BS) ELSE 1

LEMMA SetIvIs ==
  ASSUME NEW T
  PROVE  /\ IsState(SetIv(T)) /\ SetIv(T).table = T
         /\ modeOf \in Chained /\ IsTable(T) =>
              SetIv(T).iv = StartIv(modeOf) /\ IsOn(modeOf, SetIv(T))
  <1>1. PICK s : s = SetIv(T)
    OBVIOUS
  <1>2. s = [table |-> s.table, res |-> s.res, out |-> s.out, iv |-> s.iv] /\ s.table = T
    BY <1>1 DEF SetIv
  <1>3. ASSUME modeOf \in Chained, IsTable(T)
        PROVE  s.iv = StartIv(modeOf) /\ IsOn(modeOf, s)
    <2>1. s.iv = IF modeOf = "cbc" THEN Named(<<"iv", 0>>, BS) ELSE 1
      <3>1. CASE modeOf = "cbc"
        BY <1>1, <3>1 DEF SetIv
      <3>2. CASE modeOf = "ctr"
        BY <1>1, <3>2 DEF SetIv
      <3>3. CASE modeOf = "xts"
        BY <1>1, <3>3 DEF SetIv
      <3>. QED BY <1>3, <3>1, <3>2, <3>3 DEF Chained
    <2>2. Named(<<"iv", 0>>, BS) \in Block
      <3>1. <<"iv", 0>> \in Name \X Nat
        BY DEF Name
      <3>. QED BY <3>1, NamedIs, BlockSize DEF Block
    <2>3. IsIv(modeOf, s.iv)
      BY <2>1, <2>2 DEF IsIv
    <2>. QED BY <1>2, <1>3, <2>1, <2>3 DEF IsOn, IsState, StartIv
  <1>. QED BY <1>1, <1>2, <1>3 DEF IsState

LEMMA StartIvIs ==
  ASSUME NEW mode
  PROVE  IsIv(mode, StartIv(mode)) /\ (mode # "cbc" => StartIv(mode) \in Nat)
  <1>1. <<"iv", 0>> \in Name \X Nat
    BY DEF Name
  <1>2. Named(<<"iv", 0>>, BS) \in Block
    BY <1>1, NamedIs, BlockSize DEF Block
  <1>. QED BY <1>2 DEF IsIv, StartIv

-----------------------------------------------------------------------------
(* The invariant.                                                          *)

\* A chained mode is between two calls where the ciphertext says it is.
ChainedInv ==
  /\ ~changed /\ turn \in {"encrypt", "decrypt"} /\ unwrapped = "none"
  /\ IsOn(modeOf, state)
  /\ IsCipher(modeOf, state.table, StartIv(modeOf), sent, ct)
  /\ Fits(modeOf, Len(sent))
  /\ plain \in Seq(Byte) /\ Len(plain) <= Len(ct)
  /\ modeOf = "cbc" => Len(plain) % BS = 0
  /\ \A i \in 1..Len(plain) : plain[i] = sent[i]
  /\ turn = "encrypt" => plain = <<>>
  /\ LET done == IF turn = "encrypt" THEN Len(sent) ELSE Len(plain)
     IN done % BS = 0 =>
          state.iv = Before(modeOf, StartIv(modeOf), ct, done \div BS)

\* What was wrapped is on its way, as it was or changed.
OnItsWay ==
  \E c \in Seq(Byte) :
    /\ IsWrapped(state.table, sent, c)
    /\ ct \in Seq(Byte) /\ Len(ct) = Len(c) /\ (changed <=> ct # c)

KwInv ==
  /\ turn # "done" => IsState(state) /\ plain = <<>> /\ unwrapped = "none"
  /\ sent = <<>> => turn = "encrypt" /\ ~changed /\ state.table = <<>> /\ ct = <<>>
  /\ sent # <<>> /\ turn # "done" => OnItsWay
  /\ turn = "done" => /\ unwrapped = "ok" <=> ~changed
                      /\ ~changed => plain = sent

ModesInv ==
  /\ modeOf \in ModesUsed
  /\ asked => /\ modeOf \in Chained => ChainedInv
              /\ modeOf = "kw" => KwInv

LEMMA ModesAre ==
  ASSUME ModesInv
  PROVE  modeOf \in Chained \/ modeOf = "kw"
  BY ModesAssumption DEF ModesAssumption, ModesInv, Chained

LEMMA InitInv == ModesInit => ModesInv
  <1>. SUFFICES ASSUME ModesInit PROVE ModesInv
    OBVIOUS
  <1>1. IsTable(<<>>)
    BY DEF IsTable
  <1>2. IsState(state) /\ state.table = <<>>
    BY SetIvIs DEF ModesInit
  <1>3. ASSUME modeOf \in Chained PROVE ChainedInv
    <2>1. state.iv = StartIv(modeOf) /\ IsOn(modeOf, state)
      BY <1>1, <1>3, SetIvIs DEF ModesInit
    <2>2. 0 \div BS = 0 /\ 0 % BS = 0
      BY BlockSize
    <2>3. /\ sent = <<>> /\ ct = <<>> /\ plain = <<>> /\ ~changed
          /\ turn = "encrypt" /\ unwrapped = "none"
      BY DEF ModesInit
    <2>4. Len(<<>>) = 0 /\ <<>> \in Seq(Byte)
      OBVIOUS
    <2>5. IsCipher(modeOf, state.table, StartIv(modeOf), sent, ct)
      <3>1. Full(modeOf, 0) = 0
        BY <2>2 DEF Full
      <3>2. \A k \in Nat : ~ (k < 0)
        OBVIOUS
      <3>. QED BY <2>2, <2>3, <2>4, <3>1, <3>2 DEF IsCipher, IsStream, IsTail
    <2>6. Before(modeOf, StartIv(modeOf), ct, 0) = StartIv(modeOf)
      BY StartIvIs DEF Before
    <2>7. Fits(modeOf, Len(sent))
      BY <2>2, <2>3, <2>4 DEF Fits
    <2>. QED BY <2>1, <2>2, <2>3, <2>4, <2>5, <2>6, <2>7 DEF ChainedInv
  <1>4. KwInv
    BY <1>2 DEF ModesInit, KwInv
  <1>. QED BY <1>3, <1>4 DEF ModesInit, ModesInv

\* lc_sym_encrypt of a chained mode.
LEMMA EncryptStep ==
  ASSUME ModesInv, NEW n \in Nat, SymEncrypt(n), asked', modeOf \in Chained
  PROVE  ChainedInv'
  <1>1. asked /\ Asked(Len(sent), n) /\ modeOf' = modeOf /\ turn = "encrypt"
    BY DEF SymEncrypt
  <1>2. ChainedInv
    BY <1>1 DEF ModesInv
  <1>. PICK iv : iv = StartIv(modeOf)
    OBVIOUS
  <1>3. /\ ~changed /\ unwrapped = "none" /\ IsOn(modeOf, state)
        /\ IsCipher(modeOf, state.table, iv, sent, ct)
        /\ Fits(modeOf, Len(sent)) /\ plain = <<>>
        /\ Len(sent) % BS = 0 => state.iv = Before(modeOf, iv, ct, Len(sent) \div BS)
    BY <1>1, <1>2 DEF ChainedInv
  <1>4. modeOf # "cbc" => iv \in Nat
    BY StartIvIs
  <1>5. /\ sent \in Seq(Byte) /\ ct \in Seq(Byte) /\ Len(ct) = Len(sent)
        /\ Len(sent) \in Nat
    BY <1>3 DEF IsCipher
  <1>6. Len(sent) % BS = 0 /\ Fits(modeOf, n)
    BY <1>1, <1>3 DEF Asked, Fits, Chained
  <1>7. PICK a \in Nat : a = Len(sent) \div BS /\ Len(sent) = a * BS
    <2>1. PICK q \in Nat, r \in Nat :
            /\ q = Len(sent) \div BS /\ r = Len(sent) % BS /\ Len(sent) = q * BS + r
            /\ r < BS /\ q * BS \in Nat
      BY <1>5, LengthParts
    <2>. QED BY <1>6, <2>1
  <1>8. PICK in : in = [i \in 1..n |-> {[of |-> <<"pt", 0>>, at |-> Len(sent) + i]}]
    OBVIOUS
  <1>9. in \in Seq(Byte) /\ Len(in) = n
    <2>1. \A i \in 1..n : {[of |-> <<"pt", 0>>, at |-> Len(sent) + i]} \in Byte
      BY <1>5 DEF Byte, Atom, Name
    <2>2. in \in Bytes(n)
      BY <1>8, <2>1 DEF Bytes
    <2>. QED BY <2>2, BytesAreSeq
  <1>10. PICK r : r = Encrypt(state, in)
    OBVIOUS
  <1>11. /\ state' = Forget(r) /\ sent' = sent \o in /\ ct' = ct \o r.out
         /\ plain' = plain /\ turn' = turn /\ changed' = changed /\ unwrapped' = unwrapped
    <2>1. modeOf # "kw"
      BY DEF Chained
    <2>. QED BY <1>8, <1>10, <2>1 DEF SymEncrypt
  <1>12. Gives(modeOf, state, in, r)
    BY <1>3, <1>6, <1>9, <1>10, EncryptGives
  <1>. PICK T, d, m : T = r.table /\ d = r.out /\ m = state.table
    OBVIOUS
  <1>13. /\ IsOn(modeOf, r) /\ Extends(m, T)
         /\ IsCipher(modeOf, T, state.iv, in, d)
         /\ n % BS = 0 => r.iv = Before(modeOf, state.iv, d, n \div BS)
    BY <1>9, <1>12 DEF Gives
  <1>14. IsTable(T) /\ IsTable(m)
    BY <1>3, <1>13 DEF IsOn
  <1>15. IsCipher(modeOf, T, iv, sent, ct)
    BY <1>3, <1>13, <1>14, CipherStays
  <1>16. IsCipher(modeOf, T, Before(modeOf, iv, ct, a), in, d)
    BY <1>3, <1>6, <1>7, <1>13
  <1>17. /\ IsCipher(modeOf, T, iv, sent \o in, ct \o d)
         /\ Len(in) % BS = 0 =>
              Before(modeOf, iv, ct \o d, Len(sent \o in) \div BS)
                = Before(modeOf, Before(modeOf, iv, ct, a), d, Len(in) \div BS)
    <2>1. PICK mode, m1, c1 : mode = modeOf /\ m1 = sent /\ c1 = ct
      OBVIOUS
    <2>2. /\ IsCipher(mode, T, iv, m1, c1) /\ Len(m1) = a * BS
          /\ IsCipher(mode, T, Before(mode, iv, c1, a), in, d)
          /\ mode # "cbc" => iv \in Nat
      BY <1>4, <1>7, <1>15, <1>16, <2>1
    <2>3. /\ IsCipher(mode, T, iv, m1 \o in, c1 \o d)
          /\ Len(in) % BS = 0 =>
               Before(mode, iv, c1 \o d, Len(m1 \o in) \div BS)
                 = Before(mode, Before(mode, iv, c1, a), d, Len(in) \div BS)
      BY ONLY a \in Nat, <2>2, CipherJoins
    <2>. QED BY <2>1, <2>3
  <1>18. IsState(r) /\ Forget(r).table = T /\ Forget(r).iv = r.iv /\ IsState(Forget(r))
    BY <1>13, ForgetIs DEF IsOn
  <1>19. IsOn(modeOf, Forget(r))
    BY <1>13, <1>18 DEF IsOn
  <1>20. Len(sent') = a * BS + n
    <2>1. Len(sent \o in) = Len(sent) + Len(in)
      BY <1>5, <1>9
    <2>. QED BY <1>7, <1>9, <1>11, <2>1
  <1>21. Len(sent') % BS = n % BS /\ Len(sent') \in Nat
    BY <1>20, Sums
  <1>22. Fits(modeOf, Len(sent'))
    <2>1. Len(sent') = Len(sent) + n
      BY <1>7, <1>20
    <2>2. modeOf = "cbc" => Len(sent') % BS = 0
      BY <1>6, <1>21 DEF Fits
    <2>3. ASSUME modeOf = "xts" PROVE Len(sent') = 0 \/ Len(sent') >= BS
      <3>1. (Len(sent) = 0 \/ Len(sent) >= BS) /\ (n = 0 \/ n >= BS)
        BY <1>3, <1>6, <2>3 DEF Fits
      <3>. QED BY <1>5, <2>1, <3>1, BlockSize
    <2>. QED BY <2>2, <2>3 DEF Fits
  <1>23. Len(sent') % BS = 0 => state'.iv = Before(modeOf, iv, ct', Len(sent') \div BS)
    <2>. SUFFICES ASSUME Len(sent') % BS = 0
                  PROVE  state'.iv = Before(modeOf, iv, ct', Len(sent') \div BS)
      OBVIOUS
    <2>1. state.iv = Before(modeOf, iv, ct, a)
      BY <1>3, <1>6, <1>7
    <2>2. r.iv = Before(modeOf, state.iv, d, n \div BS)
      BY <1>13, <1>21
    <2>3. Before(modeOf, iv, ct', Len(sent') \div BS)
            = Before(modeOf, Before(modeOf, iv, ct, a), d, n \div BS)
      BY <1>9, <1>11, <1>17, <1>21
    <2>. QED BY <1>11, <1>18, <2>1, <2>2, <2>3
  <1>24. \A i \in 1..Len(<<>>) : FALSE
    OBVIOUS
  <1>25. plain' = <<>> /\ <<>> \in Seq(Byte) /\ Len(<<>>) = 0 /\ Len(<<>>) % BS = 0
    BY <1>3, <1>11, BlockSize
  <1>26. Len(plain') <= Len(ct')
    <2>1. Len(ct') \in Nat
      BY <1>11, <1>17 DEF IsCipher
    <2>. QED BY <1>25, <2>1
  <1>27. IsCipher(modeOf, state'.table, StartIv(modeOf), sent', ct')
    BY <1>11, <1>17, <1>18
  <1>. QED BY <1>1, <1>3, <1>11, <1>19, <1>22, <1>23, <1>24, <1>25, <1>26, <1>27
           DEF ChainedInv

\* lc_sym_decrypt.
LEMMA DecryptStep ==
  ASSUME ModesInv, NEW n \in Nat, SymDecrypt(n), asked', modeOf \in Chained
  PROVE  ChainedInv'
  <1>1. /\ asked /\ Asked(Len(plain), n) /\ LeavesABlock(n) /\ modeOf' = modeOf
        /\ turn = "decrypt" /\ Len(plain) + n <= Len(ct)
    BY DEF SymDecrypt
  <1>2. ChainedInv
    BY <1>1 DEF ModesInv
  <1>. PICK iv : iv = StartIv(modeOf)
    OBVIOUS
  <1>3. /\ ~changed /\ unwrapped = "none" /\ IsOn(modeOf, state)
        /\ IsCipher(modeOf, state.table, iv, sent, ct)
        /\ Fits(modeOf, Len(sent)) /\ plain \in Seq(Byte)
        /\ modeOf = "cbc" => Len(plain) % BS = 0
        /\ \A i \in 1..Len(plain) : plain[i] = sent[i]
        /\ Len(plain) % BS = 0 => state.iv = Before(modeOf, iv, ct, Len(plain) \div BS)
    BY <1>1, <1>2 DEF ChainedInv
  <1>4. modeOf # "cbc" => iv \in Nat
    BY StartIvIs
  <1>5. /\ sent \in Seq(Byte) /\ ct \in Seq(Byte) /\ Len(ct) = Len(sent)
        /\ Len(sent) \in Nat /\ Len(plain) \in Nat
    BY <1>3 DEF IsCipher
  <1>6. Len(plain) % BS = 0 /\ Fits(modeOf, n)
    BY <1>1, <1>3 DEF Asked, Fits, Chained
  <1>7. PICK a \in Nat : a = Len(plain) \div BS /\ Len(plain) = a * BS
    <2>1. PICK q \in Nat, r \in Nat :
            /\ q = Len(plain) \div BS /\ r = Len(plain) % BS /\ Len(plain) = q * BS + r
            /\ r < BS /\ q * BS \in Nat
      BY <1>3, LengthParts
    <2>. QED BY <1>6, <2>1
  <1>8. PICK left \in Nat : left = Len(ct) - Len(plain) - n /\ a * BS + n + left = Len(ct)
    <2>1. Len(ct) - Len(plain) - n \in Nat
      BY <1>1, <1>5
    <2>2. Len(plain) + n + (Len(ct) - Len(plain) - n) = Len(ct)
      BY <1>5
    <2>. QED BY <1>7, <2>1, <2>2
  <1>9. Leaves(modeOf, n, left)
    BY <1>1, <1>8 DEF LeavesABlock, Leaves
  <1>10. PICK in, p : in = Piece(ct, a * BS, n) /\ p = Piece(sent, a * BS, n)
    OBVIOUS
  <1>11. IsTable(state.table)
    BY <1>3 DEF IsOn
  <1>12. /\ IsCipher(modeOf, state.table, Before(modeOf, iv, ct, a), p, in)
         /\ n % BS = 0 => Before(modeOf, Before(modeOf, iv, ct, a), in, n \div BS)
                            = Before(modeOf, iv, ct, a + n \div BS)
    BY <1>3, <1>4, <1>6, <1>8, <1>9, <1>10, <1>11, CipherSplits
  <1>13. state.iv = Before(modeOf, iv, ct, a)
    BY <1>3, <1>6, <1>7
  <1>14. PICK r : r = Decrypt(state, in)
    OBVIOUS
  <1>15. Opens(modeOf, state, in, p, r)
    <2>1. IsCipher(modeOf, state.table, state.iv, p, in)
      BY <1>12, <1>13
    <2>. QED BY <1>3, <1>14, <2>1, DecryptOpens
  <1>16. /\ state' = Forget(r) /\ plain' = plain \o r.out /\ sent' = sent /\ ct' = ct
         /\ turn' = turn /\ changed' = changed /\ unwrapped' = unwrapped
    BY <1>7, <1>10, <1>14 DEF SymDecrypt
  <1>17. /\ p \in Seq(Byte) /\ Len(p) = n /\ \A i \in 1..n : p[i] = sent[a * BS + i]
         /\ in \in Seq(Byte) /\ Len(in) = n
    <2>1. a * BS \in Nat /\ a * BS + n <= Len(ct)
      BY <1>1, <1>5, <1>7
    <2>2. p \in Bytes(n) /\ \A i \in 1..n : p[i] = sent[a * BS + i]
      BY <1>5, <1>10, <2>1, PieceIs
    <2>3. in \in Bytes(n)
      BY <1>5, <1>10, <2>1, PieceIs
    <2>. QED BY <2>2, <2>3, BytesAreSeq
  <1>18. /\ IsOn(modeOf, r) /\ r.table = state.table /\ r.out = p
         /\ n % BS = 0 => r.iv = Before(modeOf, state.iv, in, n \div BS)
    BY <1>15, <1>17 DEF Opens
  <1>19. /\ plain' \in Seq(Byte) /\ Len(plain') = Len(plain) + n
         /\ \A i \in 1..Len(plain) : plain'[i] = plain[i]
         /\ \A i \in 1..n : plain'[Len(plain) + i] = p[i]
    <2>1. plain' = plain \o p
      BY <1>16, <1>18
    <2>. QED BY <1>3, <1>17, <2>1, CatIs
  <1>20. \A i \in 1..Len(plain') : plain'[i] = sent[i]
    <2>. SUFFICES ASSUME NEW i \in 1..Len(plain') PROVE plain'[i] = sent[i]
      OBVIOUS
    <2>1. CASE i <= Len(plain)
      BY <1>3, <1>5, <1>19, <2>1
    <2>2. CASE i > Len(plain)
      <3>1. PICK k \in 1..n : i = Len(plain) + k
        <4>1. i - Len(plain) \in 1..n /\ i = Len(plain) + (i - Len(plain))
          BY <1>5, <1>19, <2>2
        <4>. QED BY <4>1
      <3>. QED BY <1>7, <1>17, <1>19, <3>1
    <2>3. i <= Len(plain) \/ i > Len(plain)
      BY <1>5, <1>19
    <2>. QED BY <2>1, <2>2, <2>3
  <1>21. IsState(r) /\ Forget(r).table = state.table /\ Forget(r).iv = r.iv /\ IsState(Forget(r))
    BY <1>18, ForgetIs DEF IsOn
  <1>22. IsOn(modeOf, Forget(r))
    BY <1>18, <1>21 DEF IsOn
  <1>23. /\ Len(plain') = a * BS + n /\ Len(plain') % BS = n % BS
         /\ Len(plain') \div BS = a + n \div BS
    <2>1. PICK l : l = Len(plain') /\ l = a * BS + n
      BY <1>7, <1>19
    <2>2. l % BS = n % BS /\ l \div BS = a + n \div BS
      BY <2>1, Sums
    <2>. QED BY <2>1, <2>2
  <1>24. Len(plain') % BS = 0 => state'.iv = Before(modeOf, iv, ct', Len(plain') \div BS)
    BY <1>12, <1>13, <1>16, <1>18, <1>21, <1>23
  <1>25. modeOf = "cbc" => Len(plain') % BS = 0
    BY <1>6, <1>23 DEF Fits
  <1>26. Len(plain') <= Len(ct')
    BY <1>1, <1>16, <1>19
  <1>27. IsCipher(modeOf, state'.table, StartIv(modeOf), sent', ct')
    BY <1>3, <1>16, <1>21
  <1>28. Fits(modeOf, Len(sent')) /\ turn' = "decrypt" /\ ~changed' /\ unwrapped' = "none"
         /\ IsOn(modeOf, state')
    BY <1>1, <1>3, <1>16, <1>22
  <1>29. turn' \in {"encrypt", "decrypt"} /\ turn' # "encrypt"
    BY <1>28
  <1>30. IsOn(modeOf', state') /\ Fits(modeOf', Len(sent'))
    BY <1>1, <1>28
  <1>31. IsCipher(modeOf', state'.table, StartIv(modeOf'), sent', ct')
    BY <1>1, <1>27
  <1>32. Len(plain') % BS = 0 =>
           state'.iv = Before(modeOf', StartIv(modeOf'), ct', Len(plain') \div BS)
    BY <1>1, <1>24
  <1>33. plain' \in Seq(Byte) /\ (modeOf' = "cbc" => Len(plain') % BS = 0)
    BY <1>1, <1>19, <1>25
  <1>34. \A i \in 1..Len(plain') : plain'[i] = sent'[i]
    BY <1>16, <1>20
  <1>. QED BY ONLY <1>26, <1>28, <1>29, <1>30, <1>31, <1>32, <1>33, <1>34 DEF ChainedInv

\* lc_sym_setiv before what arrives is decrypted.
LEMMA TurnStep ==
  ASSUME ModesInv, TurnAround, asked'
  PROVE  ModesInv'
  <1>1. /\ turn = "encrypt" /\ sent # <<>> /\ turn' = "decrypt" /\ state' = SetIv(state.table)
        /\ modeOf' = modeOf /\ sent' = sent /\ ct' = ct /\ plain' = plain
        /\ changed' = changed /\ asked' = asked /\ unwrapped' = unwrapped
    BY DEF TurnAround
  <1>2. IsState(SetIv(state.table)) /\ SetIv(state.table).table = state.table
    BY SetIvIs
  <1>3. ASSUME modeOf \in Chained PROVE ChainedInv'
    <2>1. ChainedInv
      BY <1>1, <1>3 DEF ModesInv
    <2>2. /\ ~changed /\ unwrapped = "none" /\ plain = <<>> /\ IsOn(modeOf, state)
          /\ IsCipher(modeOf, state.table, StartIv(modeOf), sent, ct)
          /\ Fits(modeOf, Len(sent))
      BY <1>1, <2>1 DEF ChainedInv
    <2>3. IsTable(state.table)
      BY <2>2 DEF IsOn
    <2>4. IsOn(modeOf, state') /\ state'.iv = StartIv(modeOf) /\ state'.table = state.table
      BY <1>1, <1>2, <1>3, <2>3, SetIvIs
    <2>5. plain' = <<>> /\ <<>> \in Seq(Byte) /\ Len(<<>>) = 0
      BY <1>1, <2>2
    <2>6. 0 \div BS = 0 /\ 0 % BS = 0
      BY BlockSize
    <2>7. Len(plain') <= Len(ct')
      <3>1. Len(ct) \in Nat
        BY <2>2 DEF IsCipher
      <3>. QED BY <1>1, <2>5, <3>1
    <2>8. state'.iv = Before(modeOf', StartIv(modeOf'), ct', Len(plain') \div BS)
      BY <1>1, <2>4, <2>5, <2>6, StartIvIs DEF Before
    <2>9. \A i \in 1..Len(plain') : plain'[i] = sent'[i]
      BY <2>5
    <2>10. IsCipher(modeOf', state'.table, StartIv(modeOf'), sent', ct')
      BY <1>1, <2>2, <2>4
    <2>11. /\ IsOn(modeOf', state') /\ Fits(modeOf', Len(sent')) /\ ~changed'
           /\ unwrapped' = "none" /\ turn' = "decrypt" /\ turn' # "encrypt"
           /\ plain' \in Seq(Byte) /\ Len(plain') % BS = 0
      BY <1>1, <2>2, <2>4, <2>5, <2>6
    <2>. QED BY ONLY <2>7, <2>8, <2>9, <2>10, <2>11 DEF ChainedInv
  <1>4. ASSUME modeOf = "kw" PROVE KwInv'
    <2>1. KwInv
      BY <1>1, <1>4 DEF ModesInv
    <2>2. OnItsWay'
      <3>1. OnItsWay
        BY <1>1, <2>1 DEF KwInv
      <3>2. state'.table = state.table
        BY <1>1, <1>2
      <3>. QED BY <1>1, <3>1, <3>2 DEF OnItsWay
    <2>3. turn' # "done" /\ sent' # <<>> /\ IsState(state')
      BY <1>1, <1>2
    <2>4. plain' = <<>> /\ unwrapped' = "none"
      BY <1>1, <2>1 DEF KwInv
    <2>. QED BY <2>2, <2>3, <2>4 DEF KwInv
  <1>5. modeOf' \in ModesUsed
    BY <1>1 DEF ModesInv
  <1>. QED BY <1>1, <1>3, <1>4, <1>5 DEF ModesInv

LEMMA WrappedSeq ==
  ASSUME NEW T, NEW m, NEW c, IsWrapped(T, m, c)
  PROVE  c \in Seq(Byte)
  <1>1. PICK n \in Nat : \E f :
          /\ n >= 2 /\ Wrapping(f, n) /\ c = f[6 * n].iv \o f[6 * n].out
    BY DEF IsWrapped
  <1>2. PICK f : n >= 2 /\ Wrapping(f, n) /\ c = f[6 * n].iv \o f[6 * n].out
    BY <1>1
  <1>3. PICK a, o : a = f[6 * n].iv /\ o = f[6 * n].out
    OBVIOUS
  <1>4. a \in Bytes(Half) /\ o \in Bytes(n * Half)
    BY <1>2, <1>3, WrappedIs
  <1>5. PICK l \in Nat : l = n * Half
    BY HalfMultiples
  <1>6. a \in Seq(Byte) /\ o \in Seq(Byte)
    BY <1>4, <1>5, BytesAreSeq, HalfSize
  <1>. QED BY <1>2, <1>3, <1>6, CatIs

\* lc_aes_kw_encrypt.
LEMMA WrapCall ==
  ASSUME ModesInv, NEW n \in Nat, SymEncrypt(n), asked', modeOf = "kw"
  PROVE  KwInv'
  <1>1. /\ asked /\ Asked(Len(sent), n) /\ modeOf' = modeOf /\ turn = "encrypt"
        /\ sent = <<>> /\ n % Half = 0 /\ plain' = plain /\ turn' = turn
        /\ changed' = changed /\ unwrapped' = unwrapped
    BY DEF SymEncrypt
  <1>2. KwInv
    BY <1>1 DEF ModesInv
  <1>3. /\ IsState(state) /\ state.table = <<>> /\ plain = <<>> /\ unwrapped = "none"
        /\ ~changed
    BY <1>1, <1>2 DEF KwInv
  <1>4. PICK k \in Nat : n = k * Half /\ k >= 2
    <2>1. n \div Half \in Nat /\ n = (n \div Half) * Half + (n % Half)
      <3>1. n \div Half \in Nat
        BY HalfSize
      <3>2. n = (n \div Half) * Half + (n % Half)
        BY HalfSize
      <3>. QED BY <3>1, <3>2
    <2>2. n >= 2 * Half
      BY <1>1 DEF Asked
    <2>. PICK k \in Nat : k = n \div Half
      BY <2>1
    <2>3. n = k * Half
      <3>1. PICK x \in Nat : x = k * Half
        BY HalfMultiples
      <3>2. n = x + 0
        BY <1>1, <2>1, <3>1
      <3>. QED BY <3>1, <3>2
    <2>4. ~ (k < 2)
      <3>1. k < 2 => k * Half + Half <= 2 * Half
        BY HalfMultiples
      <3>2. k * Half \in Nat /\ 2 * Half \in Nat
        BY HalfMultiples
      <3>. QED BY <2>2, <2>3, <3>1, <3>2, HalfSize
    <2>. QED BY <2>3, <2>4
  <1>5. PICK in : in = [i \in 1..n |-> {[of |-> <<"pt", 0>>, at |-> Len(sent) + i]}]
    OBVIOUS
  <1>6. in \in Seq(Byte) /\ Len(in) = n
    <2>1. Len(sent) = 0
      BY <1>1
    <2>2. \A i \in 1..n : {[of |-> <<"pt", 0>>, at |-> Len(sent) + i]} \in Byte
      BY <2>1 DEF Byte, Atom, Name
    <2>3. in \in Bytes(n)
      BY <1>5, <2>2 DEF Bytes
    <2>. QED BY <2>3, BytesAreSeq
  <1>7. PICK r, c : r = Encrypt(state, in) /\ c = r.iv \o r.out
    OBVIOUS
  <1>8. state' = Forget(r) /\ sent' = sent \o in /\ ct' = c
    BY <1>5, <1>7 DEF SymEncrypt
  <1>9. r = KwEncrypt(state, in)
    BY <1>7 DEF Encrypt
  <1>10. IsState(r) /\ IsTable(r.table) /\ IsWrapped(r.table, in, c)
    BY <1>3, <1>4, <1>6, <1>7, <1>9, KwGives
  <1>11. IsState(state') /\ state'.table = r.table
    BY <1>8, <1>10, ForgetIs
  <1>12. sent' = in
    <2>1. \A s \in Seq(Byte) : <<>> \o s = s
      OBVIOUS
    <2>. QED BY <1>1, <1>6, <1>8, <2>1
  <1>13. in # <<>>
    <2>1. n # 0
      <3>1. 0 * Half + Half <= k * Half /\ 0 * Half \in Nat /\ k * Half \in Nat
        BY <1>4, HalfMultiples
      <3>. QED BY <1>4, <3>1, HalfSize
    <2>2. Len(<<>>) = 0
      OBVIOUS
    <2>. QED BY <1>6, <2>1, <2>2
  <1>14. OnItsWay'
    <2>1. c \in Seq(Byte) /\ IsWrapped(state'.table, sent', c)
      BY <1>10, <1>11, <1>12, WrappedSeq
    <2>. QED BY <1>1, <1>3, <1>8, <2>1 DEF OnItsWay
  <1>. QED BY <1>1, <1>3, <1>11, <1>12, <1>13, <1>14 DEF KwInv

\* Two bytes change their places.
LEMMA SwapStep ==
  ASSUME ModesInv, NEW i \in 1..MaxLen, SwapBytes(i), asked'
  PROVE  ModesInv'
  <1>1. /\ turn = "encrypt" /\ modeOf = "kw" /\ sent # <<>>
        /\ ~changed /\ i < Len(ct) /\ ct[i] # ct[i + 1]
        /\ ct' = [ct EXCEPT ![i] = ct[i + 1], ![i + 1] = ct[i]]
        /\ changed' = TRUE /\ modeOf' = modeOf /\ state' = state /\ sent' = sent
        /\ plain' = plain /\ turn' = turn /\ asked' = asked /\ unwrapped' = unwrapped
    BY DEF SwapBytes
  <1>2. KwInv
    BY <1>1 DEF ModesInv
  <1>3. OnItsWay
    BY <1>1, <1>2 DEF KwInv
  <1>4. IsWrapped(state.table, sent, ct) /\ ct \in Seq(Byte)
    BY <1>1, <1>3 DEF OnItsWay
  <1>5. i \in Nat /\ i # i + 1 /\ i \in 1..Len(ct) /\ i + 1 \in 1..Len(ct)
    <2>1. MaxLen \in Nat /\ Len(ct) \in Nat
      BY <1>4, ModesAssumption DEF ModesAssumption
    <2>. QED BY <1>1, <2>1
  <1>6. ct' \in Seq(Byte) /\ Len(ct') = Len(ct)
    <2>1. ct[i] \in Byte /\ ct[i + 1] \in Byte
      BY <1>4, <1>5
    <2>. QED BY <1>1, <1>4, <1>5, <2>1
  <1>7. ct'[i] = ct[i + 1]
    BY <1>1, <1>4, <1>5
  <1>8. ct' # ct
    BY <1>1, <1>7
  <1>9. OnItsWay'
    BY <1>1, <1>4, <1>6, <1>8 DEF OnItsWay
  <1>10. KwInv'
    BY <1>1, <1>2, <1>9 DEF KwInv
  <1>11. modeOf' \in ModesUsed /\ modeOf' \notin Chained
    BY <1>1 DEF ModesInv, Chained
  <1>. QED BY <1>10, <1>11 DEF ModesInv

LEMMA KwOpensCt ==
  ASSUME NEW s, IsState(s), IsWrapped(s.table, sent, ct), s.iv = Piece(ct, 0, Half)
  PROVE  LET r == KwUnwrap(s, Piece(ct, Half, Len(ct) - Half)) IN r.iv = KwIv /\ r.out = sent
  <1>1. PICK m, d, in : m = sent /\ d = ct /\ in = Piece(d, Half, Len(d) - Half)
    OBVIOUS
  <1>2. KwUnwrap(s, in).iv = KwIv /\ KwUnwrap(s, in).out = m
    BY <1>1, KwOpens
  <1>. QED BY <1>1, <1>2

\* lc_aes_kw_decrypt.
LEMMA OpenStep ==
  ASSUME ModesInv, KwOpen, asked'
  PROVE  ModesInv'
  <1>. PICK s : s = [state EXCEPT !.iv = Piece(ct, 0, Half)]
    OBVIOUS
  <1>. PICK in : in = Piece(ct, Half, Len(ct) - Half)
    OBVIOUS
  <1>. PICK r : r = KwUnwrap(s, in)
    OBVIOUS
  <1>1. /\ turn = "decrypt" /\ modeOf = "kw" /\ plain' = r.out
        /\ unwrapped' = (IF r.iv = KwIv THEN "ok" ELSE "EBADMSG")
        /\ turn' = "done" /\ modeOf' = modeOf /\ sent' = sent
        /\ changed' = changed /\ asked' = asked
    BY DEF KwOpen
  <1>2. KwInv
    BY <1>1 DEF ModesInv
  <1>3. IsState(state) /\ OnItsWay /\ sent # <<>>
    BY <1>1, <1>2 DEF KwInv
  <1>4. PICK c \in Seq(Byte) :
          /\ IsWrapped(state.table, sent, c)
          /\ ct \in Seq(Byte) /\ Len(ct) = Len(c) /\ (changed <=> ct # c)
    BY <1>3 DEF OnItsWay
  <1>5. IsState(s) /\ s.table = state.table /\ s.iv = Piece(ct, 0, Half)
    <2>1. s = [table |-> state.table, res |-> state.res, out |-> state.out,
               iv |-> Piece(ct, 0, Half)]
      BY <1>3 DEF IsState
    <2>. QED BY <2>1 DEF IsState
  <1>6. ASSUME ~changed PROVE r.iv = KwIv /\ r.out = sent
    <2>1. c = ct
      BY <1>4, <1>6
    <2>2. IsWrapped(s.table, sent, ct)
      BY <1>4, <1>5, <2>1
    <2>3. r = KwUnwrap(s, Piece(ct, Half, Len(ct) - Half))
      OBVIOUS
    <2>. QED BY <1>5, <2>2, <2>3, KwOpensCt
  <1>7. ASSUME r.iv = KwIv PROVE ~changed
    <2>1. IsWrapped(s.table, sent, c)
      BY <1>4, <1>5
    <2>2. PICK m, d : m = sent /\ d = ct
      OBVIOUS
    <2>3. /\ d \in Seq(Byte) /\ Len(d) = Len(c) /\ s.iv = Piece(d, 0, Half)
          /\ in = Piece(d, Half, Len(d) - Half) /\ KwUnwrap(s, in).iv = KwIv
          /\ IsWrapped(s.table, m, c) /\ IsState(s)
      BY <1>4, <1>5, <1>7, <2>1, <2>2
    <2>4. d = c
      BY ONLY <2>3, KwRejects
    <2>. QED BY <1>4, <2>2, <2>4
  <1>8. KwInv'
    <2>1. unwrapped' = "ok" <=> ~changed
      BY <1>1, <1>6, <1>7
    <2>2. ~changed => plain' = sent
      BY <1>1, <1>6
    <2>. QED BY <1>1, <1>3, <2>1, <2>2 DEF KwInv
  <1>9. modeOf' \in ModesUsed /\ modeOf' \notin Chained
    BY <1>1 DEF ModesInv, Chained
  <1>. QED BY <1>8, <1>9 DEF ModesInv

LEMMA ModesStep ==
  ASSUME ModesInv, [ModesNext]_modesVars
  PROVE  ModesInv'
  <1>1. CASE ~ asked'
    <2>1. modeOf' = modeOf
      BY DEF ModesNext, SymEncrypt, SymDecrypt, SwapBytes, TurnAround, KwOpen, modesVars
    <2>. QED BY <1>1, <2>1 DEF ModesInv
  <1>2. ASSUME asked', NEW n \in Cuts, SymEncrypt(n) PROVE ModesInv'
    <2>1. n \in Nat
      BY ModesAssumption DEF ModesAssumption
    <2>2. modeOf' = modeOf
      BY <1>2 DEF SymEncrypt
    <2>3. modeOf \in Chained => ChainedInv'
      BY <1>2, <2>1, EncryptStep
    <2>4. modeOf = "kw" => KwInv'
      BY <1>2, <2>1, WrapCall
    <2>. QED BY <2>2, <2>3, <2>4 DEF ModesInv
  <1>3. ASSUME asked', NEW n \in Cuts, SymDecrypt(n) PROVE ModesInv'
    <2>1. n \in Nat
      BY ModesAssumption DEF ModesAssumption
    <2>2. modeOf' = modeOf /\ modeOf # "kw"
      BY <1>3 DEF SymDecrypt
    <2>3. modeOf \in Chained => ChainedInv'
      BY <1>3, <2>1, DecryptStep
    <2>. QED BY <2>2, <2>3 DEF ModesInv
  <1>4. CASE UNCHANGED modesVars
    BY <1>4 DEF modesVars, ModesInv, ChainedInv, KwInv, OnItsWay
  <1>. QED BY <1>1, <1>2, <1>3, <1>4, SwapStep, TurnStep, OpenStep DEF ModesNext

LEMMA ModesAlways == ModesSpec => []ModesInv
  <1>1. ModesInit => ModesInv
    BY InitInv
  <1>2. ModesInv /\ [ModesNext]_modesVars => ModesInv'
    BY ModesStep
  <1>. QED BY <1>1, <1>2, PTL DEF ModesSpec

-----------------------------------------------------------------------------
(* The theorems.                                                           *)

\* What was encrypted in pieces decrypts in other pieces to the same bytes.
THEOREM ModesDecrypt == ModesSpec => []DecryptsToPlain
  <1>1. ModesInv => DecryptsToPlain
    <2>. SUFFICES ASSUME ModesInv, asked, ~changed
                  PROVE  \A i \in 1..Len(plain) : plain[i] = sent[i]
      BY DEF DecryptsToPlain
    <2>1. CASE modeOf \in Chained
      BY <2>1 DEF ModesInv, ChainedInv
    <2>2. CASE modeOf = "kw"
      <3>1. plain = <<>> \/ plain = sent
        BY <2>2 DEF ModesInv, KwInv
      <3>. QED BY <3>1
    <2>. QED BY <2>1, <2>2, ModesAre
  <1>. QED BY <1>1, ModesAlways, PTL

\* The ciphertext does not depend on how the message was cut.
THEOREM ModesCut == ModesSpec => []CutsDoNotMatter
  <1>1. ModesInv => CutsDoNotMatter
    <2>. SUFFICES ASSUME ModesInv, asked, ~changed, modeOf # "kw"
                  PROVE  ct = Encrypt(SetIv(state.table), sent).out
      BY DEF CutsDoNotMatter
    <2>1. modeOf \in Chained
      BY ModesAre
    <2>2. /\ IsOn(modeOf, state) /\ Fits(modeOf, Len(sent))
          /\ IsCipher(modeOf, state.table, StartIv(modeOf), sent, ct)
      BY <2>1 DEF ModesInv, ChainedInv
    <2>. PICK T, s : T = state.table /\ s = SetIv(T)
      OBVIOUS
    <2>3. IsTable(T) /\ sent \in Seq(Byte)
      BY <2>2 DEF IsOn, IsCipher
    <2>4. IsOn(modeOf, s) /\ s.iv = StartIv(modeOf) /\ s.table = T
      BY <2>1, <2>3, SetIvIs
    <2>5. PICK r : r = Encrypt(s, sent)
      OBVIOUS
    <2>6. Gives(modeOf, s, sent, r)
      BY <2>1, <2>2, <2>3, <2>4, <2>5, EncryptGives
    <2>7. /\ IsTable(r.table) /\ Extends(T, r.table)
          /\ IsCipher(modeOf, r.table, StartIv(modeOf), sent, r.out)
      BY <2>4, <2>6 DEF Gives, IsOn
    <2>8. IsCipher(modeOf, r.table, StartIv(modeOf), sent, ct)
      BY <2>2, <2>3, <2>7, CipherStays
    <2>9. ct = r.out
      BY <2>7, <2>8, CipherOnce
    <2>. QED BY <2>5, <2>9
  <1>. QED BY <1>1, ModesAlways, PTL

\* Key unwrapping reports exactly what was changed.
THEOREM ModesUnwrap == ModesSpec => []UnwrapAuthenticates
  <1>1. ModesInv => UnwrapAuthenticates
    <2>. SUFFICES ASSUME ModesInv, asked, unwrapped # "none"
                  PROVE  unwrapped = "ok" <=> ~changed
      BY DEF UnwrapAuthenticates
    <2>1. modeOf = "kw"
      BY ModesAre DEF ModesInv, ChainedInv
    <2>. QED BY <2>1 DEF ModesInv, KwInv
  <1>. QED BY <1>1, ModesAlways, PTL
=============================================================================
