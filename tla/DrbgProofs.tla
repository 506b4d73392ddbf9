----------------------------- MODULE DrbgProofs -----------------------------
(***************************************************************************)
(* Theorems about Drbg for every request length, every chunk size of the   *)
(* XOF, every size of a ChaCha20 key and every number of calls.            *)
(*                                                                         *)
(* A value is an entry of the table of terms.  That it cannot be computed  *)
(* is shown by a set of sealed values (Sealed): whoever knows none of them *)
(* cannot compute any.  Each of them is a seed or has a sealed argument,   *)
(* and no value outside gives one away: it is a one-way image, or it has no*)
(* sealed argument, or it is the exclusive or of sealed values only.       *)
(* The inductive invariant, DrbgInv, is the shape of a machine between     *)
(* calls, the history of the output with the inputs it was made from, one  *)
(* sealed set that holds the state and no output (FutureIsHidden), and for *)
(* each output one that holds it and neither the state nor another output  *)
(* (PastIsGone).                                                           *)
(***************************************************************************)
EXTENDS Drbg, WellFoundedInduction, FiniteSetTheorems, TLAPS

LEMMA SetInduction ==
  ASSUME NEW S, 0 \in S, \A n \in Nat : n \in S => n + 1 \in S
  PROVE  \A n \in Nat : n \in S
  <1>. DEFINE T == Nat \ S
              R == OpToRel(<, Nat)
  <1>. SUFFICES ASSUME T # {} PROVE FALSE
    OBVIOUS
  <1>1. IsWellFoundedOn(R, Nat)
    BY NatLessThanWellFounded DEF OpToRel
  <1>2. \A m, n \in Nat : m < n => <<m, n>> \in R
    BY DEF OpToRel
  <1>. HIDE DEF R
  <1>3. PICK n \in T : \A m \in T : ~ (<<m, n>> \in R)
    BY <1>1, WFMin
  <1>4. n # 0 /\ n - 1 \in Nat /\ n - 1 < n
    BY <1>3
  <1>5. n - 1 \notin T
    BY <1>2, <1>3, <1>4
  <1>. QED BY <1>3, <1>4, <1>5
-----------------------------------------------------------------------------
(* Tables.                                                                 *)

\* Names of functions, and the values that can stand in a table.
Words == {"zero", "seed", "public", "generate", "instantiate", "reseed", "first", "rest",
          "df", "df0", "add", "hash", "next", "ones", "hmac", "hmac-V", "copy",
          "aes", "xor", "cat", "block", "word"}
Names == Seq(Words \union Nat)
AnyTerm == [f : Names, of : Seq(Nat)]

\* Arguments are older than their value.
IsTable(T) == /\ T \in Seq(AnyTerm) /\ 1 \in DOMAIN T /\ T[1] = Term(F("zero"), <<>>)
              /\ \A i \in DOMAIN T : Args(T[i]) \subseteq 1..(i - 1)

Extends(T, U) == Len(T) <= Len(U) /\ \A i \in 1..Len(T) : U[i] = T[i]

\* No entry of T is v.
IsNew(T, v) == \A i \in DOMAIN T : T[i] # v

\* All entries of T made from x are values of functions of W.
UsedBy(T, x, W) == \A i \in DOMAIN T : x \in Args(T[i]) => T[i].f \in W

LEMMA TableIs ==
  ASSUME NEW T, IsTable(T)
  PROVE  /\ T \in Seq(AnyTerm) /\ Len(T) \in Nat /\ 1 <= Len(T) /\ DOMAIN T = 1..Len(T)
         /\ T[1].f[1] = "zero" /\ Args(T[1]) = {}
         /\ \A i \in 1..Len(T) : /\ T[i] \in AnyTerm
                                 /\ \A x \in Args(T[i]) : x \in Nat /\ 1 <= x /\ x < i
                                                          /\ x \in 1..Len(T)
  <1>1. T \in Seq(AnyTerm) /\ Len(T) \in Nat /\ DOMAIN T = 1..Len(T) /\ 1 \in DOMAIN T
    BY DEF IsTable
  <1>2. T[1].f = <<"zero", 0>> /\ T[1].of = <<>>
    BY DEF IsTable, Term, F
  <1>3. T[1].f[1] = "zero" /\ Args(T[1]) = {}
    BY <1>2 DEF Args
  <1>4. \A i \in DOMAIN T : Args(T[i]) \subseteq 1..(i - 1)
    BY DEF IsTable
  <1>5. ASSUME NEW i \in 1..Len(T), NEW x \in Args(T[i])
        PROVE  x \in Nat /\ 1 <= x /\ x < i /\ x \in 1..Len(T)
    <2>1. x \in 1..(i - 1)
      BY <1>1, <1>4, <1>5
    <2>. QED BY <1>1, <2>1
  <1>. QED BY <1>1, <1>3, <1>5

LEMMA TableGrows ==
  ASSUME NEW T, IsTable(T), NEW v \in AnyTerm, Args(v) \subseteq 1..Len(T),
         NEW U, U = Append(T, v)
  PROVE  /\ IsTable(U) /\ Len(U) = Len(T) + 1 /\ U[Len(T) + 1] = v
         /\ \A i \in 1..Len(T) : U[i] = T[i]
         /\ \A i \in 1..Len(U) : i \in 1..Len(T) \/ i = Len(T) + 1
  <1>1. T \in Seq(AnyTerm) /\ Len(T) \in Nat /\ 1 <= Len(T)
    BY TableIs
  <1>2. /\ U \in Seq(AnyTerm) /\ Len(U) = Len(T) + 1 /\ U[Len(T) + 1] = v
        /\ \A i \in 1..Len(T) : U[i] = T[i]
    BY <1>1
  <1>3. \A i \in 1..Len(U) : i \in 1..Len(T) \/ i = Len(T) + 1
    BY <1>1, <1>2
  <1>4. ASSUME NEW i \in DOMAIN U PROVE Args(U[i]) \subseteq 1..(i - 1)
    <2>1. i \in 1..Len(U)
      BY <1>2, <1>4
    <2>2. CASE i \in 1..Len(T)
      <3>1. Args(T[i]) \subseteq 1..(i - 1)
        BY <1>1, <2>2 DEF IsTable
      <3>. QED BY <1>2, <2>2, <3>1
    <2>3. CASE i = Len(T) + 1
      <3>1. i - 1 = Len(T)
        BY <1>1, <2>3
      <3>. QED BY <1>2, <2>3, <3>1
    <2>. QED BY <1>3, <2>1, <2>2, <2>3
  <1>5. 1 \in DOMAIN U /\ U[1] = T[1]
    BY <1>1, <1>2
  <1>6. IsTable(U)
    BY <1>2, <1>4, <1>5 DEF IsTable
  <1>. QED BY <1>2, <1>3, <1>6

LEMMA ExtendsItself ==
  ASSUME NEW T, IsTable(T) PROVE Extends(T, T)
  BY TableIs DEF Extends

LEMMA ExtendsOn ==
  ASSUME NEW T, NEW U, NEW V, IsTable(T), IsTable(U), IsTable(V),
         Extends(T, U), Extends(U, V)
  PROVE  Extends(T, V)
  BY TableIs DEF Extends

\* A value with an argument that only other functions have taken is new.
LEMMA NewByArgument ==
  ASSUME NEW T, NEW v, NEW x, NEW W, UsedBy(T, x, W), x \in Args(v), v.f \notin W
  PROVE  IsNew(T, v)
  BY DEF UsedBy, IsNew

-----------------------------------------------------------------------------
(* Machines, and what one instruction does.                                *)

IsMachine(m) ==
  /\ m \in [table : Seq(AnyTerm), reg : [Registers -> Nat], seeded : BOOLEAN,
            ctr : Nat, nonce : Nat, out : Seq(Nat)]
  /\ IsTable(m.table)
  /\ \A r \in Registers : m.reg[r] \in 1..Len(m.table)

\* d is m after v was stored in register to as entry id.
Stored(m, d, to, v, id) ==
  /\ IsMachine(d) /\ Extends(m.table, d.table)
  /\ id \in 1..Len(d.table) /\ d.table[id] = v
  /\ \/ id \in 1..Len(m.table) /\ d.table = m.table
     \/ /\ id = Len(m.table) + 1 /\ d.table = Append(m.table, v)
        /\ Len(d.table) = id /\ IsNew(m.table, v)
  /\ d.reg[to] = id /\ \A r \in Registers : r # to => d.reg[r] = m.reg[r]
  /\ d.seeded = m.seeded /\ d.ctr = m.ctr /\ d.nonce = m.nonce
  /\ d.out = IF to = "out" THEN Append(m.out, id) ELSE m.out

LEMMA StoreIs ==
  ASSUME NEW m, IsMachine(m), NEW to \in Registers, NEW v \in AnyTerm,
         Args(v) \subseteq 1..Len(m.table), NEW d, d = Store(m, to, v)
  PROVE  \E id \in Nat : Stored(m, d, to, v, id)
  <1>. DEFINE T == m.table
              known == {i \in DOMAIN T : T[i] = v}
              U == IF known = {} THEN Append(T, v) ELSE T
  <1>1. IsTable(T) /\ T \in Seq(AnyTerm) /\ Len(T) \in Nat /\ DOMAIN T = 1..Len(T)
    BY TableIs DEF IsMachine
  <1>2. PICK id : id = IF known = {} THEN Len(T) + 1 ELSE CHOOSE i \in known : TRUE
    OBVIOUS
  <1>3. /\ IsTable(U) /\ Extends(T, U) /\ id \in Nat /\ id \in 1..Len(U) /\ U[id] = v
        /\ Len(T) <= Len(U)
        /\ \/ id \in 1..Len(T) /\ U = T
           \/ id = Len(T) + 1 /\ U = Append(T, v) /\ Len(U) = id /\ IsNew(T, v)
    <2>1. CASE known = {}
      <3>1. id = Len(T) + 1 /\ U = Append(T, v) /\ IsNew(T, v)
        BY <1>2, <2>1 DEF IsNew
      <3>. HIDE DEF U
      <3>2. /\ IsTable(U) /\ Len(U) = Len(T) + 1 /\ U[Len(T) + 1] = v
            /\ \A i \in 1..Len(T) : U[i] = T[i]
        <4>1. \A t, u : IsTable(t) /\ Args(v) \subseteq 1..Len(t) /\ u = Append(t, v)
                => /\ IsTable(u) /\ Len(u) = Len(t) + 1 /\ u[Len(t) + 1] = v
                   /\ \A i \in 1..Len(t) : u[i] = t[i]
          BY TableGrows
        <4>. QED BY <1>1, <3>1, <4>1
      <3>. QED BY <1>1, <3>1, <3>2 DEF Extends
    <2>2. CASE known # {}
      <3>1. U = T /\ id \in known
        BY <1>2, <2>2
      <3>2. id \in 1..Len(T) /\ T[id] = v
        BY <1>1, <3>1
      <3>. QED BY <1>1, <3>1, <3>2, ExtendsItself
    <2>. QED BY <2>1, <2>2
  <1>. HIDE DEF U
  <1>4. d = [m EXCEPT !.table = U, !.reg[to] = id,
                      !.out = IF to = "out" THEN Append(@, id) ELSE @]
    BY <1>2 DEF Store, U
  <1>. HIDE DEF known
  <1>5. /\ d.table = U /\ d.reg = [m.reg EXCEPT ![to] = id]
        /\ d.seeded = m.seeded /\ d.ctr = m.ctr /\ d.nonce = m.nonce
        /\ d.out = IF to = "out" THEN Append(m.out, id) ELSE m.out
        /\ d = [table |-> U, reg |-> [m.reg EXCEPT ![to] = id], seeded |-> m.seeded,
                ctr |-> m.ctr, nonce |-> m.nonce,
                out |-> IF to = "out" THEN Append(m.out, id) ELSE m.out]
    BY <1>4 DEF IsMachine
  <1>6. d.out \in Seq(Nat)
    BY <1>3, <1>5 DEF IsMachine
  <1>7. d.reg \in [Registers -> Nat] /\ d.reg[to] = id
        /\ \A r \in Registers : r # to => d.reg[r] = m.reg[r]
    BY <1>3, <1>5 DEF IsMachine
  <1>8. \A r \in Registers : d.reg[r] \in 1..Len(U)
    <2>1. Len(U) \in Nat
      BY <1>3, TableIs
    <2>2. \A r \in Registers : m.reg[r] \in 1..Len(T)
      BY DEF IsMachine
    <2>. QED BY <1>1, <1>3, <1>7, <2>1, <2>2
  <1>9. IsMachine(d)
    <2>1. U \in Seq(AnyTerm)
      BY <1>3, TableIs
    <2>2. m.seeded \in BOOLEAN /\ m.ctr \in Nat /\ m.nonce \in Nat
      BY DEF IsMachine
    <2>3. d \in [table : Seq(AnyTerm), reg : [Registers -> Nat], seeded : BOOLEAN,
                 ctr : Nat, nonce : Nat, out : Seq(Nat)]
      BY <1>5, <1>6, <1>7, <2>1, <2>2
    <2>. QED BY <1>3, <1>5, <1>8, <2>3 DEF IsMachine
  <1>. QED BY <1>3, <1>5, <1>7, <1>9 DEF Stored

\* The value an instruction stores.
Value(m, f, of) == Term(f, [j \in DOMAIN of |-> m.reg[of[j]]])

LEMMA ValueIs ==
  ASSUME NEW m, IsMachine(m), NEW f \in Names, NEW of \in Seq(Registers)
  PROVE  /\ Value(m, f, of) \in AnyTerm /\ Value(m, f, of).f = f
         /\ Args(Value(m, f, of)) \subseteq 1..Len(m.table)
         /\ Args(Value(m, f, of)) = {m.reg[of[j]] : j \in 1..Len(of)}
  <1>. DEFINE ids == [j \in DOMAIN of |-> m.reg[of[j]]]
  <1>1. DOMAIN of = 1..Len(of) /\ Len(of) \in Nat /\ \A j \in 1..Len(of) : of[j] \in Registers
    OBVIOUS
  <1>2. \A j \in 1..Len(of) : m.reg[of[j]] \in 1..Len(m.table) /\ m.reg[of[j]] \in Nat
    BY <1>1 DEF IsMachine
  <1>3. ids \in Seq(Nat) /\ DOMAIN ids = 1..Len(of)
        /\ \A j \in 1..Len(of) : ids[j] = m.reg[of[j]]
    BY <1>1, <1>2
  <1>. HIDE DEF ids
  <1>4. Value(m, f, of) = [f |-> f, of |-> ids]
    BY DEF Value, Term, ids
  <1>5. Args(Value(m, f, of)) = {m.reg[of[j]] : j \in 1..Len(of)}
    BY <1>3, <1>4 DEF Args
  <1>6. Value(m, f, of) \in AnyTerm /\ Value(m, f, of).f = f
    BY <1>3, <1>4 DEF AnyTerm
  <1>. QED BY <1>2, <1>5, <1>6

LEMMA DoIs ==
  ASSUME NEW m, IsMachine(m), NEW to \in Registers, NEW f \in Names,
         NEW of \in Seq(Registers), NEW d, d = Do(m, Set(to, f, of))
  PROVE  \E id \in Nat : Stored(m, d, to, Value(m, f, of), id)
  <1>1. d = Store(m, to, Value(m, f, of))
    BY DEF Do, Set, Value
  <1>. QED BY <1>1, ValueIs, StoreIs

-----------------------------------------------------------------------------
(* Who has used a value.                                                   *)

LEMMA StoredNew ==
  ASSUME NEW m, NEW d, NEW to, NEW v, NEW id, IsMachine(m), Stored(m, d, to, v, id),
         IsNew(m.table, v)
  PROVE  /\ id = Len(m.table) + 1 /\ d.table = Append(m.table, v) /\ Len(d.table) = id
         /\ Len(m.table) \in Nat
  <1>1. Len(m.table) \in Nat /\ DOMAIN m.table = 1..Len(m.table)
    BY TableIs DEF IsMachine
  <1>2. ~ (id \in 1..Len(m.table) /\ d.table = m.table)
    BY <1>1 DEF IsNew, Stored
  <1>. QED BY <1>1, <1>2 DEF Stored

LEMMA EntriesOf ==
  ASSUME NEW m, NEW d, NEW to, NEW v, NEW id, IsMachine(m), Stored(m, d, to, v, id)
  PROVE  /\ Len(m.table) \in Nat /\ Len(d.table) \in Nat /\ Len(m.table) <= Len(d.table)
         /\ IsTable(m.table) /\ IsTable(d.table) /\ 1 \in 1..Len(m.table)
         /\ DOMAIN m.table = 1..Len(m.table) /\ DOMAIN d.table = 1..Len(d.table)
         /\ \A i \in 1..Len(m.table) : d.table[i] = m.table[i] /\ i \in 1..Len(d.table)
         /\ \A i \in 1..Len(d.table) : i \in 1..Len(m.table) \/ (i = id /\ d.table[i] = v)
         /\ id \in 1..Len(d.table) /\ d.table[id] = v
         /\ IsMachine(d) /\ Extends(m.table, d.table)
  <1>1. /\ IsTable(m.table) /\ IsTable(d.table)
        /\ IsMachine(d) /\ Extends(m.table, d.table)
    BY DEF IsMachine, Stored
  <1>2. /\ Len(m.table) \in Nat /\ Len(d.table) \in Nat /\ 1 <= Len(m.table)
        /\ DOMAIN m.table = 1..Len(m.table) /\ DOMAIN d.table = 1..Len(d.table)
    BY <1>1, TableIs
  <1>3. /\ Len(m.table) <= Len(d.table) /\ id \in 1..Len(d.table) /\ d.table[id] = v
        /\ \A i \in 1..Len(m.table) : d.table[i] = m.table[i]
        /\ d.table = m.table \/ (id = Len(m.table) + 1 /\ Len(d.table) = id)
    BY DEF Stored, Extends
  <1>4. \A i \in 1..Len(d.table) : i \in 1..Len(m.table) \/ (i = id /\ d.table[i] = v)
    BY <1>2, <1>3
  <1>. QED BY <1>1, <1>2, <1>3, <1>4

\* A new value has not been used.
LEMMA NewUnused ==
  ASSUME NEW m, NEW d, NEW to, NEW v, NEW id, IsMachine(m), Stored(m, d, to, v, id),
         id = Len(m.table) + 1
  PROVE  UsedBy(d.table, id, {})
  <1>1. ASSUME NEW i \in 1..Len(d.table), id \in Args(d.table[i]) PROVE FALSE
    <2>1. id < i /\ i \in 1..Len(d.table)
      BY <1>1, EntriesOf, TableIs
    <2>. QED BY <2>1, EntriesOf
  <1>. QED BY <1>1, EntriesOf DEF UsedBy

\* What uses a value after an instruction.
LEMMA UsedAfter ==
  ASSUME NEW m, NEW d, NEW to, NEW v, NEW id, IsMachine(m), Stored(m, d, to, v, id),
         NEW x, NEW W, NEW V, UsedBy(m.table, x, W), W \subseteq V,
         x \in Args(v) => v.f \in V
  PROVE  UsedBy(d.table, x, V)
  BY EntriesOf DEF UsedBy

LEMMA UsedMore ==
  ASSUME NEW T, NEW x, NEW W, NEW V, UsedBy(T, x, W), W \subseteq V
  PROVE  UsedBy(T, x, V)
  BY DEF UsedBy

-----------------------------------------------------------------------------
(* What must stay hidden.  P is a set of values such that whoever knows     *)
(* none of them cannot compute any of them.                                *)

Opens(f) == f[1] \in {"cat", "copy", "xor"}
Apart(v, P) == \A x \in Args(v) : x \notin P

Sealed(T, P) ==
  /\ P \subseteq 1..Len(T)
  /\ \A i \in P : T[i].f[1] = "seed" \/ ~ Apart(T[i], P)
  /\ \A i \in 1..Len(T) :
       i \notin P /\ Opens(T[i].f) =>
         Apart(T[i], P) \/ (T[i].f[1] = "xor" /\ Args(T[i]) \subseteq P)

\* Q continues P.
Grows(T, P, U, Q) == /\ Extends(T, U) /\ Sealed(U, Q)
                     /\ \A i \in 1..Len(T) : i \in Q <=> i \in P

LEMMA NothingSealed ==
  ASSUME NEW T, IsTable(T) PROVE Sealed(T, {})
  BY DEF Sealed, Apart

\* A value made from what is known is known.
LEMMA Shown ==
  ASSUME NEW m, NEW d, NEW to, NEW v, NEW id, IsMachine(m), Stored(m, d, to, v, id),
         NEW P, Sealed(m.table, P), Apart(v, P), v.f[1] # "seed"
  PROVE  Sealed(d.table, P) /\ id \notin P
  <1>1. id \notin P
    <2>. SUFFICES ASSUME id \in P PROVE FALSE
      OBVIOUS
    <2>1. id \in 1..Len(m.table) /\ m.table[id] = v
      BY EntriesOf DEF Sealed
    <2>. QED BY <2>1 DEF Sealed
  <1>2. P \subseteq 1..Len(d.table)
    BY EntriesOf DEF Sealed
  <1>3. \A i \in P : d.table[i].f[1] = "seed" \/ ~ Apart(d.table[i], P)
    BY EntriesOf DEF Sealed
  <1>4. ASSUME NEW i \in 1..Len(d.table), i \notin P, Opens(d.table[i].f)
        PROVE  Apart(d.table[i], P) \/ (d.table[i].f[1] = "xor" /\ Args(d.table[i]) \subseteq P)
    BY <1>4, EntriesOf DEF Sealed
  <1>. QED BY <1>1, <1>2, <1>3, <1>4 DEF Sealed

\* A new value of a one-way function may be known without its arguments.
LEMMA ShownNew ==
  ASSUME NEW m, NEW d, NEW to, NEW v, NEW id, IsMachine(m), Stored(m, d, to, v, id),
         NEW P, Sealed(m.table, P), id = Len(m.table) + 1, ~ Opens(v.f)
  PROVE  Sealed(d.table, P) /\ id \notin P
  <1>1. id \notin P
    BY EntriesOf DEF Sealed
  <1>2. P \subseteq 1..Len(d.table)
    BY EntriesOf DEF Sealed
  <1>3. \A i \in P : d.table[i].f[1] = "seed" \/ ~ Apart(d.table[i], P)
    BY EntriesOf DEF Sealed
  <1>4. ASSUME NEW i \in 1..Len(d.table), i \notin P, Opens(d.table[i].f)
        PROVE  Apart(d.table[i], P) \/ (d.table[i].f[1] = "xor" /\ Args(d.table[i]) \subseteq P)
    BY <1>4, EntriesOf DEF Sealed
  <1>. QED BY <1>1, <1>2, <1>3, <1>4 DEF Sealed

\* A new value made from a hidden one may be hidden.
LEMMA Hidden ==
  ASSUME NEW m, NEW d, NEW to, NEW v, NEW id, IsMachine(m), Stored(m, d, to, v, id),
         NEW P, Sealed(m.table, P), id = Len(m.table) + 1,
         v.f[1] = "seed" \/ ~ Apart(v, P), NEW Q, Q = P \union {id}
  PROVE  Sealed(d.table, Q) /\ \A i \in 1..Len(m.table) : i \in Q <=> i \in P
  <1>1. \A i \in 1..Len(m.table) : i \in Q <=> i \in P
    BY EntriesOf
  <1>2. Q \subseteq 1..Len(d.table) /\ P \subseteq 1..Len(m.table)
    <2>1. P \subseteq 1..Len(d.table) /\ P \subseteq 1..Len(m.table)
      BY EntriesOf DEF Sealed
    <2>2. id \in 1..Len(d.table)
      BY EntriesOf
    <2>. QED BY <2>1, <2>2
  <1>3. \A i \in 1..Len(d.table) : Apart(d.table[i], Q) <=> Apart(d.table[i], P)
    <2>1. ASSUME NEW i \in 1..Len(d.table), NEW x \in Args(d.table[i]) PROVE x # id
      <3>1. UsedBy(d.table, id, {})
        BY NewUnused
      <3>. QED BY <2>1, <3>1, EntriesOf DEF UsedBy
    <2>. QED BY <2>1 DEF Apart
  <1>4. ASSUME NEW i \in Q PROVE d.table[i].f[1] = "seed" \/ ~ Apart(d.table[i], Q)
    <2>1. CASE i = id
      <3>1. d.table[i] = v /\ i \in 1..Len(d.table)
        BY <2>1, EntriesOf
      <3>2. Apart(v, Q) <=> Apart(v, P)
        BY <1>3, <3>1
      <3>. QED BY <3>1, <3>2
    <2>2. CASE i \in P
      <3>1. d.table[i] = m.table[i]
        BY <1>2, <2>2, EntriesOf
      <3>2. m.table[i].f[1] = "seed" \/ ~ Apart(m.table[i], P)
        BY <2>2 DEF Sealed
      <3>. QED BY <1>2, <1>3, <1>4, <3>1, <3>2
    <2>. QED BY <1>4, <2>1, <2>2
  <1>5. ASSUME NEW i \in 1..Len(d.table), i \notin Q, Opens(d.table[i].f)
        PROVE  Apart(d.table[i], Q) \/ (d.table[i].f[1] = "xor" /\ Args(d.table[i]) \subseteq Q)
    <2>1. i \in 1..Len(m.table) /\ d.table[i] = m.table[i] /\ i \notin P
      BY <1>5, EntriesOf
    <2>2. Apart(m.table[i], P) \/ (m.table[i].f[1] = "xor" /\ Args(m.table[i]) \subseteq P)
      BY <1>5, <2>1 DEF Sealed
    <2>. QED BY <1>3, <1>5, <2>1, <2>2
  <1>. QED BY <1>1, <1>2, <1>4, <1>5 DEF Sealed

-----------------------------------------------------------------------------
(* What a value was made from.                                             *)

ArgClosed(T, C) == C \subseteq 1..Len(T) /\ \A i \in C : Args(T[i]) \subseteq C

\* Everything in G went into x.
Counts(T, x, G) == \A C : ArgClosed(T, C) /\ x \in C => G \subseteq C

LEMMA CountsLater ==
  ASSUME NEW T, NEW U, IsTable(T), IsTable(U), Extends(T, U),
         NEW x \in 1..Len(T), NEW G, Counts(T, x, G)
  PROVE  Counts(U, x, G)
  <1>. SUFFICES ASSUME NEW C, ArgClosed(U, C), x \in C PROVE G \subseteq C
    BY DEF Counts
  <1>. DEFINE D == C \intersect (1..Len(T))
  <1>1. ASSUME NEW i \in D PROVE Args(T[i]) \subseteq D
    <2>1. Args(U[i]) \subseteq C /\ U[i] = T[i] /\ i \in 1..Len(T)
      BY <1>1 DEF ArgClosed, Extends
    <2>2. Args(T[i]) \subseteq 1..Len(T)
      BY <2>1, TableIs
    <2>. QED BY <2>1, <2>2
  <1>2. ArgClosed(T, D)
    BY <1>1 DEF ArgClosed
  <1>3. x \in D
    OBVIOUS
  <1>4. G \subseteq D
    BY <1>2, <1>3 DEF Counts
  <1>. QED BY <1>4

LEMMA CountsBy ==
  ASSUME NEW T, NEW x, NEW y \in Args(T[x]), NEW G, Counts(T, y, G)
  PROVE  Counts(T, x, G)
  BY DEF Counts, ArgClosed

LEMMA CountsItself ==
  ASSUME NEW T, NEW x PROVE Counts(T, x, {x})
  BY DEF Counts

LEMMA CountsBoth ==
  ASSUME NEW T, NEW x, NEW G, NEW H, Counts(T, x, G), Counts(T, x, H)
  PROVE  Counts(T, x, G \union H)
  BY DEF Counts

\* A stored value depends on its arguments and on what they depend on.
LEMMA StoredCounts ==
  ASSUME NEW m, NEW d, NEW to, NEW v, NEW id, IsMachine(m), Stored(m, d, to, v, id),
         NEW x, x \in 1..Len(m.table), x \in Args(v), NEW G, Counts(m.table, x, G)
  PROVE  Counts(d.table, id, G)
  <1>1. Counts(d.table, x, G)
    BY CountsLater, EntriesOf
  <1>2. x \in Args(d.table[id])
    BY EntriesOf
  <1>. QED BY <1>1, <1>2, CountsBy

-----------------------------------------------------------------------------
(* Programs.                                                               *)

Instruction ==
  [to : Registers, f : {g \in Names : g[1] \notin {"seed", "public"}}, of : Seq(Registers)]

\* f holds the machines between the n instructions of p; those between the n
\* programs of p.
IsRun(f, m, p, n) == f[0] = m /\ \A i \in 1..n : f[i] = Do(f[i - 1], p[i])
IsRound(f, m, p, n) == f[0] = m /\ \A i \in 1..n : f[i] = Execute(f[i - 1], p[i])

LEMMA ExecuteTurns ==
  ASSUME NEW m, NEW p, NEW n \in Nat, n = Len(p)
  PROVE  \E f : IsRun(f, m, p, n) /\ Execute(m, p) = f[n]
  <1>. DEFINE IsLoop(f, k) ==
                f = [i \in 0..k |-> IF i = 0 THEN m ELSE Do(f[i - 1], p[i])]
              S == {k \in Nat : \E f : IsLoop(f, k)}
  <1>1. 0 \in S
    <2>1. IsLoop([i \in 0..0 |-> m], 0)
      OBVIOUS
    <2>. QED BY <2>1
  <1>2. ASSUME NEW k \in Nat, k \in S PROVE k + 1 \in S
    <2>1. PICK f : IsLoop(f, k)
      BY <1>2
    <2>. DEFINE g == [i \in 0..(k + 1) |-> IF i <= k THEN f[i] ELSE Do(f[k], p[k + 1])]
    <2>. HIDE DEF IsLoop
    <2>2. \A i \in 0..(k + 1) : g[i] = IF i = 0 THEN m ELSE Do(g[i - 1], p[i])
      <3>1. \A i \in 0..k : f[i] = IF i = 0 THEN m ELSE Do(f[i - 1], p[i])
        BY <2>1 DEF IsLoop
      <3>2. ASSUME NEW i \in 0..(k + 1)
            PROVE  g[i] = IF i = 0 THEN m ELSE Do(g[i - 1], p[i])
        <4>1. CASE i <= k
          BY <3>1, <3>2, <4>1
        <4>2. CASE i = k + 1
          BY <4>2
        <4>. QED BY <3>2, <4>1, <4>2
      <3>. QED BY <3>2
    <2>3. IsLoop(g, k + 1)
      BY <2>2 DEF IsLoop
    <2>. QED BY <2>3
  <1>3. \E f : IsLoop(f, Len(p))
    <2>. HIDE DEF S
    <2>1. Len(p) \in S
      BY <1>1, <1>2, SetInduction
    <2>. QED BY <2>1 DEF S
  <1>4. PICK f : IsLoop(f, Len(p)) /\ Execute(m, p) = f[Len(p)]
    <2>1. Execute(m, p) = (CHOOSE f : IsLoop(f, Len(p)))[Len(p)]
      BY Zenon DEF Execute
    <2>2. IsLoop(CHOOSE f : IsLoop(f, Len(p)), Len(p))
      BY <1>3, Zenon
    <2>. QED BY <2>1, <2>2, Zenon
  <1>5. n = Len(p) /\ n \in Nat
    OBVIOUS
  <1>6. f = [i \in 0..n |-> IF i = 0 THEN m ELSE Do(f[i - 1], p[i])]
    BY <1>4, <1>5
  <1>7. IsRun(f, m, p, n)
    BY <1>6 DEF IsRun
  <1>. QED BY <1>4, <1>5, <1>7

LEMMA RepeatTurns ==
  ASSUME NEW m, NEW p, NEW n \in Nat, n = Len(p)
  PROVE  \E f : IsRound(f, m, p, n) /\ Repeat(m, p) = f[n]
  <1>. DEFINE IsLoop(f, k) ==
                f = [i \in 0..k |-> IF i = 0 THEN m ELSE Execute(f[i - 1], p[i])]
              S == {k \in Nat : \E f : IsLoop(f, k)}
  <1>1. 0 \in S
    <2>1. IsLoop([i \in 0..0 |-> m], 0)
      OBVIOUS
    <2>. QED BY <2>1
  <1>2. ASSUME NEW k \in Nat, k \in S PROVE k + 1 \in S
    <2>1. PICK f : IsLoop(f, k)
      BY <1>2
    <2>. DEFINE g == [i \in 0..(k + 1) |-> IF i <= k THEN f[i] ELSE Execute(f[k], p[k + 1])]
    <2>. HIDE DEF IsLoop
    <2>2. \A i \in 0..(k + 1) : g[i] = IF i = 0 THEN m ELSE Execute(g[i - 1], p[i])
      <3>1. \A i \in 0..k : f[i] = IF i = 0 THEN m ELSE Execute(f[i - 1], p[i])
        BY <2>1 DEF IsLoop
      <3>2. ASSUME NEW i \in 0..(k + 1)
            PROVE  g[i] = IF i = 0 THEN m ELSE Execute(g[i - 1], p[i])
        <4>1. CASE i <= k
          BY <3>1, <3>2, <4>1
        <4>2. CASE i = k + 1
          BY <4>2
        <4>. QED BY <3>2, <4>1, <4>2
      <3>. QED BY <3>2
    <2>3. IsLoop(g, k + 1)
      BY <2>2 DEF IsLoop
    <2>. QED BY <2>3
  <1>3. \E f : IsLoop(f, Len(p))
    <2>. HIDE DEF S
    <2>1. Len(p) \in S
      BY <1>1, <1>2, SetInduction
    <2>. QED BY <2>1 DEF S
  <1>4. PICK f : IsLoop(f, Len(p)) /\ Repeat(m, p) = f[Len(p)]
    <2>1. Repeat(m, p) = (CHOOSE f : IsLoop(f, Len(p)))[Len(p)]
      BY Zenon DEF Repeat
    <2>2. IsLoop(CHOOSE f : IsLoop(f, Len(p)), Len(p))
      BY <1>3, Zenon
    <2>. QED BY <2>1, <2>2, Zenon
  <1>5. n = Len(p) /\ n \in Nat
    OBVIOUS
  <1>6. f = [i \in 0..n |-> IF i = 0 THEN m ELSE Execute(f[i - 1], p[i])]
    BY <1>4, <1>5
  <1>7. IsRound(f, m, p, n)
    BY <1>6 DEF IsRound
  <1>. QED BY <1>4, <1>5, <1>7

LEMMA Pairs ==
  ASSUME NEW S, NEW x \in S, NEW y \in S
  PROVE  <<x, y>> \in Seq(S)
  OBVIOUS

LEMMA Triples ==
  ASSUME NEW S, NEW x \in S, NEW y \in S, NEW z \in S
  PROVE  <<x, y, z>> \in Seq(S)
  OBVIOUS

LEMMA NameIs ==
  ASSUME NEW a \in Words, NEW i \in Nat
  PROVE  <<a, i>> \in Names /\ <<a, i>>[1] = a /\ <<a, i>>[2] = i
  <1>1. PICK S : S = Words \union Nat
    OBVIOUS
  <1>2. a \in S /\ i \in S
    BY <1>1
  <1>3. <<a, i>> \in Seq(S)
    BY <1>2, Pairs
  <1>4. <<a, i>>[1] = a /\ <<a, i>>[2] = i
    OBVIOUS
  <1>. QED BY <1>1, <1>3, <1>4 DEF Names

LEMMA FIs ==
  ASSUME NEW a \in Words
  PROVE  F(a) \in Names /\ F(a)[1] = a
  BY NameIs DEF F

LEMMA InstructionIs ==
  ASSUME NEW to \in Registers, NEW f \in Names, f[1] \notin {"seed", "public"},
         NEW of \in Seq(Registers)
  PROVE  Set(to, f, of) \in Instruction
  BY DEF Set, Instruction

LEMMA DoStep ==
  ASSUME NEW m, IsMachine(m), NEW s \in Instruction, NEW d, d = Do(m, s)
  PROVE  \E id \in Nat : Stored(m, d, s.to, Value(m, s.f, s.of), id)
  <1>1. s.to \in Registers /\ s.f \in Names /\ s.of \in Seq(Registers)
    BY DEF Instruction
  <1>2. d = Store(m, s.to, Value(m, s.f, s.of))
    BY DEF Do, Value
  <1>. QED BY <1>1, <1>2, ValueIs, StoreIs

\* Executing programs one instruction after the other.
LEMMA ExecuteNone ==
  ASSUME NEW m PROVE Execute(m, <<>>) = m
  <1>1. Len(<<>>) = 0
    OBVIOUS
  <1>2. PICK f : IsRun(f, m, <<>>, 0) /\ Execute(m, <<>>) = f[0]
    BY <1>1, ExecuteTurns
  <1>. QED BY <1>2 DEF IsRun

LEMMA ExecuteOne ==
  ASSUME NEW m, NEW a PROVE Execute(m, <<a>>) = Do(m, a)
  <1>. DEFINE p == <<a>>
  <1>1. Len(p) = 1 /\ p[1] = a
    OBVIOUS
  <1>. HIDE DEF p
  <1>2. PICK f : IsRun(f, m, p, 1) /\ Execute(m, p) = f[1]
    BY <1>1, ExecuteTurns
  <1>3. f[0] = m /\ f[1] = Do(f[0], a)
    BY <1>1, <1>2 DEF IsRun
  <1>. QED BY <1>2, <1>3 DEF p

LEMMA ExecuteTwo ==
  ASSUME NEW m, NEW a, NEW b PROVE Execute(m, <<a, b>>) = Do(Do(m, a), b)
  <1>. DEFINE p == <<a, b>>
  <1>1. Len(p) = 2 /\ p[1] = a /\ p[2] = b
    OBVIOUS
  <1>. HIDE DEF p
  <1>2. PICK f : IsRun(f, m, p, 2) /\ Execute(m, p) = f[2]
    BY <1>1, ExecuteTurns
  <1>3. f[0] = m /\ f[1] = Do(f[0], a) /\ f[2] = Do(f[1], b)
    BY <1>1, <1>2 DEF IsRun
  <1>. QED BY <1>2, <1>3 DEF p

LEMMA ExecuteCat ==
  ASSUME NEW m, NEW S, NEW p \in Seq(S), NEW q \in Seq(S)
  PROVE  Execute(m, p \o q) = Execute(Execute(m, p), q)
  <1>1. PICK w : w = p \o q
    OBVIOUS
  <1>2. PICK k \in Nat, l \in Nat : k = Len(p) /\ l = Len(q)
    OBVIOUS
  <1>3. /\ Len(w) = k + l /\ \A i \in 1..k : w[i] = p[i]
        /\ \A i \in 1..l : w[k + i] = q[i]
    BY <1>1, <1>2
  <1>4. PICK f : IsRun(f, m, w, k + l) /\ Execute(m, w) = f[k + l]
    BY <1>2, <1>3, ExecuteTurns
  <1>5. PICK g : IsRun(g, m, p, k) /\ Execute(m, p) = g[k]
    BY <1>2, ExecuteTurns
  <1>6. PICK h : IsRun(h, g[k], q, l) /\ Execute(g[k], q) = h[l]
    BY <1>2, ExecuteTurns
  <1>. DEFINE A == {i \in Nat : i <= k => g[i] = f[i]}
              B == {i \in Nat : i <= l => h[i] = f[k + i]}
  <1>7. \A i \in Nat : i \in A
    <2>1. 0 \in A
      BY <1>4, <1>5 DEF IsRun
    <2>2. ASSUME NEW i \in Nat, i \in A PROVE i + 1 \in A
      <3>. SUFFICES ASSUME i + 1 <= k PROVE g[i + 1] = f[i + 1]
        OBVIOUS
      <3>1. i + 1 \in 1..k /\ i + 1 \in 1..(k + l) /\ (i + 1) - 1 = i /\ i <= k
        OBVIOUS
      <3>2. g[i + 1] = Do(g[i], p[i + 1]) /\ f[i + 1] = Do(f[i], w[i + 1])
        BY <1>4, <1>5, <3>1 DEF IsRun
      <3>. QED BY <1>3, <2>2, <3>1, <3>2
    <2>. HIDE DEF A
    <2>. QED BY <2>1, <2>2, SetInduction
  <1>8. g[k] = f[k]
    BY <1>7
  <1>9. \A i \in Nat : i \in B
    <2>1. 0 \in B
      BY <1>6, <1>8 DEF IsRun
    <2>2. ASSUME NEW i \in Nat, i \in B PROVE i + 1 \in B
      <3>. SUFFICES ASSUME i + 1 <= l PROVE h[i + 1] = f[k + (i + 1)]
        OBVIOUS
      <3>1. PICK j \in Nat : j = k + (i + 1) /\ j - 1 = k + i /\ j \in 1..(k + l)
        OBVIOUS
      <3>2. i + 1 \in 1..l /\ (i + 1) - 1 = i /\ i <= l
        OBVIOUS
      <3>3. h[i + 1] = Do(h[i], q[i + 1]) /\ f[j] = Do(f[k + i], w[j])
        BY <1>4, <1>6, <3>1, <3>2 DEF IsRun
      <3>. QED BY <1>3, <2>2, <3>1, <3>2, <3>3
    <2>. HIDE DEF B
    <2>. QED BY <2>1, <2>2, SetInduction
  <1>10. h[l] = f[k + l]
    BY <1>9
  <1>. QED BY <1>1, <1>4, <1>5, <1>6, <1>10

-----------------------------------------------------------------------------
(* What every program preserves.                                           *)

\* The inputs of calls with numbers from n on are not in T.
InputsBefore(T, n) ==
  \A i \in DOMAIN T : T[i].f[1] \in {"seed", "public"} => T[i].f[2] \in 0..(n - 1)

\* Nothing the machine works on is in P.
Free(m, P) == /\ Sealed(m.table, P) /\ \A r \in Registers : m.reg[r] \notin P
              /\ \A i \in DOMAIN m.out : m.out[i] \notin P

Fits(m, d) == /\ IsMachine(d) /\ Extends(m.table, d.table)
              /\ \A n : InputsBefore(m.table, n) => InputsBefore(d.table, n)
              /\ \A P : Free(m, P) => Free(d, P)

LEMMA FitsItself ==
  ASSUME NEW m, IsMachine(m) PROVE Fits(m, m)
  BY ExtendsItself DEF IsMachine, Fits

LEMMA FitsOn ==
  ASSUME NEW m, NEW d, NEW e, IsMachine(m), Fits(m, d), Fits(d, e) PROVE Fits(m, e)
  <1>1. Extends(m.table, e.table)
    BY ExtendsOn DEF Fits, IsMachine
  <1>. QED BY <1>1 DEF Fits

LEMMA DoFits ==
  ASSUME NEW m, IsMachine(m), NEW s \in Instruction
  PROVE  Fits(m, Do(m, s))
  <1>. DEFINE v == Value(m, s.f, s.of)
  <1>0. PICK d : d = Do(m, s)
    OBVIOUS
  <1>1. PICK id \in Nat : d = Do(m, s) /\ Stored(m, d, s.to, v, id)
    BY <1>0, DoStep
  <1>2. s.to \in Registers /\ s.f \in Names /\ s.of \in Seq(Registers)
        /\ s.f[1] \notin {"seed", "public"}
    BY DEF Instruction
  <1>3. v.f = s.f /\ Args(v) = {m.reg[s.of[j]] : j \in 1..Len(s.of)}
    BY <1>2, ValueIs
  <1>. HIDE DEF v
  <1>4. ASSUME NEW n, InputsBefore(m.table, n) PROVE InputsBefore(d.table, n)
    BY <1>1, <1>2, <1>3, <1>4, EntriesOf DEF InputsBefore
  <1>5. ASSUME NEW P, Free(m, P) PROVE Free(d, P)
    <2>1. Apart(v, P)
      <3>1. \A j \in 1..Len(s.of) : s.of[j] \in Registers
        BY <1>2
      <3>. QED BY <1>3, <1>5, <3>1 DEF Apart, Free
    <2>2. Sealed(d.table, P) /\ id \notin P
      BY <1>1, <1>2, <1>3, <1>5, <2>1, Shown DEF Free
    <2>3. \A r \in Registers : d.reg[r] \notin P
      BY <1>1, <1>5, <2>2 DEF Stored, Free
    <2>4. \A i \in DOMAIN d.out : d.out[i] \notin P
      <3>1. d.out = IF s.to = "out" THEN Append(m.out, id) ELSE m.out
        BY <1>1 DEF Stored
      <3>2. PICK o : o = m.out
        OBVIOUS
      <3>3. o \in Seq(Nat) /\ \A i \in DOMAIN o : o[i] \notin P
        BY <1>5, <3>2 DEF IsMachine, Free
      <3>4. \A i \in DOMAIN Append(o, id) : Append(o, id)[i] \notin P
        BY <2>2, <3>3
      <3>. QED BY <3>1, <3>2, <3>3, <3>4
    <2>. QED BY <2>2, <2>3, <2>4 DEF Free
  <1>. QED BY <1>1, <1>4, <1>5, EntriesOf DEF Fits

LEMMA ExecuteFits ==
  ASSUME NEW m, IsMachine(m), NEW p \in Seq(Instruction)
  PROVE  Fits(m, Execute(m, p))
  <1>1. PICK n \in Nat : n = Len(p)
    OBVIOUS
  <1>2. PICK f : IsRun(f, m, p, n) /\ Execute(m, p) = f[n]
    BY <1>1, ExecuteTurns
  <1>. DEFINE S == {i \in Nat : i <= n => Fits(m, f[i])}
  <1>3. 0 \in S
    BY <1>2, FitsItself DEF IsRun
  <1>4. ASSUME NEW i \in Nat, i \in S PROVE i + 1 \in S
    <2>. SUFFICES ASSUME i + 1 <= n PROVE Fits(m, f[i + 1])
      OBVIOUS
    <2>1. i + 1 \in 1..n /\ (i + 1) - 1 = i /\ i <= n
      OBVIOUS
    <2>2. f[i + 1] = Do(f[i], p[i + 1])
      BY <1>2, <2>1 DEF IsRun
    <2>3. p[i + 1] \in Instruction
      BY <1>1, <2>1
    <2>4. Fits(m, f[i])
      BY <1>4, <2>1
    <2>5. Fits(f[i], f[i + 1])
      <3>1. IsMachine(f[i])
        BY <2>4 DEF Fits
      <3>. QED BY <2>2, <2>3, <3>1, DoFits
    <2>. QED BY <2>4, <2>5, FitsOn
  <1>. HIDE DEF S
  <1>5. n \in S
    BY <1>3, <1>4, SetInduction
  <1>. QED BY <1>2, <1>5 DEF S

LEMMA RepeatFits ==
  ASSUME NEW m, IsMachine(m), NEW p, NEW n \in Nat, n = Len(p),
         \A i \in 1..n : p[i] \in Seq(Instruction)
  PROVE  Fits(m, Repeat(m, p))
  <1>1. PICK f : IsRound(f, m, p, n) /\ Repeat(m, p) = f[n]
    BY RepeatTurns
  <1>. DEFINE S == {i \in Nat : i <= n => Fits(m, f[i])}
  <1>2. 0 \in S
    BY <1>1, FitsItself DEF IsRound
  <1>3. ASSUME NEW i \in Nat, i \in S PROVE i + 1 \in S
    <2>. SUFFICES ASSUME i + 1 <= n PROVE Fits(m, f[i + 1])
      OBVIOUS
    <2>1. i + 1 \in 1..n /\ (i + 1) - 1 = i /\ i <= n
      OBVIOUS
    <2>2. f[i + 1] = Execute(f[i], p[i + 1])
      BY <1>1, <2>1 DEF IsRound
    <2>3. p[i + 1] \in Seq(Instruction)
      BY <2>1
    <2>4. Fits(m, f[i])
      BY <1>3, <2>1
    <2>5. Fits(f[i], f[i + 1])
      <3>1. IsMachine(f[i])
        BY <2>4 DEF Fits
      <3>. QED BY <2>2, <2>3, <3>1, ExecuteFits
    <2>. QED BY <2>4, <2>5, FitsOn
  <1>. HIDE DEF S
  <1>4. n \in S
    BY <1>2, <1>3, SetInduction
  <1>. QED BY <1>1, <1>4 DEF S

-----------------------------------------------------------------------------
(* A run of output: the values of different functions on the same          *)
(* registers.                                                              *)

\* p is o and behind it the k numbers after N.
Appends(o, p, k, N) == /\ Len(p) = Len(o) + k
                       /\ \A i \in 1..Len(o) : p[i] = o[i]
                       /\ \A i \in 1..k : p[Len(o) + i] = N + i

Puts(m, d, nm, of, n) ==
  /\ IsMachine(d) /\ Extends(m.table, d.table) /\ Len(d.table) = Len(m.table) + n
  /\ \A i \in 1..n : d.table[Len(m.table) + i] = Value(m, nm[i], of)
  /\ \A r \in Registers : r # "out" => d.reg[r] = m.reg[r]
  /\ Appends(m.out, d.out, n, Len(m.table))
  /\ d.seeded = m.seeded /\ d.ctr = m.ctr /\ d.nonce = m.nonce

\* The names differ from each other and are those of one-way functions.
OutNames(nm, n) ==
  \A i \in 1..n : /\ nm[i] \in Names /\ nm[i][1] \notin {"seed", "public"} /\ ~ Opens(nm[i])
                  /\ \A j \in 1..n : nm[i] = nm[j] => i = j

OutOf(of) == of \in Seq(Registers) /\ \A j \in 1..Len(of) : of[j] # "out"

LEMMA SameValue ==
  ASSUME NEW m, NEW d, NEW f, NEW of, OutOf(of),
         \A r \in Registers : r # "out" => d.reg[r] = m.reg[r]
  PROVE  Value(d, f, of) = Value(m, f, of)
  <1>1. DOMAIN of = 1..Len(of) /\ \A j \in 1..Len(of) : of[j] \in Registers /\ of[j] # "out"
    BY DEF OutOf
  <1>2. [j \in DOMAIN of |-> d.reg[of[j]]] = [j \in DOMAIN of |-> m.reg[of[j]]]
    BY <1>1
  <1>. QED BY <1>2 DEF Value

LEMMA OneMore ==
  ASSUME NEW o \in Seq(Nat), NEW p \in Seq(Nat), NEW k \in Nat, NEW N \in Nat,
         Appends(o, p, k, N),
         NEW id \in Nat, id = N + (k + 1), NEW q, q = Append(p, id)
  PROVE  Appends(o, q, k + 1, N)
  <1>1. PICK L \in Nat : L = Len(o)
    OBVIOUS
  <1>2. /\ Len(q) = L + (k + 1) /\ q[L + (k + 1)] = id /\ \A i \in 1..(L + k) : q[i] = p[i]
        /\ \A i \in 1..L : p[i] = o[i]
        /\ \A i \in 1..k : p[L + i] = N + i
    BY <1>1 DEF Appends
  <1>3. ASSUME NEW i \in 1..(k + 1) PROVE q[L + i] = N + i
    <2>1. CASE i = k + 1
      BY <1>2, <2>1
    <2>2. CASE i \in 1..k
      <3>1. L + i \in 1..(L + k)
        BY <2>2
      <3>. QED BY <1>1, <1>2, <2>2, <3>1
    <2>3. i = k + 1 \/ i \in 1..k
      OBVIOUS
    <2>. QED BY <2>1, <2>2, <2>3, Zenon
  <1>4. \A i \in 1..L : q[i] = o[i]
    BY <1>1, <1>2
  <1>. QED BY <1>1, <1>2, <1>3, <1>4 DEF Appends

LEMMA PutsOne ==
  ASSUME NEW m, IsMachine(m), NEW d, NEW nm, NEW n \in Nat, OutNames(nm, n),
         NEW of, OutOf(of), NEW j \in 1..Len(of), NEW W, UsedBy(m.table, m.reg[of[j]], W),
         \A i \in 1..n : nm[i] \notin W,
         NEW k \in Nat, k < n, Puts(m, d, nm, of, k),
         NEW e, e = Do(d, Set("out", nm[k + 1], of))
  PROVE  Puts(m, e, nm, of, k + 1)
  <1>. DEFINE v == Value(m, nm[k + 1], of)
  <1>1. /\ k + 1 \in 1..n /\ nm[k + 1] \in Names /\ "out" \in Registers
        /\ of \in Seq(Registers) /\ IsMachine(d)
    BY DEF OutNames, OutOf, Puts, Registers
  <1>2. Value(d, nm[k + 1], of) = v
    BY SameValue DEF Puts
  <1>3. PICK id \in Nat : Stored(d, e, "out", v, id)
    BY <1>1, <1>2, DoIs
  <1>4. v.f = nm[k + 1] /\ m.reg[of[j]] \in Args(v)
    BY <1>1, ValueIs
  <1>. HIDE DEF v
  <1>0. /\ Len(m.table) \in Nat /\ DOMAIN m.table = 1..Len(m.table)
        /\ DOMAIN d.table = 1..Len(d.table) /\ Len(d.table) \in Nat
    BY <1>1, TableIs DEF IsMachine
  <1>. PICK N \in Nat : N = Len(m.table)
    BY <1>0
  <1>. PICK M \in Nat : M = N + k
    OBVIOUS
  <1>5. /\ N = Len(m.table) /\ M = Len(d.table) /\ M = N + k
        /\ DOMAIN m.table = 1..N /\ DOMAIN d.table = 1..M
    BY <1>0 DEF Puts
  <1>6. IsNew(d.table, v)
    <2>. SUFFICES ASSUME NEW i \in 1..M, d.table[i] = v PROVE FALSE
      BY <1>5 DEF IsNew
    <2>1. CASE i \in 1..N
      <3>1. m.table[i] = v
        BY <1>5, <2>1 DEF Puts, Extends
      <3>2. nm[k + 1] \in W
        BY <1>4, <1>5, <2>1, <3>1 DEF UsedBy
      <3>. QED BY <1>1, <3>2
    <2>2. CASE i \notin 1..N
      <3>1. PICK h \in 1..k : i = N + h
        <4>1. i - N \in 1..k /\ i = N + (i - N)
          BY <1>5, <2>2
        <4>. QED BY <4>1
      <3>2. d.table[i] = Value(m, nm[h], of) /\ h \in 1..n
        BY <1>5, <3>1 DEF Puts
      <3>3. nm[h] = nm[k + 1]
        <4>1. nm[h] \in Names
          BY <3>2 DEF OutNames
        <4>2. Value(m, nm[h], of).f = nm[h]
          BY <1>1, <4>1, ValueIs
        <4>. QED BY <1>4, <3>2, <4>2
      <3>4. h = k + 1
        BY <1>1, <3>2, <3>3 DEF OutNames
      <3>. QED BY <3>1, <3>4
    <2>. QED BY <2>1, <2>2
  <1>7. id = M + 1 /\ Len(e.table) = id /\ e.table[id] = v
    <2>1. id = Len(d.table) + 1 /\ Len(e.table) = id
      BY <1>1, <1>3, <1>6, StoredNew
    <2>2. e.table[id] = v
      BY <1>3 DEF Stored
    <2>. QED BY <1>5, <2>1, <2>2
  <1>. id = N + (k + 1)
    BY ONLY N \in Nat, k \in Nat, M = N + k, <1>7
  <1>8. /\ IsMachine(e) /\ Extends(d.table, e.table) /\ e.out = Append(d.out, id)
        /\ \A r \in Registers : r # "out" => e.reg[r] = d.reg[r]
        /\ e.seeded = d.seeded /\ e.ctr = d.ctr /\ e.nonce = d.nonce
    BY <1>3 DEF Stored
  <1>9. Extends(m.table, e.table)
    BY <1>1, <1>8, ExtendsOn DEF IsMachine, Puts
  <1>10. ASSUME NEW i \in 1..(k + 1)
         PROVE  e.table[N + i] = Value(m, nm[i], of)
    <2>1. CASE i = k + 1
      BY <1>7, <2>1 DEF v
    <2>2. CASE i \in 1..k
      <3>1. N + i \in 1..M
        BY <1>5, <2>2
      <3>2. e.table[N + i] = d.table[N + i]
        BY <1>5, <1>8, <3>1 DEF Extends
      <3>. QED BY <1>5, <2>2, <3>2 DEF Puts
    <2>. QED BY <2>1, <2>2
  <1>11. Appends(m.out, e.out, k + 1, N)
    <2>1. PICK o, p, q : o \in Seq(Nat) /\ p \in Seq(Nat) /\ o = m.out /\ p = d.out /\ q = e.out
      BY <1>1 DEF IsMachine
    <2>2. Appends(o, p, k, N) /\ q = Append(p, id)
      BY <1>5, <1>8, <2>1 DEF Puts
    <2>3. o \in Seq(Nat) /\ p \in Seq(Nat)
      BY <2>1
    <2>4. Appends(o, q, k + 1, N)
      BY ONLY N \in Nat, k \in Nat, id \in Nat, id = N + (k + 1), <2>2, <2>3, OneMore
    <2>. QED BY ONLY <2>1, <2>4
  <1>12. Len(e.table) = N + (k + 1)
    BY <1>7
  <1>13. /\ \A r \in Registers : r # "out" => e.reg[r] = m.reg[r]
         /\ e.seeded = m.seeded /\ e.ctr = m.ctr /\ e.nonce = m.nonce
    BY <1>8 DEF Puts
  <1>14. IsMachine(e)
    BY <1>8
  <1>. QED BY ONLY N = Len(m.table), <1>14, <1>9, <1>10, <1>11, <1>12, <1>13 DEF Puts

LEMMA PutsAll ==
  ASSUME NEW m, IsMachine(m), NEW nm, NEW n \in Nat, OutNames(nm, n),
         NEW of, OutOf(of), NEW j \in 1..Len(of), NEW W, UsedBy(m.table, m.reg[of[j]], W),
         \A i \in 1..n : nm[i] \notin W
  PROVE  Puts(m, Execute(m, [i \in 1..n |-> Set("out", nm[i], of)]), nm, of, n)
  <1>1. PICK p : p = [i \in 1..n |-> Set("out", nm[i], of)]
    OBVIOUS
  <1>2. n = Len(p) /\ \A i \in 1..n : p[i] = Set("out", nm[i], of)
    BY <1>1
  <1>3. PICK f : IsRun(f, m, p, n) /\ Execute(m, p) = f[n]
    BY <1>2, ExecuteTurns
  <1>. DEFINE S == {i \in Nat : i <= n => Puts(m, f[i], nm, of, i)}
  <1>4. Puts(m, m, nm, of, 0)
    <2>1. PICK T, o : T = m.table /\ o = m.out
      OBVIOUS
    <2>2. IsTable(T) /\ o \in Seq(Nat) /\ Len(T) \in Nat
      BY <2>1, TableIs DEF IsMachine
    <2>3. Extends(T, T) /\ Appends(o, o, 0, Len(T))
      BY <2>2, ExtendsItself DEF Appends
    <2>. QED BY <2>1, <2>2, <2>3 DEF Puts
  <1>5. 0 \in S
    BY <1>3, <1>4 DEF IsRun
  <1>6. ASSUME NEW i \in Nat, i \in S PROVE i + 1 \in S
    <2>. SUFFICES ASSUME i + 1 <= n PROVE Puts(m, f[i + 1], nm, of, i + 1)
      OBVIOUS
    <2>1. i + 1 \in 1..n /\ (i + 1) - 1 = i /\ i < n /\ i <= n
      OBVIOUS
    <2>2. f[i + 1] = Do(f[i], Set("out", nm[i + 1], of))
      BY <1>2, <1>3, <2>1 DEF IsRun
    <2>3. Puts(m, f[i], nm, of, i)
      BY <1>6, <2>1
    <2>. QED BY <2>1, <2>2, <2>3, PutsOne
  <1>. HIDE DEF S
  <1>7. n \in S
    BY <1>5, <1>6, SetInduction
  <1>. QED BY <1>1, <1>3, <1>7 DEF S

-----------------------------------------------------------------------------
(* More of what must stay hidden.                                          *)

\* Of the new values those in X are hidden and the others shown.
Hides(T, U, X, Q) == \A k \in X : /\ k \in 1..Len(U) /\ k > Len(T)
                                  /\ U[k].f[1] = "seed" \/ ~ Apart(U[k], Q)
Shows(T, U, X, Q) == \A k \in 1..Len(U) : k > Len(T) /\ k \notin X /\ Opens(U[k].f) =>
                       Apart(U[k], Q) \/ (U[k].f[1] = "xor" /\ Args(U[k]) \subseteq Q)

LEMMA SealedWith ==
  ASSUME NEW T, NEW U, IsTable(T), IsTable(U), Extends(T, U),
         NEW P, Sealed(T, P), NEW X, NEW Q, Q = P \union X, Hides(T, U, X, Q), Shows(T, U, X, Q)
  PROVE  Sealed(U, Q) /\ \A i \in 1..Len(T) : i \in Q <=> i \in P
  <1>. /\ \A k \in X : k \in 1..Len(U) /\ k > Len(T)
                      /\ (U[k].f[1] = "seed" \/ ~ Apart(U[k], Q))
       /\ \A k \in 1..Len(U) : k > Len(T) /\ k \notin X /\ Opens(U[k].f) =>
            Apart(U[k], Q) \/ (U[k].f[1] = "xor" /\ Args(U[k]) \subseteq Q)
    BY Zenon DEF Hides, Shows
  <1>1. Len(T) \in Nat /\ Len(U) \in Nat /\ Len(T) <= Len(U)
    BY TableIs DEF Extends
  <1>2. \A i \in 1..Len(T) : i \in Q <=> i \in P
    BY <1>1
  <1>3. P \subseteq 1..Len(T)
    BY DEF Sealed
  <1>4. Q \subseteq 1..Len(U)
    <2>1. \A i \in 1..Len(T) : i \in 1..Len(U)
      BY <1>1
    <2>. QED BY <1>3, <2>1
  <1>5. \A i \in 1..Len(T) : U[i] = T[i]
    BY DEF Extends
  <1>6. ASSUME NEW i \in 1..Len(T), NEW x \in Args(T[i]) PROVE x \in Q <=> x \in P
    BY <1>2, <1>6, TableIs
  <1>7. ASSUME NEW i \in Q PROVE U[i].f[1] = "seed" \/ ~ Apart(U[i], Q)
    <2>1. CASE i \in X
      BY <2>1
    <2>2. CASE i \in P
      <3>1. i \in 1..Len(T) /\ U[i] = T[i]
        BY <1>3, <1>5, <2>2
      <3>2. T[i].f[1] = "seed" \/ ~ Apart(T[i], P)
        BY <2>2 DEF Sealed
      <3>. QED BY <3>1, <3>2 DEF Apart
    <2>. QED BY <1>7, <2>1, <2>2
  <1>8. ASSUME NEW i \in 1..Len(U), i \notin Q, Opens(U[i].f)
        PROVE  Apart(U[i], Q) \/ (U[i].f[1] = "xor" /\ Args(U[i]) \subseteq Q)
    <2>1. CASE i \in 1..Len(T)
      <3>1. i \notin P /\ U[i] = T[i]
        BY <1>2, <1>5, <1>8, <2>1
      <3>2. Apart(T[i], P) \/ (T[i].f[1] = "xor" /\ Args(T[i]) \subseteq P)
        BY <1>8, <2>1, <3>1 DEF Sealed
      <3>. QED BY <1>6, <2>1, <3>1, <3>2 DEF Apart
    <2>2. CASE i \notin 1..Len(T)
      <3>1. i > Len(T) /\ i \notin X
        BY <1>1, <1>8, <2>2
      <3>. QED BY <1>8, <3>1
    <2>. QED BY <2>1, <2>2
  <1>. QED BY <1>2, <1>4, <1>7, <1>8 DEF Sealed

\* A run of output from a hidden register: it can all be shown, or all but one
\* value.
LEMMA PutsSealed ==
  ASSUME NEW m, IsMachine(m), NEW d, NEW nm, NEW n \in Nat, OutNames(nm, n),
         NEW of, OutOf(of), Puts(m, d, nm, of, n), NEW P, Sealed(m.table, P)
  PROVE  /\ Sealed(d.table, P)
         /\ \A i \in 1..n : ~ Apart(Value(m, nm[i], of), P) =>
              Sealed(d.table, P \union {Len(m.table) + i})
  <1>. DEFINE T == m.table
              U == d.table
  <1>1. IsTable(T) /\ IsTable(U) /\ Extends(T, U) /\ Len(U) = Len(T) + n
    BY DEF IsMachine, Puts
  <1>2. Len(T) \in Nat
    BY <1>1, TableIs
  <1>3. \A i \in 1..n : U[Len(T) + i] = Value(m, nm[i], of)
    BY DEF Puts
  <1>4. ASSUME NEW k \in 1..Len(U), k > Len(T) PROVE ~ Opens(U[k].f)
    <2>1. PICK i \in 1..n : k = Len(T) + i
      <3>1. k - Len(T) \in 1..n /\ k = Len(T) + (k - Len(T))
        BY <1>1, <1>2, <1>4
      <3>. QED BY <3>1
    <2>2. nm[i] \in Names /\ ~ Opens(nm[i]) /\ of \in Seq(Registers)
      BY DEF OutNames, OutOf
    <2>3. Value(m, nm[i], of).f = nm[i]
      BY <2>2, ValueIs
    <2>. QED BY <1>3, <2>1, <2>2, <2>3
  <1>. HIDE DEF T, U
  <1>5. Sealed(T, P)
    BY DEF T
  <1>6. Sealed(U, P)
    <2>1. PICK X : X = {}
      OBVIOUS
    <2>2. P = P \union X /\ Hides(T, U, X, P) /\ Shows(T, U, X, P)
      BY <1>4, <2>1 DEF Hides, Shows
    <2>. QED BY <1>1, <1>5, <2>2, SealedWith
  <1>7. ASSUME NEW i \in 1..n, ~ Apart(Value(m, nm[i], of), P)
        PROVE  Sealed(U, P \union {Len(T) + i})
    <2>1. PICK k : k = Len(T) + i
      OBVIOUS
    <2>2. k \in 1..Len(U) /\ k > Len(T)
      BY <1>1, <1>2, <2>1
    <2>3. PICK Q : Q = P \union {k}
      OBVIOUS
    <2>4. ~ Apart(U[k], Q)
      BY <1>3, <1>7, <2>1, <2>3 DEF Apart
    <2>5. Sealed(U, Q)
      <3>1. Hides(T, U, {k}, Q) /\ Shows(T, U, {k}, Q)
        BY <1>4, <2>2, <2>4 DEF Hides, Shows
      <3>. QED BY <1>1, <1>5, <2>3, <3>1, SealedWith
    <2>. QED BY <2>1, <2>3, <2>5
  <1>. QED BY <1>6, <1>7 DEF T, U

LEMMA PutsUsed ==
  ASSUME NEW m, IsMachine(m), NEW d, NEW nm, NEW n \in Nat, OutNames(nm, n),
         NEW of, OutOf(of), Puts(m, d, nm, of, n),
         NEW y, NEW W, NEW V, UsedBy(m.table, y, W), W \subseteq V,
         (\A i \in 1..n : nm[i] \in V) \/ (\A j \in 1..Len(of) : m.reg[of[j]] # y)
  PROVE  UsedBy(d.table, y, V)
  <1>. DEFINE T == m.table
              U == d.table
  <1>1. IsTable(T) /\ IsTable(U) /\ Extends(T, U) /\ Len(U) = Len(T) + n
    BY DEF IsMachine, Puts
  <1>2. Len(T) \in Nat /\ DOMAIN T = 1..Len(T) /\ DOMAIN U = 1..Len(U)
    BY <1>1, TableIs
  <1>3. \A i \in 1..n : U[Len(T) + i] = Value(m, nm[i], of)
    BY DEF Puts
  <1>4. ASSUME NEW k \in 1..Len(U), y \in Args(U[k]) PROVE U[k].f \in V
    <2>1. CASE k \in 1..Len(T)
      BY <1>1, <1>2, <1>4, <2>1 DEF Extends, UsedBy
    <2>2. CASE k \notin 1..Len(T)
      <3>1. PICK i \in 1..n : k = Len(T) + i
        <4>1. k - Len(T) \in 1..n /\ k = Len(T) + (k - Len(T))
          BY <1>1, <1>2, <2>2
        <4>. QED BY <4>1
      <3>2. nm[i] \in Names /\ of \in Seq(Registers)
        BY DEF OutNames, OutOf
      <3>3. /\ Value(m, nm[i], of).f = nm[i]
            /\ Args(Value(m, nm[i], of)) = {m.reg[of[j]] : j \in 1..Len(of)}
        BY <3>2, ValueIs
      <3>. QED BY <1>3, <1>4, <3>1, <3>3
    <2>. QED BY <2>1, <2>2
  <1>. QED BY <1>2, <1>4 DEF UsedBy

-----------------------------------------------------------------------------
(* Pieces of a call, what they put out and how they can be coloured.       *)

NewOut(m, d) == (Len(m.out) + 1)..Len(d.out)

\* d comes after m, and what was put out in between is new.
Outs(m, d) ==
  /\ Len(m.out) <= Len(d.out) /\ \A i \in 1..Len(m.out) : d.out[i] = m.out[i]
  /\ \A i \in NewOut(m, d) :
       /\ d.out[i] \in 1..Len(d.table) /\ d.out[i] > Len(m.table)
       /\ \A j \in NewOut(m, d) : d.out[i] = d.out[j] => i = j

Leads(m, d) == IsMachine(m) /\ Fits(m, d) /\ Outs(m, d)

\* P hides the registers of X and none of R.
Colours(m, P, X, R) == /\ Sealed(m.table, P)
                       /\ \A r \in X : m.reg[r] \in P
                       /\ \A r \in R : m.reg[r] \notin P

Agrees(m, P, Q) == \A i \in 1..Len(m.table) : i \in Q <=> i \in P

\* What is put out can stay visible, or any one block of it can be hidden.
AllShown(m, d, Q) == \A k \in NewOut(m, d) : d.out[k] \notin Q
OneHidden(m, d, Q, k) == /\ d.out[k] \in Q
                         /\ \A j \in NewOut(m, d) : j # k => d.out[j] \notin Q

Keeps(m, d, X, R, Y, S) ==
  \A P : Colours(m, P, X, R) =>
    \E Q : Colours(d, Q, Y, S) /\ Agrees(m, P, Q) /\ AllShown(m, d, Q)

Burns(m, d, X, R, Y, S) ==
  \A P : \A k \in NewOut(m, d) : Colours(m, P, X, R) =>
    \E Q : Colours(d, Q, Y, S) /\ Agrees(m, P, Q) /\ OneHidden(m, d, Q, k)

\* Register y of d, or all that was put out, was made from register x of m.
From(m, d, x, y) == Counts(d.table, d.reg[y], {m.reg[x]})
OutsFrom(m, d, x) == \A k \in NewOut(m, d) : Counts(d.table, d.out[k], {m.reg[x]})

LEMMA LeadsTyped ==
  ASSUME NEW m, NEW d, Leads(m, d)
  PROVE  /\ IsMachine(m) /\ IsMachine(d) /\ IsTable(m.table) /\ IsTable(d.table)
         /\ Extends(m.table, d.table)
         /\ Len(m.table) \in Nat /\ Len(d.table) \in Nat /\ Len(m.table) <= Len(d.table)
         /\ Len(m.out) \in Nat /\ Len(d.out) \in Nat /\ Len(m.out) <= Len(d.out)
         /\ \A k \in Nat : k \in NewOut(m, d) <=> Len(m.out) < k /\ k <= Len(d.out)
         /\ \A k \in NewOut(m, d) : k \in Nat /\ d.out[k] \in Nat
         /\ \A k \in 1..Len(m.table) : k \in 1..Len(d.table)
  <1>1. IsMachine(m) /\ IsMachine(d) /\ Extends(m.table, d.table)
    BY DEF Leads, Fits
  <1>2. m.table \in Seq(AnyTerm) /\ d.table \in Seq(AnyTerm) /\ m.out \in Seq(Nat) /\ d.out \in Seq(Nat)
    BY <1>1 DEF IsMachine
  <1>3. PICK a \in Nat, b \in Nat, A \in Nat, B \in Nat :
          a = Len(m.out) /\ b = Len(d.out) /\ A = Len(m.table) /\ B = Len(d.table)
    BY <1>2
  <1>4. A <= B /\ a <= b
    BY <1>1, <1>3 DEF Extends, Leads, Outs
  <1>5. NewOut(m, d) = (a + 1)..b
    BY <1>3 DEF NewOut
  <1>6. \A k \in NewOut(m, d) : d.out[k] \in 1..B
    BY <1>3 DEF Leads, Outs
  <1>. QED BY <1>1, <1>3, <1>4, <1>5, <1>6 DEF IsMachine

\* The new outputs of two pieces are those of the first and those of the second.
LEMMA OutsOn ==
  ASSUME NEW m, NEW d, NEW e, Leads(m, d), Leads(d, e)
  PROVE  /\ \A k \in NewOut(m, e) : k \in NewOut(m, d) \/ k \in NewOut(d, e)
         /\ \A k \in NewOut(m, d) : /\ k \in NewOut(m, e) /\ k \notin NewOut(d, e)
                                    /\ e.out[k] = d.out[k]
                                    /\ d.out[k] \in 1..Len(d.table) /\ d.out[k] > Len(m.table)
         /\ \A k \in NewOut(d, e) : /\ k \in NewOut(m, e) /\ k \notin NewOut(m, d)
                                    /\ e.out[k] \in 1..Len(e.table) /\ e.out[k] > Len(d.table)
  <1>1. PICK a \in Nat, b \in Nat, c \in Nat :
          /\ a = Len(m.out) /\ b = Len(d.out) /\ c = Len(e.out) /\ a <= b /\ b <= c
    BY LeadsTyped
  <1>2. /\ NewOut(m, d) = (a + 1)..b /\ NewOut(d, e) = (b + 1)..c
        /\ NewOut(m, e) = (a + 1)..c
    BY <1>1 DEF NewOut
  <1>3. \A i \in 1..b : e.out[i] = d.out[i]
    BY <1>1 DEF Leads, Outs
  <1>4. \A k \in NewOut(m, d) : d.out[k] \in 1..Len(d.table) /\ d.out[k] > Len(m.table)
    BY DEF Leads, Outs
  <1>5. \A k \in NewOut(d, e) : e.out[k] \in 1..Len(e.table) /\ e.out[k] > Len(d.table)
    BY DEF Leads, Outs
  <1>. QED BY <1>1, <1>2, <1>3, <1>4, <1>5

LEMMA LeadsItself ==
  ASSUME NEW m, IsMachine(m) PROVE Leads(m, m)
  <1>1. PICK a \in Nat : a = Len(m.out)
    BY DEF IsMachine
  <1>2. NewOut(m, m) = {}
    BY <1>1 DEF NewOut
  <1>. QED BY <1>1, <1>2, FitsItself DEF Leads, Outs

LEMMA LeadsOn ==
  ASSUME NEW m, NEW d, NEW e, Leads(m, d), Leads(d, e)
  PROVE  Leads(m, e)
  <1>1. IsMachine(m) /\ Fits(m, e)
    BY FitsOn DEF Leads
  <1>2. PICK a \in Nat, b \in Nat, c \in Nat :
          a = Len(m.out) /\ b = Len(d.out) /\ c = Len(e.out) /\ a <= b /\ b <= c
    BY LeadsTyped
  <1>3. \A i \in 1..a : e.out[i] = m.out[i]
    <2>1. (\A i \in 1..a : d.out[i] = m.out[i]) /\ (\A i \in 1..b : e.out[i] = d.out[i])
      BY <1>2 DEF Leads, Outs
    <2>. QED BY <1>2, <2>1
  <1>4. PICK A \in Nat, B \in Nat, C \in Nat :
          A = Len(m.table) /\ B = Len(d.table) /\ C = Len(e.table) /\ A <= B /\ B <= C
    BY LeadsTyped
  <1>5. ASSUME NEW k \in NewOut(m, e) PROVE e.out[k] \in 1..C /\ e.out[k] > A
    <2>1. CASE k \in NewOut(m, d)
      <3>1. e.out[k] \in 1..B /\ e.out[k] > A
        BY <1>4, <2>1, OutsOn
      <3>. QED BY <1>4, <3>1
    <2>2. CASE k \in NewOut(d, e)
      <3>1. e.out[k] \in 1..C /\ e.out[k] > B
        BY <1>4, <2>2, OutsOn
      <3>. QED BY <1>4, <3>1
    <2>. QED BY <1>5, <2>1, <2>2, OutsOn
  <1>6. ASSUME NEW i \in NewOut(m, e), NEW j \in NewOut(m, e), e.out[i] = e.out[j] PROVE i = j
    <2>1. CASE i \in NewOut(m, d) /\ j \in NewOut(m, d)
      BY <1>6, <2>1, OutsOn DEF Leads, Outs
    <2>2. CASE i \in NewOut(d, e) /\ j \in NewOut(d, e)
      BY <1>6, <2>2 DEF Leads, Outs
    <2>3. ASSUME NEW k \in NewOut(m, d), NEW l \in NewOut(d, e) PROVE e.out[k] # e.out[l]
      <3>1. e.out[k] \in 1..B /\ e.out[l] > B
        BY <1>4, OutsOn
      <3>. QED BY ONLY <3>1, B \in Nat
    <2>. QED BY <1>6, <2>1, <2>2, <2>3, OutsOn
  <1>. QED BY <1>1, <1>2, <1>3, <1>4, <1>5, <1>6 DEF Leads, Outs

LEMMA AgreesOn ==
  ASSUME NEW m, NEW d, NEW e, Leads(m, d), Leads(d, e), NEW P, NEW Q, NEW O,
         Agrees(m, P, Q), Agrees(d, Q, O)
  PROVE  Agrees(m, P, O)
  BY LeadsTyped DEF Agrees

LEMMA KeepsOn ==
  ASSUME NEW m, NEW d, NEW e, Leads(m, d), Leads(d, e), NEW X, NEW R, NEW Y, NEW S,
         NEW Z, NEW U, Keeps(m, d, X, R, Y, S), Keeps(d, e, Y, S, Z, U)
  PROVE  Keeps(m, e, X, R, Z, U)
  <1>. SUFFICES ASSUME NEW P, Colours(m, P, X, R)
                PROVE  \E O : Colours(e, O, Z, U) /\ Agrees(m, P, O) /\ AllShown(m, e, O)
    BY DEF Keeps
  <1>1. PICK Q : Colours(d, Q, Y, S) /\ Agrees(m, P, Q) /\ AllShown(m, d, Q)
    BY DEF Keeps
  <1>2. PICK O : Colours(e, O, Z, U) /\ Agrees(d, Q, O) /\ AllShown(d, e, O)
    BY <1>1 DEF Keeps
  <1>3. AllShown(m, e, O)
    BY <1>1, <1>2, OutsOn DEF AllShown, Agrees
  <1>. QED BY <1>1, <1>2, <1>3, AgreesOn

LEMMA BurnsOn ==
  ASSUME NEW m, NEW d, NEW e, Leads(m, d), Leads(d, e), NEW X, NEW R, NEW Y, NEW S,
         NEW Z, NEW U, NEW YB, NEW SB,
         Keeps(m, d, X, R, Y, S), Burns(d, e, Y, S, Z, U),
         Burns(m, d, X, R, YB, SB), Keeps(d, e, YB, SB, Z, U)
  PROVE  Burns(m, e, X, R, Z, U)
  <1>. SUFFICES ASSUME NEW P, NEW k \in NewOut(m, e), Colours(m, P, X, R)
                PROVE  \E O : Colours(e, O, Z, U) /\ Agrees(m, P, O) /\ OneHidden(m, e, O, k)
    BY DEF Burns
  <1>1. CASE k \in NewOut(m, d)
    <2>1. PICK Q : Colours(d, Q, YB, SB) /\ Agrees(m, P, Q) /\ OneHidden(m, d, Q, k)
      BY <1>1 DEF Burns
    <2>2. PICK O : Colours(e, O, Z, U) /\ Agrees(d, Q, O) /\ AllShown(d, e, O)
      BY <2>1 DEF Keeps
    <2>3. OneHidden(m, e, O, k)
      BY <1>1, <2>1, <2>2, OutsOn DEF AllShown, OneHidden, Agrees
    <2>. QED BY <2>1, <2>2, <2>3, AgreesOn
  <1>2. CASE k \in NewOut(d, e)
    <2>1. PICK Q : Colours(d, Q, Y, S) /\ Agrees(m, P, Q) /\ AllShown(m, d, Q)
      BY DEF Keeps
    <2>2. PICK O : Colours(e, O, Z, U) /\ Agrees(d, Q, O) /\ OneHidden(d, e, O, k)
      BY <1>2, <2>1 DEF Burns
    <2>3. OneHidden(m, e, O, k)
      BY <1>2, <2>1, <2>2, OutsOn DEF AllShown, OneHidden, Agrees
    <2>. QED BY <2>1, <2>2, <2>3, AgreesOn
  <1>. QED BY <1>1, <1>2, OutsOn

LEMMA BurnsNothing ==
  ASSUME NEW m, NEW d, Leads(m, d), d.out = m.out,
         NEW X, NEW R, NEW Y, NEW S
  PROVE  /\ NewOut(m, d) = {} /\ Burns(m, d, X, R, Y, S)
         /\ \A x : OutsFrom(m, d, x)
  <1>1. PICK a \in Nat : a = Len(m.out) /\ a = Len(d.out)
    BY LeadsTyped
  <1>2. NewOut(m, d) = {}
    BY <1>1 DEF NewOut
  <1>. QED BY <1>2 DEF Burns, OutsFrom

LEMMA KeepsLess ==
  ASSUME NEW m, NEW d, NEW X, NEW R, NEW Y, NEW S, Keeps(m, d, X, R, Y, S),
         NEW X2, NEW R2, NEW Y2, NEW S2,
         X \subseteq X2, R \subseteq R2, Y2 \subseteq Y, S2 \subseteq S
  PROVE  Keeps(m, d, X2, R2, Y2, S2)
  <1>1. \A P : Colours(m, P, X2, R2) => Colours(m, P, X, R)
    BY DEF Colours
  <1>2. \A Q : Colours(d, Q, Y, S) => Colours(d, Q, Y2, S2)
    BY DEF Colours
  <1>. QED BY <1>1, <1>2 DEF Keeps

LEMMA BurnsLess ==
  ASSUME NEW m, NEW d, NEW X, NEW R, NEW Y, NEW S, Burns(m, d, X, R, Y, S),
         NEW X2, NEW R2, NEW Y2, NEW S2,
         X \subseteq X2, R \subseteq R2, Y2 \subseteq Y, S2 \subseteq S
  PROVE  Burns(m, d, X2, R2, Y2, S2)
  <1>1. \A P : Colours(m, P, X2, R2) => Colours(m, P, X, R)
    BY DEF Colours
  <1>2. \A Q : Colours(d, Q, Y, S) => Colours(d, Q, Y2, S2)
    BY DEF Colours
  <1>. QED BY <1>1, <1>2 DEF Burns

LEMMA KeepsItself ==
  ASSUME NEW m, IsMachine(m), NEW X, NEW R
  PROVE  Keeps(m, m, X, R, X, R) /\ Burns(m, m, X, R, X, R)
  <1>1. Leads(m, m)
    BY LeadsItself
  <1>2. NewOut(m, m) = {} /\ Burns(m, m, X, R, X, R)
    BY <1>1, BurnsNothing
  <1>. QED BY <1>2 DEF Keeps, Agrees, AllShown

LEMMA CountsThrough ==
  ASSUME NEW T, NEW x, NEW y, Counts(T, x, {y}), NEW G, Counts(T, y, G)
  PROVE  Counts(T, x, G)
  BY DEF Counts

LEMMA FromOn ==
  ASSUME NEW m, NEW d, NEW e, Leads(m, d), Leads(d, e),
         NEW x, NEW y \in Registers, NEW z, From(m, d, x, y), From(d, e, y, z)
  PROVE  From(m, e, x, z)
  <1>1. d.reg[y] \in 1..Len(d.table)
    BY LeadsTyped DEF IsMachine
  <1>2. Counts(e.table, d.reg[y], {m.reg[x]})
    BY <1>1, LeadsTyped, CountsLater DEF From
  <1>. QED BY <1>2, CountsThrough DEF From

LEMMA OutsFromOn ==
  ASSUME NEW m, NEW d, NEW e, Leads(m, d), Leads(d, e),
         NEW x, NEW y \in Registers, From(m, d, x, y), OutsFrom(d, e, y), OutsFrom(m, d, x)
  PROVE  OutsFrom(m, e, x)
  <1>1. d.reg[y] \in 1..Len(d.table)
    BY LeadsTyped DEF IsMachine
  <1>2. Counts(e.table, d.reg[y], {m.reg[x]})
    BY <1>1, LeadsTyped, CountsLater DEF From
  <1>3. ASSUME NEW k \in NewOut(m, d) PROVE Counts(e.table, e.out[k], {m.reg[x]})
    <2>1. d.out[k] \in 1..Len(d.table) /\ e.out[k] = d.out[k]
      BY OutsOn
    <2>2. Counts(d.table, d.out[k], {m.reg[x]})
      BY DEF OutsFrom
    <2>. QED BY <2>1, <2>2, LeadsTyped, CountsLater
  <1>4. ASSUME NEW k \in NewOut(d, e) PROVE Counts(e.table, e.out[k], {m.reg[x]})
    BY <1>2, CountsThrough DEF OutsFrom
  <1>. QED BY <1>3, <1>4, OutsOn, ZenonT(60) DEF OutsFrom

-----------------------------------------------------------------------------
(* One instruction that is not an output.                                  *)

Regs(of) == {of[j] : j \in 1..Len(of)}

Turn(m, d, to, f, of) ==
  /\ IsMachine(m) /\ to \in Registers /\ to # "out"
  /\ f \in Names /\ f[1] \notin {"seed", "public"} /\ of \in Seq(Registers)
  /\ d = Do(m, Set(to, f, of))

\* The instruction computes a new value.
Fresh(m, f, of) ==
  \/ IsNew(m.table, Value(m, f, of))
  \/ \E x \in Regs(of) : \E W : UsedBy(m.table, m.reg[x], W) /\ f \notin W

LEMMA TurnStored ==
  ASSUME NEW m, NEW d, NEW to, NEW f, NEW of, Turn(m, d, to, f, of)
  PROVE  /\ \E id \in Nat : Stored(m, d, to, Value(m, f, of), id)
         /\ Value(m, f, of) \in AnyTerm /\ Value(m, f, of).f = f
         /\ Args(Value(m, f, of)) = {m.reg[x] : x \in Regs(of)}
         /\ Regs(of) \subseteq Registers
  <1>1. Set(to, f, of) \in Instruction
    BY InstructionIs DEF Turn
  <1>2. Set(to, f, of).to = to /\ Set(to, f, of).f = f /\ Set(to, f, of).of = of
    BY DEF Set
  <1>3. \E id \in Nat : Stored(m, d, to, Value(m, f, of), id)
    BY <1>1, <1>2, DoStep DEF Turn
  <1>4. /\ Value(m, f, of) \in AnyTerm /\ Value(m, f, of).f = f
        /\ Args(Value(m, f, of)) = {m.reg[of[j]] : j \in 1..Len(of)}
    BY ValueIs DEF Turn
  <1>5. of \in Seq(Registers)
    BY DEF Turn
  <1>. QED BY <1>3, <1>4, <1>5 DEF Regs

LEMMA TurnIs ==
  ASSUME NEW m, NEW d, NEW to, NEW f, NEW of, Turn(m, d, to, f, of)
  PROVE  /\ Leads(m, d) /\ d.out = m.out /\ NewOut(m, d) = {}
         /\ \A r \in Registers : r # to => d.reg[r] = m.reg[r] /\ From(m, d, r, r)
         /\ d.seeded = m.seeded /\ d.ctr = m.ctr /\ d.nonce = m.nonce
         /\ \A x \in Regs(of) : From(m, d, x, to)
  <1>. DEFINE v == Value(m, f, of)
  <1>1. PICK id \in Nat : Stored(m, d, to, v, id)
    BY TurnStored
  <1>2. Args(v) = {m.reg[x] : x \in Regs(of)} /\ Regs(of) \subseteq Registers
    BY TurnStored
  <1>. HIDE DEF v
  <1>3. /\ IsMachine(m) /\ d.out = m.out /\ d.reg[to] = id
        /\ \A r \in Registers : r # to => d.reg[r] = m.reg[r]
        /\ d.seeded = m.seeded /\ d.ctr = m.ctr /\ d.nonce = m.nonce
    BY <1>1 DEF Stored, Turn
  <1>4. Fits(m, d)
    BY InstructionIs, DoFits DEF Turn
  <1>5. PICK a \in Nat : a = Len(m.out) /\ a = Len(d.out)
    BY <1>3 DEF IsMachine
  <1>6. NewOut(m, d) = {}
    BY <1>5 DEF NewOut
  <1>7. Leads(m, d)
    BY <1>3, <1>4, <1>5, <1>6 DEF Leads, Outs
  <1>8. ASSUME NEW x \in Regs(of) PROVE From(m, d, x, to)
    <2>1. m.reg[x] \in Args(v) /\ m.reg[x] \in 1..Len(m.table)
      BY <1>2, <1>3 DEF IsMachine
    <2>2. Counts(m.table, m.reg[x], {m.reg[x]})
      BY CountsItself
    <2>3. PICK y : y = m.reg[x]
      OBVIOUS
    <2>4. IsMachine(m) /\ y \in 1..Len(m.table) /\ y \in Args(v) /\ Counts(m.table, y, {y})
      BY <1>3, <2>1, <2>2, <2>3
    <2>5. Counts(d.table, id, {y})
      BY ONLY <1>1, <2>4, StoredCounts
    <2>. QED BY <1>3, <2>3, <2>5 DEF From
  <1>9. ASSUME NEW r \in Registers, r # to PROVE From(m, d, r, r)
    BY <1>3, <1>9, CountsItself DEF From
  <1>. QED BY <1>3, <1>6, <1>7, <1>8, <1>9

LEMMA TurnShown ==
  ASSUME NEW m, NEW d, NEW to, NEW f, NEW of, Turn(m, d, to, f, of),
         NEW X, NEW R, Regs(of) \subseteq R, X \subseteq Registers, R \subseteq Registers
  PROVE  Keeps(m, d, X, R, X \ {to}, R \union {to})
  <1>. SUFFICES ASSUME NEW P, Colours(m, P, X, R)
                PROVE  Colours(d, P, X \ {to}, R \union {to})
    BY TurnIs DEF Keeps, Agrees, AllShown
  <1>. DEFINE v == Value(m, f, of)
  <1>1. PICK id \in Nat : Stored(m, d, to, v, id)
    BY TurnStored
  <1>2. Args(v) = {m.reg[x] : x \in Regs(of)} /\ v.f = f /\ f[1] # "seed"
    BY TurnStored DEF Turn
  <1>. HIDE DEF v
  <1>3. Apart(v, P)
    BY <1>2 DEF Apart, Colours
  <1>4. Sealed(d.table, P) /\ id \notin P
    BY <1>1, <1>2, <1>3, Shown DEF Colours, Turn
  <1>5. d.reg[to] = id /\ \A r \in Registers : r # to => d.reg[r] = m.reg[r]
    BY <1>1 DEF Stored
  <1>. QED BY <1>4, <1>5 DEF Colours

LEMMA TurnFresh ==
  ASSUME NEW m, NEW d, NEW to, NEW f, NEW of, Turn(m, d, to, f, of), Fresh(m, f, of)
  PROVE  /\ d.reg[to] = Len(m.table) + 1 /\ UsedBy(d.table, d.reg[to], {})
         /\ Len(m.table) \in Nat /\ Len(d.table) = Len(m.table) + 1
         /\ d.table = Append(m.table, Value(m, f, of))
         /\ \A r \in Registers : m.reg[r] # d.reg[to]
         /\ \A X, R : X \subseteq Registers /\ R \subseteq Registers =>
              /\ ~ Opens(f) => Keeps(m, d, X, R, X \ {to}, R \union {to})
              /\ Regs(of) \intersect X # {} => Keeps(m, d, X, R, X \union {to}, R \ {to})
  <1>. DEFINE v == Value(m, f, of)
  <1>1. PICK id \in Nat : Stored(m, d, to, v, id)
    BY TurnStored
  <1>2. Args(v) = {m.reg[x] : x \in Regs(of)} /\ v.f = f /\ IsMachine(m) /\ v \in AnyTerm
    BY TurnStored DEF Turn
  <1>. HIDE DEF v
  <1>0. IsMachine(m)
    BY <1>2
  <1>3. IsNew(m.table, v)
    <2>1. ASSUME NEW x \in Regs(of), NEW W, UsedBy(m.table, m.reg[x], W), f \notin W
          PROVE  IsNew(m.table, v)
      BY <1>2, <2>1, NewByArgument
    <2>. QED BY <2>1 DEF Fresh, v
  <1>4. id = Len(m.table) + 1 /\ Len(m.table) \in Nat /\ Len(d.table) = id
        /\ d.table = Append(m.table, v)
    BY <1>1, <1>2, <1>3, StoredNew
  <1>5. UsedBy(d.table, id, {})
    BY <1>1, <1>2, <1>4, NewUnused
  <1>6. d.reg[to] = id /\ \A r \in Registers : r # to => d.reg[r] = m.reg[r]
    BY <1>1 DEF Stored
  <1>7. \A r \in Registers : m.reg[r] \in 1..Len(m.table)
    BY <1>2 DEF IsMachine
  <1>8. \A r \in Registers : m.reg[r] # id
    BY <1>4, <1>7
  <1>9. ASSUME NEW X, NEW R, X \subseteq Registers, R \subseteq Registers, ~ Opens(f)
        PROVE  Keeps(m, d, X, R, X \ {to}, R \union {to})
    <2>. SUFFICES ASSUME NEW P, Colours(m, P, X, R)
                  PROVE  Colours(d, P, X \ {to}, R \union {to})
      BY TurnIs DEF Keeps, Agrees, AllShown
    <2>1. Sealed(d.table, P) /\ id \notin P
      BY <1>1, <1>2, <1>4, <1>9, ShownNew DEF Colours
    <2>. QED BY <1>6, <1>9, <2>1 DEF Colours
  <1>10. ASSUME NEW X, NEW R, X \subseteq Registers, R \subseteq Registers,
                Regs(of) \intersect X # {}
         PROVE  Keeps(m, d, X, R, X \union {to}, R \ {to})
    <2>. SUFFICES ASSUME NEW P, Colours(m, P, X, R)
                  PROVE  \E Q : Colours(d, Q, X \union {to}, R \ {to}) /\ Agrees(m, P, Q)
      BY TurnIs DEF Keeps, AllShown
    <2>1. ~ Apart(v, P)
      BY <1>2, <1>10 DEF Colours, Apart
    <2>2. PICK Q : Q = P \union {id}
      OBVIOUS
    <2>3. Sealed(d.table, Q) /\ Agrees(m, P, Q)
      <3>1. Sealed(m.table, P)
        BY DEF Colours
      <3>2. /\ Sealed(d.table, Q)
            /\ \A i \in 1..Len(m.table) : i \in Q <=> i \in P
        BY ONLY <1>0, <1>1, <1>4, <2>1, <2>2, <3>1, Hidden
      <3>. QED BY <3>2 DEF Agrees
    <2>4. /\ \A r \in X \union {to} : d.reg[r] \in Q
          /\ \A r \in R \ {to} : d.reg[r] \notin Q
      BY <1>6, <1>8, <1>10, <2>2 DEF Colours
    <2>. QED BY <2>3, <2>4 DEF Colours
  <1>. QED BY <1>4, <1>5, <1>6, <1>8, <1>9, <1>10 DEF v

LEMMA TurnUsed ==
  ASSUME NEW m, NEW d, NEW to, NEW f, NEW of, Turn(m, d, to, f, of),
         NEW y, NEW W, NEW V, UsedBy(m.table, y, W), W \subseteq V,
         f \in V \/ \A x \in Regs(of) : m.reg[x] # y
  PROVE  UsedBy(d.table, y, V)
  <1>. DEFINE v == Value(m, f, of)
  <1>1. PICK id \in Nat : Stored(m, d, to, v, id)
    BY TurnStored
  <1>2. Args(v) = {m.reg[x] : x \in Regs(of)} /\ v.f = f /\ IsMachine(m)
    BY TurnStored DEF Turn
  <1>. HIDE DEF v
  <1>. QED BY <1>1, <1>2, UsedAfter

-----------------------------------------------------------------------------
(* The instructions that put out a request or a part of it.                *)

\* d comes from m by putting out the values of the functions nm on of.
Output(m, d, nm, n, of) ==
  /\ IsMachine(m) /\ n \in Nat /\ OutNames(nm, n) /\ OutOf(of)
  /\ d = Execute(m, [i \in 1..n |-> Set("out", nm[i], of)])

OutFresh(m, nm, n, of) ==
  \E x \in Regs(of) : \E W : UsedBy(m.table, m.reg[x], W) /\ \A i \in 1..n : nm[i] \notin W

LEMMA OutputPuts ==
  ASSUME NEW m, NEW d, NEW nm, NEW n, NEW of, Output(m, d, nm, n, of),
         OutFresh(m, nm, n, of)
  PROVE  /\ Puts(m, d, nm, of, n)
         /\ \A i \in 1..n : Args(Value(m, nm[i], of)) = {m.reg[x] : x \in Regs(of)}
         /\ Regs(of) \subseteq Registers
  <1>1. PICK x, W : x \in Regs(of) /\ UsedBy(m.table, m.reg[x], W) /\ \A i \in 1..n : nm[i] \notin W
    BY DEF OutFresh
  <1>2. PICK j \in 1..Len(of) : x = of[j]
    BY <1>1 DEF Regs
  <1>3. /\ IsMachine(m) /\ n \in Nat /\ OutNames(nm, n) /\ OutOf(of)
        /\ d = Execute(m, [i \in 1..n |-> Set("out", nm[i], of)])
    BY DEF Output
  <1>4. Puts(m, d, nm, of, n)
    <2>1. UsedBy(m.table, m.reg[of[j]], W) /\ \A i \in 1..n : nm[i] \notin W
      BY <1>1, <1>2
    <2>. QED BY <1>3, <2>1, PutsAll
  <1>5. of \in Seq(Registers)
    BY <1>3 DEF OutOf
  <1>6. ASSUME NEW i \in 1..n
        PROVE  Args(Value(m, nm[i], of)) = {m.reg[y] : y \in Regs(of)}
    <2>1. nm[i] \in Names
      BY <1>3 DEF OutNames
    <2>2. Args(Value(m, nm[i], of)) = {m.reg[of[k]] : k \in 1..Len(of)}
      BY <1>3, <1>5, <2>1, ValueIs
    <2>. QED BY <2>2 DEF Regs
  <1>7. Regs(of) \subseteq Registers
    BY <1>5 DEF Regs
  <1>. QED BY <1>4, <1>6, <1>7

LEMMA OutputIs ==
  ASSUME NEW m, NEW d, NEW nm, NEW n, NEW of, Output(m, d, nm, n, of),
         OutFresh(m, nm, n, of)
  PROVE  /\ Leads(m, d)
         /\ \A r \in Registers : r # "out" => d.reg[r] = m.reg[r] /\ From(m, d, r, r)
         /\ d.seeded = m.seeded /\ d.ctr = m.ctr /\ d.nonce = m.nonce
         /\ \A x \in Regs(of) : OutsFrom(m, d, x)
         /\ \A k \in NewOut(m, d) : \E i \in 1..n : d.out[k] = Len(m.table) + i
         /\ Len(m.table) \in Nat /\ n \in Nat /\ Len(d.table) = Len(m.table) + n
  <1>1. /\ IsMachine(m) /\ n \in Nat /\ OutNames(nm, n)
        /\ d = Execute(m, [i \in 1..n |-> Set("out", nm[i], of)])
    BY DEF Output
  <1>2. Puts(m, d, nm, of, n) /\ Regs(of) \subseteq Registers
    BY OutputPuts
  <1>3. /\ IsMachine(d) /\ Extends(m.table, d.table) /\ Len(d.table) = Len(m.table) + n
        /\ \A r \in Registers : r # "out" => d.reg[r] = m.reg[r]
        /\ Appends(m.out, d.out, n, Len(m.table))
        /\ d.seeded = m.seeded /\ d.ctr = m.ctr /\ d.nonce = m.nonce
    BY <1>2 DEF Puts
  <1>4. PICK A \in Nat, a \in Nat :
          A = Len(m.table) /\ a = Len(m.out) /\ a + n = Len(d.out) /\ Len(d.table) = A + n
    BY <1>1, <1>3 DEF IsMachine, Appends
  <1>5. /\ \A i \in 1..a : d.out[i] = m.out[i]
        /\ \A i \in 1..n : d.out[a + i] = A + i
    BY <1>3, <1>4 DEF Appends
  <1>6. NewOut(m, d) = (a + 1)..(a + n)
    BY <1>4 DEF NewOut
  <1>7. \A k \in NewOut(m, d) : \E i \in 1..n : k = a + i /\ d.out[k] = A + i
    <2>1. ASSUME NEW k \in NewOut(m, d) PROVE \E i \in 1..n : k = a + i
      <3>1. k \in Int /\ k - a \in 1..n /\ k = a + (k - a)
        BY <1>1, <1>4, <1>6
      <3>. QED BY <3>1
    <2>. QED BY <1>5, <2>1
  <1>8. Fits(m, d)
    <2>1. \A i \in 1..n : Set("out", nm[i], of) \in Instruction
      <3>. SUFFICES ASSUME NEW i \in 1..n PROVE Set("out", nm[i], of) \in Instruction
        OBVIOUS
      <3>1. nm[i] \in Names /\ nm[i][1] \notin {"seed", "public"}
        BY <1>1 DEF OutNames
      <3>2. "out" \in Registers /\ of \in Seq(Registers)
        BY DEF Registers, Output, OutOf
      <3>. QED BY <3>1, <3>2, InstructionIs
    <2>2. [i \in 1..n |-> Set("out", nm[i], of)] \in Seq(Instruction)
      BY <1>1, <2>1
    <2>. QED BY <1>1, <2>2, ExecuteFits
  <1>9. Leads(m, d)
    <2>1. \A k \in NewOut(m, d) : d.out[k] \in 1..(A + n) /\ d.out[k] > A
      BY <1>7, <1>1
    <2>2. \A i, j \in NewOut(m, d) : d.out[i] = d.out[j] => i = j
      BY <1>7, <1>1
    <2>. QED BY <1>1, <1>4, <1>5, <1>8, <2>1, <2>2 DEF Leads, Outs
  <1>10. ASSUME NEW x \in Regs(of) PROVE OutsFrom(m, d, x)
    <2>. SUFFICES ASSUME NEW k \in NewOut(m, d)
                  PROVE  Counts(d.table, d.out[k], {m.reg[x]})
      BY DEF OutsFrom
    <2>1. PICK i \in 1..n : d.out[k] = A + i
      BY <1>7
    <2>2. d.table[d.out[k]] = Value(m, nm[i], of)
      BY <1>2, <1>4, <2>1 DEF Puts
    <2>3. m.reg[x] \in Args(d.table[d.out[k]])
      <3>1. Args(Value(m, nm[i], of)) = {m.reg[y] : y \in Regs(of)}
        BY OutputPuts
      <3>. QED BY <2>2, <3>1
    <2>. QED BY <2>3, CountsBy, CountsItself
  <1>11. \A r \in Registers : r # "out" => From(m, d, r, r)
    BY <1>3, CountsItself DEF From
  <1>12. n \in Nat
    BY <1>1
  <1>13. \A k \in NewOut(m, d) : \E i \in 1..n : d.out[k] = Len(m.table) + i
    BY <1>4, <1>7
  <1>. QED BY <1>3, <1>4, <1>9, <1>10, <1>11, <1>12, <1>13

LEMMA OutputKeeps ==
  ASSUME NEW m, NEW d, NEW nm, NEW n, NEW of, Output(m, d, nm, n, of),
         OutFresh(m, nm, n, of), NEW X, NEW R, X \subseteq Registers \ {"out"},
         R \subseteq Registers \ {"out"}
  PROVE  /\ Keeps(m, d, X, R, X, R)
         /\ Regs(of) \intersect X # {} => Burns(m, d, X, R, X, R)
  <1>1. IsMachine(m) /\ n \in Nat /\ OutNames(nm, n) /\ OutOf(of)
    BY DEF Output
  <1>2. Puts(m, d, nm, of, n)
    BY OutputPuts
  <1>3. PICK A \in Nat : A = Len(m.table)
    BY OutputIs
  <1>4. /\ \A k \in NewOut(m, d) : \E i \in 1..n : d.out[k] = A + i
        /\ \A k, l \in NewOut(m, d) : d.out[k] = d.out[l] => k = l
    BY <1>3, OutputIs DEF Leads, Outs
  <1>5. \A r \in X \union R : d.reg[r] = m.reg[r] /\ m.reg[r] \in 1..A
    BY <1>1, <1>3, OutputIs DEF IsMachine
  <1>6. ASSUME NEW P, Colours(m, P, X, R)
        PROVE  /\ Sealed(m.table, P) /\ Sealed(d.table, P) /\ Colours(d, P, X, R)
               /\ AllShown(m, d, P) /\ \A i \in 1..n : A + i \notin P
    <2>1. Sealed(m.table, P)
      BY <1>6 DEF Colours
    <2>2. Sealed(d.table, P)
      BY <1>1, <1>2, <2>1, PutsSealed
    <2>3. P \subseteq 1..A
      BY <1>3, <2>1 DEF Sealed
    <2>4. \A i \in 1..n : A + i \notin P
      BY <1>1, <2>3
    <2>. QED BY <1>4, <1>5, <1>6, <2>1, <2>2, <2>4 DEF Colours, AllShown
  <1>7. Keeps(m, d, X, R, X, R)
    BY <1>6 DEF Keeps, Agrees
  <1>8. ASSUME Regs(of) \intersect X # {} PROVE Burns(m, d, X, R, X, R)
    <2>. SUFFICES ASSUME NEW P, NEW k \in NewOut(m, d), Colours(m, P, X, R)
                  PROVE  \E Q : Colours(d, Q, X, R) /\ Agrees(m, P, Q) /\ OneHidden(m, d, Q, k)
      BY DEF Burns
    <2>1. PICK i \in 1..n : d.out[k] = A + i
      BY <1>4
    <2>2. ~ Apart(Value(m, nm[i], of), P)
      <3>1. PICK x \in Regs(of) : x \in X
        BY <1>8
      <3>2. m.reg[x] \in P /\ m.reg[x] \in Args(Value(m, nm[i], of))
        BY <3>1, OutputPuts DEF Colours
      <3>. QED BY <3>2 DEF Apart
    <2>3. PICK Q : Q = P \union {A + i}
      OBVIOUS
    <2>4. Sealed(d.table, Q)
      BY <1>1, <1>2, <1>3, <1>6, <2>2, <2>3, PutsSealed
    <2>5. A + i \notin 1..A
      BY <1>1
    <2>6. Colours(d, Q, X, R)
      BY <1>5, <2>3, <2>4, <2>5 DEF Colours
    <2>7. Agrees(m, P, Q)
      BY <1>3, <2>3, <2>5 DEF Agrees
    <2>8. OneHidden(m, d, Q, k)
      BY <1>4, <1>6, <2>1, <2>3 DEF OneHidden, AllShown
    <2>. QED BY <2>6, <2>7, <2>8
  <1>. QED BY <1>7, <1>8

LEMMA OutputUsed ==
  ASSUME NEW m, NEW d, NEW nm, NEW n, NEW of, Output(m, d, nm, n, of),
         OutFresh(m, nm, n, of), NEW y, NEW W, NEW V, UsedBy(m.table, y, W), W \subseteq V,
         (\A i \in 1..n : nm[i] \in V) \/ (\A r \in Regs(of) : m.reg[r] # y)
  PROVE  UsedBy(d.table, y, V)
  <1>1. IsMachine(m) /\ n \in Nat /\ OutNames(nm, n) /\ OutOf(of) /\ Puts(m, d, nm, of, n)
    BY OutputPuts DEF Output
  <1>2. (\A i \in 1..n : nm[i] \in V) \/ (\A j \in 1..Len(of) : m.reg[of[j]] # y)
    BY DEF Regs
  <1>3. ASSUME \A i \in 1..n : nm[i] \in V PROVE UsedBy(d.table, y, V)
    BY ONLY <1>1, <1>3, UsedBy(m.table, y, W), W \subseteq V, PutsUsed
  <1>4. ASSUME \A j \in 1..Len(of) : m.reg[of[j]] # y PROVE UsedBy(d.table, y, V)
    BY ONLY <1>1, <1>4, UsedBy(m.table, y, W), W \subseteq V, PutsUsed
  <1>. QED BY <1>2, <1>3, <1>4

-----------------------------------------------------------------------------
(* The same with smaller sets of registers.                                *)

LEMMA TurnHides ==
  ASSUME NEW m, NEW d, NEW to, NEW f, NEW of, Turn(m, d, to, f, of), Fresh(m, f, of),
         NEW X, NEW R, X \subseteq Registers, R \subseteq Registers,
         NEW x \in X, x \in Regs(of),
         NEW Y, NEW S, Y \subseteq X \union {to}, S \subseteq R \ {to}
  PROVE  Keeps(m, d, X, R, Y, S)
  <1>1. Keeps(m, d, X, R, X \union {to}, R \ {to})
    <2>1. Regs(of) \intersect X # {}
      OBVIOUS
    <2>. QED BY <2>1, TurnFresh
  <1>. QED BY <1>1, KeepsLess

LEMMA TurnReveals ==
  ASSUME NEW m, NEW d, NEW to, NEW f, NEW of, Turn(m, d, to, f, of), Fresh(m, f, of),
         ~ Opens(f), NEW X, NEW R, X \subseteq Registers, R \subseteq Registers,
         NEW Y, NEW S, Y \subseteq X \ {to}, S \subseteq R \union {to}
  PROVE  Keeps(m, d, X, R, Y, S)
  <1>1. Keeps(m, d, X, R, X \ {to}, R \union {to})
    BY TurnFresh
  <1>. QED BY <1>1, KeepsLess

LEMMA TurnPasses ==
  ASSUME NEW m, NEW d, NEW to, NEW f, NEW of, Turn(m, d, to, f, of),
         NEW X, NEW R, X \subseteq Registers, R \subseteq Registers, Regs(of) \subseteq R,
         NEW Y, NEW S, Y \subseteq X \ {to}, S \subseteq R \union {to}
  PROVE  Keeps(m, d, X, R, Y, S)
  <1>1. Keeps(m, d, X, R, X \ {to}, R \union {to})
    BY TurnShown
  <1>. QED BY <1>1, KeepsLess

\* A piece that puts out nothing and one that does.
LEMMA BurnsAfter ==
  ASSUME NEW m, NEW d, NEW e, Leads(m, d), Leads(d, e), d.out = m.out,
         NEW X, NEW R, NEW Y, NEW S, NEW Z, NEW U,
         Keeps(m, d, X, R, Y, S), Burns(d, e, Y, S, Z, U)
  PROVE  Burns(m, e, X, R, Z, U)
  <1>. SUFFICES ASSUME NEW P, NEW k \in NewOut(m, e), Colours(m, P, X, R)
                PROVE  \E O : Colours(e, O, Z, U) /\ Agrees(m, P, O) /\ OneHidden(m, e, O, k)
    BY DEF Burns
  <1>0. k \in NewOut(d, e) /\ NewOut(m, d) = {}
    BY OutsOn, BurnsNothing
  <1>1. PICK Q : Colours(d, Q, Y, S) /\ Agrees(m, P, Q) /\ AllShown(m, d, Q)
    BY DEF Keeps
  <1>2. PICK O : Colours(e, O, Z, U) /\ Agrees(d, Q, O) /\ OneHidden(d, e, O, k)
    BY <1>0, <1>1 DEF Burns
  <1>3. OneHidden(m, e, O, k)
    BY <1>0, <1>2, OutsOn DEF OneHidden
  <1>. QED BY <1>1, <1>2, <1>3, AgreesOn

\* The inputs of a call.
IsInput(in) == in \in Seq(Registers) /\ Regs(in) \subseteq {"in", "opt"}

LEMMA RegsOne ==
  ASSUME NEW a \in Registers
  PROVE  <<a>> \in Seq(Registers) /\ Regs(<<a>>) = {a}
  BY DEF Regs

LEMMA RegsTwo ==
  ASSUME NEW a \in Registers, NEW b \in Registers
  PROVE  <<a, b>> \in Seq(Registers) /\ Regs(<<a, b>>) = {a, b}
  <1>1. <<a, b>> \in Seq(Registers)
    BY Pairs
  <1>2. Regs(<<a, b>>) = {a, b}
    <2>1. Len(<<a, b>>) = 2 /\ <<a, b>>[1] = a /\ <<a, b>>[2] = b /\ 1..2 = {1, 2}
      OBVIOUS
    <2>. QED BY <2>1 DEF Regs
  <1>. QED BY <1>1, <1>2

LEMMA RegsCat ==
  ASSUME NEW p \in Seq(Registers), NEW q \in Seq(Registers)
  PROVE  p \o q \in Seq(Registers) /\ Regs(p \o q) = Regs(p) \union Regs(q)
  <1>1. PICK w : w = p \o q
    OBVIOUS
  <1>2. PICK k \in Nat, l \in Nat : k = Len(p) /\ l = Len(q)
    OBVIOUS
  <1>3. /\ w \in Seq(Registers) /\ Len(w) = k + l /\ \A i \in 1..k : w[i] = p[i]
        /\ \A i \in 1..(k + l) : i > k => w[i] = q[i - k]
    BY <1>1, <1>2
  <1>4. ASSUME NEW x \in Regs(w) PROVE x \in Regs(p) \union Regs(q)
    <2>1. PICK i \in 1..(k + l) : x = w[i]
      BY <1>3 DEF Regs
    <2>2. CASE i <= k
      BY <1>2, <1>3, <2>1, <2>2 DEF Regs
    <2>3. CASE i > k
      <3>1. i - k \in 1..l
        BY <2>3
      <3>. QED BY <1>2, <1>3, <2>1, <2>3, <3>1 DEF Regs
    <2>. QED BY <2>2, <2>3
  <1>5. ASSUME NEW x \in Regs(p) PROVE x \in Regs(w)
    <2>1. PICK i \in 1..k : x = p[i]
      BY <1>2, <1>5 DEF Regs
    <2>2. i \in 1..(k + l)
      OBVIOUS
    <2>. QED BY <1>3, <2>1, <2>2 DEF Regs
  <1>6. ASSUME NEW x \in Regs(q) PROVE x \in Regs(w)
    <2>1. PICK i \in 1..l : x = q[i]
      BY <1>2, <1>6 DEF Regs
    <2>2. PICK j \in Nat : j = k + i
      OBVIOUS
    <2>3. j \in 1..(k + l) /\ j > k /\ j - k = i
      BY <2>2
    <2>4. w[j] = q[i]
      BY <1>3, <2>3
    <2>. QED BY <1>3, <2>1, <2>3, <2>4 DEF Regs
  <1>. QED BY <1>1, <1>3, <1>4, <1>5, <1>6

LEMMA RegsPrefix ==
  ASSUME NEW a \in Registers, NEW in, IsInput(in), NEW of, of = <<a>> \o in
  PROVE  of \in Seq(Registers) /\ Regs(of) = {a} \union Regs(in)
  BY RegsOne, RegsCat DEF IsInput

LEMMA TurnTo ==
  ASSUME NEW m, IsMachine(m), NEW to \in Registers, to # "out",
         NEW f \in Names, f[1] \notin {"seed", "public"}, NEW of \in Seq(Registers),
         NEW d, d = Do(m, Set(to, f, of))
  PROVE  Turn(m, d, to, f, of)
  BY DEF Turn

LEMMA FreshBy ==
  ASSUME NEW m, NEW of, NEW f, NEW x \in Regs(of), NEW W, UsedBy(m.table, m.reg[x], W), f \notin W
  PROVE  Fresh(m, f, of)
  BY DEF Fresh

LEMMA FreshUnused ==
  ASSUME NEW m, NEW of, NEW f, NEW x \in Regs(of), UsedBy(m.table, m.reg[x], {})
  PROVE  Fresh(m, f, of)
  BY DEF Fresh

LEMMA UsedOnce ==
  ASSUME NEW m, NEW d, NEW to, NEW f, NEW of, Turn(m, d, to, f, of),
         NEW y, UsedBy(m.table, y, {})
  PROVE  UsedBy(d.table, y, {f})
  BY TurnUsed

LEMMA UsedSame ==
  ASSUME NEW m, NEW d, NEW to, NEW f, NEW of, Turn(m, d, to, f, of),
         NEW y, NEW W, UsedBy(m.table, y, W), \A x \in Regs(of) : m.reg[x] # y
  PROVE  UsedBy(d.table, y, W)
  BY TurnUsed

\* The program that puts out n values.
LEMMA OutputTo ==
  ASSUME NEW m, IsMachine(m), NEW n \in Nat, NEW nm, OutNames(nm, n), NEW of, OutOf(of),
         NEW p, p = [i \in 1..n |-> Set("out", nm[i], of)], NEW d, d = Execute(m, p)
  PROVE  Output(m, d, nm, n, of) /\ p \in Seq(Instruction) /\ IsMachine(d)
  <1>1. \A i \in 1..n : Set("out", nm[i], of) \in Instruction
    <2>. SUFFICES ASSUME NEW i \in 1..n PROVE Set("out", nm[i], of) \in Instruction
      OBVIOUS
    <2>1. nm[i] \in Names /\ nm[i][1] \notin {"seed", "public"}
      BY DEF OutNames
    <2>2. "out" \in Registers /\ of \in Seq(Registers)
      BY DEF Registers, OutOf
    <2>. QED BY <2>1, <2>2, InstructionIs
  <1>2. p \in Seq(Instruction)
    BY <1>1
  <1>3. IsMachine(d)
    BY <1>2, ExecuteFits DEF Fits
  <1>. QED BY <1>2, <1>3 DEF Output

-----------------------------------------------------------------------------
(* What a generator has to do.                                             *)

Key(g) == IF g \in {"xof", "hash"} THEN "V" ELSE "K"

\* The registers that are hidden and those that are shown, in one of two ways.
Secret(g, b) == CASE g = "xof"    -> {"V"}
                  [] g = "hash"   -> IF b THEN {"V", "K"} ELSE {"V"}
                  [] g = "hmac"   -> {"K", "V"}
                  [] g = "ctr"    -> {"K", "V"}
                  [] g = "chacha" -> {"K"}
Lasting == {"K", "V", "df"}
Public(g, b) == Lasting \ Secret(g, b)
Inputs == {"in", "opt"}

\* What its memory was used for when it is at rest.
AtRest(g, m) ==
  CASE g = "xof"    -> UsedBy(m.table, m.reg["V"], {})
    [] g = "hash"   -> UsedBy(m.table, m.reg["V"], {F("df0")})
    [] g = "hmac"   -> UsedBy(m.table, m.reg["V"], {})
    [] g = "ctr"    -> /\ m.ctr # 0
                       /\ UsedBy(m.table, m.reg["K"], {<<"aes", k>> : k \in 0..(m.ctr - 1)})
    [] g = "chacha" -> UsedBy(m.table, m.reg["K"], {})

\* The register that the generator does not use.
Idle(g, m, d) == /\ g = "xof" => d.reg["K"] = m.reg["K"]
                 /\ g = "chacha" => d.reg["V"] = m.reg["V"]

LEMMA IdleElse ==
  ASSUME NEW g, g \notin {"xof", "chacha"}, NEW m, NEW d
  PROVE  Idle(g, m, d)
  BY DEF Idle

\* A seeded generator puts out blocks that depend on its key and on the input;
\* if its memory is hidden it stays so, or any one block can be hidden instead.
Generation(g, m, d, in) ==
  /\ Leads(m, d) /\ AtRest(g, d) /\ d.seeded = m.seeded /\ Idle(g, m, d)
  /\ From(m, d, Key(g), Key(g)) /\ OutsFrom(m, d, Key(g))
  /\ \A x \in Regs(in) : OutsFrom(m, d, x)
  /\ \A b \in BOOLEAN :
       Keeps(m, d, Secret(g, b), Public(g, b) \union Inputs, Secret(g, b), Public(g, b))
  /\ Burns(m, d, Secret(g, FALSE), Public(g, FALSE) \union Inputs, {}, Lasting)

\* After seeding everything depends on the seed, and is hidden if only it is.
Seeding(g, m, d, in) ==
  /\ Leads(m, d) /\ AtRest(g, d) /\ d.seeded /\ d.out = m.out /\ Idle(g, m, d)
  /\ \A x \in Regs(in) : From(m, d, x, Key(g))
  /\ m.seeded => From(m, d, Key(g), Key(g))
  /\ \A b \in BOOLEAN :
       Keeps(m, d, {"in"}, Registers \ {"in"}, Secret(g, b), Public(g, b))

\* The flag and the counters can be changed afterwards.
Same(d, e) == /\ IsMachine(d) /\ IsMachine(e)
              /\ d.table = e.table /\ d.reg = e.reg /\ d.out = e.out

LEMMA SameIs ==
  ASSUME NEW d, NEW e, Same(d, e), NEW m, Leads(m, d)
  PROVE  /\ Leads(m, e) /\ \A x, y : From(m, d, x, y) => From(m, e, x, y)
         /\ \A x : OutsFrom(m, d, x) => OutsFrom(m, e, x)
         /\ \A X, R, Y, S : Keeps(m, d, X, R, Y, S) => Keeps(m, e, X, R, Y, S)
         /\ \A X, R, Y, S : Burns(m, d, X, R, Y, S) => Burns(m, e, X, R, Y, S)
         /\ \A r : From(d, e, r, r)
  <1>1. NewOut(m, e) = NewOut(m, d)
    BY DEF Same, NewOut
  <1>2. Leads(m, e)
    <2>1. Outs(m, e)
      BY <1>1 DEF Same, Leads, Outs
    <2>2. \A P : Free(d, P) => Free(e, P)
      BY DEF Same, Free
    <2>. QED BY <2>1, <2>2 DEF Same, Leads, Fits
  <1>3. \A x, y : From(m, d, x, y) => From(m, e, x, y)
    BY DEF Same, From
  <1>4. \A x : OutsFrom(m, d, x) => OutsFrom(m, e, x)
    BY <1>1 DEF Same, OutsFrom
  <1>5. \A Q, Y, S : Colours(d, Q, Y, S) => Colours(e, Q, Y, S)
    BY DEF Same, Colours
  <1>6. \A Q : AllShown(m, d, Q) => AllShown(m, e, Q)
    BY <1>1 DEF Same, AllShown
  <1>7. \A Q, k : OneHidden(m, d, Q, k) => OneHidden(m, e, Q, k)
    BY <1>1 DEF Same, OneHidden
  <1>8. ASSUME NEW X, NEW R, NEW Y, NEW S, Keeps(m, d, X, R, Y, S)
        PROVE  Keeps(m, e, X, R, Y, S)
    BY <1>5, <1>6, <1>8 DEF Keeps
  <1>9. ASSUME NEW X, NEW R, NEW Y, NEW S, Burns(m, d, X, R, Y, S)
        PROVE  Burns(m, e, X, R, Y, S)
    BY <1>1, <1>5, <1>7, <1>9 DEF Burns
  <1>10. \A r : From(d, e, r, r)
    BY CountsItself DEF Same, From
  <1>. QED BY <1>2, <1>3, <1>4, <1>8, <1>9, <1>10

-----------------------------------------------------------------------------
(* XDRBG.                                                                  *)

Rest4 == {"K", "df", "in", "opt"}

XofPiece(m, d, in) ==
  /\ Leads(m, d) /\ UsedBy(d.table, d.reg["V"], {})
  /\ \A r \in Rest4 : d.reg[r] = m.reg[r] /\ From(m, d, r, r)
  /\ d.seeded = m.seeded /\ d.ctr = m.ctr /\ d.nonce = m.nonce
  /\ From(m, d, "V", "V") /\ OutsFrom(m, d, "V") /\ \A x \in Regs(in) : OutsFrom(m, d, x)
  /\ Keeps(m, d, {"V"}, Rest4, {"V"}, Rest4)
  /\ Keeps(m, d, {}, Rest4 \union {"V"}, {}, Rest4 \union {"V"})
  /\ Burns(m, d, {"V"}, Rest4, {}, Rest4 \union {"V"})

LEMMA XofPieceOn ==
  ASSUME NEW m, NEW d, NEW e, NEW in, IsInput(in), XofPiece(m, d, in), XofPiece(d, e, in)
  PROVE  XofPiece(m, e, in)
  <1>1. Leads(m, d) /\ Leads(d, e) /\ Leads(m, e)
    BY LeadsOn DEF XofPiece
  <1>2. "V" \in Registers /\ Rest4 \subseteq Registers /\ Regs(in) \subseteq Rest4
    BY DEF Registers, Rest4, IsInput
  <1>3. From(m, e, "V", "V") /\ OutsFrom(m, e, "V")
    BY <1>1, <1>2, FromOn, OutsFromOn DEF XofPiece
  <1>4. \A x \in Rest4 : e.reg[x] = m.reg[x] /\ From(m, e, x, x)
    BY <1>1, <1>2, FromOn DEF XofPiece
  <1>5. \A x \in Regs(in) : OutsFrom(m, e, x)
    BY <1>1, <1>2, OutsFromOn DEF XofPiece
  <1>6. /\ Keeps(m, e, {"V"}, Rest4, {"V"}, Rest4)
        /\ Keeps(m, e, {}, Rest4 \union {"V"}, {}, Rest4 \union {"V"})
    BY <1>1, KeepsOn DEF XofPiece
  <1>7. Burns(m, e, {"V"}, Rest4, {}, Rest4 \union {"V"})
    BY <1>1, BurnsOn DEF XofPiece
  <1>. QED BY <1>1, <1>3, <1>4, <1>5, <1>6, <1>7 DEF XofPiece

LEMMA XofSteps ==
  ASSUME NEW m, NEW d, NEW e, NEW g, NEW in, IsInput(in), UsedBy(m.table, m.reg["V"], {}),
         NEW of, Regs(of) = {"V"} \union Regs(in), NEW fg, Turn(m, d, "T", fg, of),
         NEW ff, Turn(d, e, "V", ff, <<"T">>), ~ Opens(ff),
         NEW n, NEW nm, \A i \in 1..n : nm[i] # ff, Output(e, g, nm, n, <<"T">>)
  PROVE  XofPiece(m, g, in)
  <1>1. /\ {"V", "T", "out", "K", "df", "in", "opt"} \subseteq Registers
        /\ Regs(in) \subseteq {"in", "opt"} /\ "V" \in Registers /\ "T" \in Registers
    BY DEF Registers, IsInput
  <1>2. Regs(of) = {"V"} \union Regs(in)
    OBVIOUS
  <1>3. <<"T">> \in Seq(Registers) /\ Regs(<<"T">>) = {"T"}
    BY <1>1, RegsOne
  <1>8. Turn(m, d, "T", fg, of) /\ Fresh(m, fg, of)
    BY <1>2, FreshUnused
  <1>9. /\ Leads(m, d) /\ IsMachine(d) /\ UsedBy(d.table, d.reg["T"], {}) /\ d.out = m.out
        /\ \A r \in Registers : r # "T" => d.reg[r] = m.reg[r] /\ From(m, d, r, r)
        /\ \A x \in Regs(of) : From(m, d, x, "T")
    BY <1>8, TurnIs, TurnFresh, LeadsTyped
  <1>10. Turn(d, e, "V", ff, <<"T">>) /\ Fresh(d, ff, <<"T">>)
    BY <1>3, <1>9, FreshUnused
  <1>11. /\ Leads(d, e) /\ IsMachine(e) /\ UsedBy(e.table, e.reg["V"], {}) /\ e.out = d.out
         /\ \A r \in Registers : r # "V" => e.reg[r] = d.reg[r] /\ From(d, e, r, r)
         /\ From(d, e, "T", "V") /\ e.reg["V"] # d.reg["T"]
    BY <1>1, <1>3, <1>10, TurnIs, TurnFresh, LeadsTyped
  <1>12. UsedBy(e.table, e.reg["T"], {ff})
    <2>1. UsedBy(e.table, d.reg["T"], {ff})
      BY <1>9, <1>10, UsedOnce
    <2>. QED BY <1>1, <1>11, <2>1
  <1>13. Output(e, g, nm, n, <<"T">>) /\ OutFresh(e, nm, n, <<"T">>)
    BY <1>3, <1>12 DEF OutFresh
  <1>14. /\ Leads(e, g)
         /\ \A r \in Registers : r # "out" => g.reg[r] = e.reg[r] /\ From(e, g, r, r)
         /\ OutsFrom(e, g, "T")
    BY <1>3, <1>13, OutputIs
  <1>15. UsedBy(g.table, g.reg["V"], {})
    <2>1. e.reg["T"] # e.reg["V"] /\ g.reg["V"] = e.reg["V"]
      BY <1>1, <1>11, <1>14
    <2>. QED BY <1>3, <1>11, <1>13, <2>1, OutputUsed
  <1>16. Leads(m, e) /\ Leads(m, g) /\ e.out = m.out
    BY <1>9, <1>11, <1>14, LeadsOn
  <1>17. g.seeded = m.seeded /\ g.ctr = m.ctr /\ g.nonce = m.nonce
    <2>1. d.seeded = m.seeded /\ d.ctr = m.ctr /\ d.nonce = m.nonce
      BY <1>8, TurnIs
    <2>2. e.seeded = d.seeded /\ e.ctr = d.ctr /\ e.nonce = d.nonce
      BY <1>10, TurnIs
    <2>3. g.seeded = e.seeded /\ g.ctr = e.ctr /\ g.nonce = e.nonce
      BY <1>13, OutputIs
    <2>. QED BY <2>1, <2>2, <2>3
  <1>18. \A x \in Regs(of) : From(m, e, x, "V") /\ From(m, e, x, "T")
    BY <1>1, <1>9, <1>11, FromOn
  <1>19. \A x \in Regs(of) : OutsFrom(m, g, x)
    BY <1>1, <1>14, <1>16, <1>18, OutsFromOn, BurnsNothing
  <1>20. From(m, g, "V", "V")
    BY <1>1, <1>2, <1>14, <1>16, <1>18, FromOn
  <1>21. \A r \in Rest4 : g.reg[r] = m.reg[r] /\ From(m, g, r, r)
    <2>1. \A r \in Rest4 : r \in Registers /\ r # "T" /\ r # "V" /\ r # "out"
      BY <1>1 DEF Rest4
    <2>2. \A r \in Rest4 : From(m, e, r, r)
      BY <1>9, <1>11, <2>1, FromOn
    <2>3. \A r \in Rest4 : From(m, g, r, r)
      BY <1>14, <1>16, <2>1, <2>2, FromOn
    <2>. QED BY <1>9, <1>11, <1>14, <2>1, <2>3
  <1>. DEFINE RV == Rest4 \union {"V"}
  <1>22. Rest4 \subseteq Registers \ {"out", "T", "V"} /\ RV \subseteq Registers \ {"out", "T"}
    BY <1>1 DEF Rest4
  <1>23. Keeps(m, d, {"V"}, Rest4, {"V", "T"}, Rest4)
    BY <1>1, <1>2, <1>8, <1>22, TurnHides
  <1>24. Keeps(d, e, {"V", "T"}, Rest4, {"V", "T"}, Rest4)
    BY <1>1, <1>3, <1>10, <1>22, TurnHides
  <1>25. Keeps(d, e, {"V", "T"}, Rest4, {"T"}, RV)
    BY <1>1, <1>10, <1>22, TurnReveals
  <1>26. Keeps(m, d, {}, RV, {}, RV \union {"T"})
    <2>1. Regs(of) \subseteq RV
      BY <1>1, <1>2 DEF Rest4
    <2>. QED BY <1>1, <1>8, <1>22, <2>1, TurnPasses
  <1>27. Keeps(d, e, {}, RV \union {"T"}, {}, RV)
    BY <1>1, <1>3, <1>10, <1>22, TurnPasses
  <1>28. /\ Keeps(e, g, {"V", "T"}, Rest4, {"V", "T"}, Rest4)
         /\ Keeps(e, g, {}, RV, {}, RV) /\ Burns(e, g, {"T"}, RV, {"T"}, RV)
    BY <1>1, <1>3, <1>13, <1>22, OutputKeeps
  <1>. HIDE DEF RV
  <1>29. Keeps(m, g, {"V"}, Rest4, {"V", "T"}, Rest4)
    <2>1. Keeps(m, e, {"V"}, Rest4, {"V", "T"}, Rest4)
      BY <1>9, <1>11, <1>23, <1>24, KeepsOn
    <2>. QED BY <1>14, <1>16, <1>28, <2>1, KeepsOn
  <1>30. Keeps(m, g, {"V"}, Rest4, {"V"}, Rest4)
    BY <1>29, KeepsLess
  <1>31. Keeps(m, g, {}, RV, {}, RV)
    <2>1. Keeps(m, e, {}, RV, {}, RV)
      BY <1>9, <1>11, <1>26, <1>27, KeepsOn
    <2>. QED BY <1>14, <1>16, <1>28, <2>1, KeepsOn
  <1>32. Burns(m, g, {"V"}, Rest4, {}, RV)
    <2>1. Keeps(m, e, {"V"}, Rest4, {"T"}, RV)
      BY <1>9, <1>11, <1>23, <1>25, KeepsOn
    <2>2. Burns(m, g, {"V"}, Rest4, {"T"}, RV)
      BY <1>14, <1>16, <1>28, <2>1, BurnsAfter
    <2>. QED BY <2>2, BurnsLess
  <1>33. OutsFrom(m, g, "V") /\ \A x \in Regs(in) : OutsFrom(m, g, x)
    BY <1>2, <1>19
  <1>. QED BY <1>15, <1>16, <1>17, <1>20, <1>21, <1>30, <1>31, <1>32, <1>33 DEF XofPiece, RV

-----------------------------------------------------------------------------
(* Programs as turns.                                                      *)

\* The name of a function, and of one that is one-way.
Function(f) == f \in Names /\ f[1] \notin {"seed", "public"}
OneWay(f) == Function(f) /\ ~ Opens(f)

LEMMA FunctionIs ==
  ASSUME NEW a \in Words, NEW i \in Nat, a \notin {"seed", "public"}
  PROVE  /\ Function(<<a, i>>) /\ <<a, i>>[1] = a /\ <<a, i>>[2] = i
         /\ a \notin {"cat", "copy", "xor"} => OneWay(<<a, i>>)
  BY NameIs DEF Function, OneWay, Opens

LEMMA TurnOf ==
  ASSUME NEW m, IsMachine(m), NEW to \in Registers, to # "out", NEW f, Function(f),
         NEW of \in Seq(Registers), NEW s, s = Set(to, f, of), NEW d, d = Do(m, s)
  PROVE  Turn(m, d, to, f, of) /\ s \in Instruction /\ IsMachine(d)
  <1>1. Turn(m, d, to, f, of)
    BY DEF Turn, Function
  <1>2. s \in Instruction
    BY InstructionIs DEF Function
  <1>3. IsMachine(d)
    BY <1>1, TurnIs, LeadsTyped
  <1>. QED BY <1>1, <1>2, <1>3

LEMMA ExecuteThen ==
  ASSUME NEW m, NEW a \in Instruction, NEW b \in Instruction, NEW q \in Seq(Instruction)
  PROVE  Execute(m, <<a, b>> \o q) = Execute(Do(Do(m, a), b), q)
  <1>1. PICK p \in Seq(Instruction) : p = <<a, b>>
    BY Pairs
  <1>2. Execute(m, p \o q) = Execute(Execute(m, p), q)
    BY ExecuteCat
  <1>3. Execute(m, p) = Do(Do(m, a), b)
    BY <1>1, ExecuteTwo
  <1>. QED BY <1>1, <1>2, <1>3

\* Blocks that are numbered.
LEMMA Numbered ==
  ASSUME NEW n \in Nat, NEW k \in Nat, NEW nm,
         \A i \in 1..n : OneWay(nm[i]) /\ nm[i][2] = k + i
  PROVE  OutNames(nm, n)
  <1>1. \A i, j \in 1..n : nm[i] = nm[j] => i = j
    <2>. SUFFICES ASSUME NEW i \in 1..n, NEW j \in 1..n, nm[i] = nm[j] PROVE i = j
      OBVIOUS
    <2>1. k + i = k + j
      OBVIOUS
    <2>. QED BY ONLY <2>1, k \in Nat, i \in 1..n, j \in 1..n, n \in Nat
  <1>. QED BY <1>1 DEF OutNames, OneWay, Function

XofChunk(in, k) == << Set("T", F("generate"), <<"V">> \o in), Set("V", F("first"), <<"T">>) >>
                   \o [i \in 1..k |-> Set("out", <<"rest", i>>, <<"T">>)]

LEMMA XofNames ==
  /\ Function(F("generate")) /\ Function(F("instantiate")) /\ Function(F("reseed"))
  /\ OneWay(F("first")) /\ F("first")[1] = "first"
  /\ \A i \in Nat : OneWay(<<"rest", i>>) /\ <<"rest", i>>[1] = "rest" /\ <<"rest", i>>[2] = i
  <1>0. {"generate", "instantiate", "reseed", "first", "rest"} \subseteq Words
    BY DEF Words
  <1>1. Function(F("generate"))
    BY <1>0, FunctionIs DEF F
  <1>2. Function(F("instantiate"))
    BY <1>0, FunctionIs DEF F
  <1>3. Function(F("reseed"))
    BY <1>0, FunctionIs DEF F
  <1>4. OneWay(F("first")) /\ F("first")[1] = "first"
    BY <1>0, FunctionIs DEF F
  <1>5. ASSUME NEW i \in Nat
        PROVE  OneWay(<<"rest", i>>) /\ <<"rest", i>>[1] = "rest" /\ <<"rest", i>>[2] = i
    BY <1>0, FunctionIs
  <1>. QED BY <1>1, <1>2, <1>3, <1>4, <1>5

LEMMA XofChunkIs ==
  ASSUME NEW m, IsMachine(m), NEW in, IsInput(in), UsedBy(m.table, m.reg["V"], {}),
         NEW k \in Nat
  PROVE  XofPiece(m, Execute(m, XofChunk(in, k)), in)
  <1>1. PICK fg, ff : fg = F("generate") /\ ff = F("first")
    OBVIOUS
  <1>2. Function(fg) /\ Function(ff) /\ ~ Opens(ff) /\ ff[1] = "first"
    BY <1>1, XofNames DEF OneWay
  <1>3. PICK of, ot : of = <<"V">> \o in /\ ot = <<"T">>
    OBVIOUS
  <1>4. "V" \in Registers /\ "T" \in Registers /\ "V" # "out" /\ "T" # "out"
    BY DEF Registers
  <1>5. of \in Seq(Registers) /\ Regs(of) = {"V"} \union Regs(in)
    BY <1>3, <1>4, RegsPrefix
  <1>6. ot \in Seq(Registers) /\ Regs(ot) = {"T"}
    BY <1>3, <1>4, RegsOne
  <1>7. PICK a, b : a = Set("T", fg, of) /\ b = Set("V", ff, ot)
    OBVIOUS
  <1>8. PICK d : d = Do(m, a)
    OBVIOUS
  <1>9. PICK e : e = Do(d, b)
    OBVIOUS
  <1>10. Turn(m, d, "T", fg, of) /\ a \in Instruction /\ IsMachine(d)
    BY <1>2, <1>4, <1>5, <1>7, <1>8, TurnOf
  <1>11. Turn(d, e, "V", ff, ot) /\ b \in Instruction /\ IsMachine(e)
    BY <1>2, <1>4, <1>6, <1>7, <1>9, <1>10, TurnOf
  <1>12. PICK nm : nm = [i \in 1..k |-> <<"rest", i>>]
    OBVIOUS
  <1>13. PICK q : q = [i \in 1..k |-> Set("out", nm[i], ot)]
    OBVIOUS
  <1>14. ASSUME NEW i \in 1..k PROVE OneWay(nm[i]) /\ nm[i][1] = "rest" /\ nm[i][2] = 0 + i
    <2>1. nm[i] = <<"rest", i>> /\ i \in Nat /\ 0 + i = i
      BY <1>12
    <2>. QED BY <2>1, XofNames
  <1>15. OutNames(nm, k) /\ \A i \in 1..k : nm[i][1] = "rest"
    BY <1>14, Numbered
  <1>16. PICK g : g = Execute(e, q)
    OBVIOUS
  <1>17. OutOf(ot)
    BY <1>3, <1>6 DEF OutOf
  <1>18. Output(e, g, nm, k, ot) /\ q \in Seq(Instruction)
    BY <1>11, <1>13, <1>15, <1>16, <1>17, OutputTo
  <1>19. XofChunk(in, k) = <<a, b>> \o q
    <2>1. q = [i \in 1..k |-> Set("out", <<"rest", i>>, ot)]
      BY <1>12, <1>13
    <2>. QED BY <1>1, <1>3, <1>7, <2>1 DEF XofChunk
  <1>20. Execute(m, XofChunk(in, k)) = g
    BY <1>8, <1>9, <1>10, <1>11, <1>16, <1>18, <1>19, ExecuteThen
  <1>21. XofPiece(m, g, in)
    <2>1. \A i \in 1..k : nm[i] # ff
      BY <1>2, <1>15
    <2>. QED BY <1>2, <1>3, <1>5, <1>10, <1>11, <1>18, <2>1, XofSteps
  <1>. QED BY <1>20, <1>21

LEMMA XofPieceItself ==
  ASSUME NEW m, IsMachine(m), UsedBy(m.table, m.reg["V"], {}), NEW in
  PROVE  XofPiece(m, m, in)
  <1>1. Leads(m, m)
    BY LeadsItself
  <1>2. \A r : From(m, m, r, r)
    BY CountsItself DEF From
  <1>3. \A x : OutsFrom(m, m, x)
    BY <1>1, BurnsNothing
  <1>4. \A X, R, Y, S : Burns(m, m, X, R, Y, S)
    BY <1>1, BurnsNothing
  <1>5. \A X, R : Keeps(m, m, X, R, X, R)
    BY KeepsItself
  <1>. QED BY <1>1, <1>2, <1>3, <1>4, <1>5 DEF XofPiece

LEMMA XofGenerateIs ==
  ASSUME NEW m, IsMachine(m), AtRest("xof", m), NEW n \in Nat, NEW in, IsInput(in)
  PROVE  Generation("xof", m, XofGenerate(m, n, in), in)
  <1>. DEFINE todo(c) == IF c * ChunkSize <= n THEN ChunkSize ELSE n % ChunkSize
              k == (n + ChunkSize - 1) \div ChunkSize
              p == [c \in 1..k |-> XofChunk(in, todo(c))]
  <1>1. ChunkSize \in Nat \ {0} /\ k \in Nat
    BY DrbgAssumption
  <1>2. \A c \in 1..k : todo(c) \in Nat
    BY <1>1
  <1>3. Len(p) = k /\ \A c \in 1..k : p[c] = XofChunk(in, todo(c))
    BY <1>1
  <1>4. XofGenerate(m, n, in) = Repeat(m, p)
    BY DEF XofGenerate, XofChunk
  <1>5. UsedBy(m.table, m.reg["V"], {})
    BY DEF AtRest
  <1>. HIDE DEF todo, k, p
  <1>6. PICK f : IsRound(f, m, p, k) /\ Repeat(m, p) = f[k]
    BY <1>1, <1>3, RepeatTurns
  <1>. DEFINE S == {i \in Nat : i <= k => XofPiece(m, f[i], in)}
  <1>7. 0 \in S
    BY <1>5, <1>6, XofPieceItself DEF IsRound
  <1>8. ASSUME NEW i \in Nat, i \in S PROVE i + 1 \in S
    <2>. SUFFICES ASSUME i + 1 <= k PROVE XofPiece(m, f[i + 1], in)
      OBVIOUS
    <2>1. i + 1 \in 1..k /\ (i + 1) - 1 = i /\ i <= k
      BY <1>1
    <2>2. f[i + 1] = Execute(f[i], XofChunk(in, todo(i + 1)))
      BY <1>3, <1>6, <2>1 DEF IsRound
    <2>3. XofPiece(m, f[i], in)
      BY <1>8, <2>1
    <2>4. IsMachine(f[i]) /\ UsedBy(f[i].table, f[i].reg["V"], {})
      BY <2>3, LeadsTyped DEF XofPiece
    <2>5. XofPiece(f[i], f[i + 1], in)
      BY <1>2, <2>1, <2>2, <2>4, XofChunkIs
    <2>. QED BY <2>3, <2>5, XofPieceOn
  <1>9. PICK d : d = XofGenerate(m, n, in) /\ XofPiece(m, d, in)
    <2>. HIDE DEF S
    <2>1. k \in S
      BY <1>1, <1>7, <1>8, SetInduction
    <2>. QED BY <1>4, <1>6, <2>1 DEF S
  <1>10. /\ \A b : Secret("xof", b) = {"V"} /\ Public("xof", b) = {"K", "df"}
         /\ Key("xof") = "V" /\ Lasting = {"K", "V", "df"}
    BY DEF Secret, Public, Lasting, Key
  <1>11. Keeps(m, d, {"V"}, {"K", "df"} \union Inputs, {"V"}, {"K", "df"})
    <2>1. Rest4 \subseteq {"K", "df"} \union Inputs /\ {"K", "df"} \subseteq Rest4
      BY DEF Rest4, Inputs
    <2>. QED BY <1>9, <2>1, KeepsLess, ZenonT(60) DEF XofPiece
  <1>12. Burns(m, d, {"V"}, {"K", "df"} \union Inputs, {}, {"K", "V", "df"})
    <2>1. Rest4 \subseteq {"K", "df"} \union Inputs /\ {"K", "V", "df"} \subseteq Rest4 \union {"V"}
      BY DEF Rest4, Inputs
    <2>2. PICK V, N, R2, S1, S2 : /\ V = {"V"} /\ N = {} /\ R2 = {"K", "df"} \union Inputs
                                 /\ S1 = Rest4 \union {"V"} /\ S2 = {"K", "V", "df"}
      OBVIOUS
    <2>3. Burns(m, d, V, Rest4, N, S1)
      BY <1>9, <2>2 DEF XofPiece
    <2>4. V \subseteq V /\ N \subseteq N /\ Rest4 \subseteq R2 /\ S2 \subseteq S1
      BY <2>1, <2>2
    <2>5. Burns(m, d, V, R2, N, S2)
      BY ONLY <2>3, <2>4, BurnsLess
    <2>. QED BY <2>2, <2>5
  <1>13. Idle("xof", m, d)
    BY <1>9 DEF XofPiece, Rest4, Idle
  <1>. QED BY <1>9, <1>10, <1>11, <1>12, <1>13 DEF Generation, XofPiece, AtRest

LEMMA SameSeeded ==
  ASSUME NEW e, IsMachine(e), NEW x, x = [e EXCEPT !.seeded = TRUE]
  PROVE  Same(e, x) /\ x.seeded /\ x.ctr = e.ctr /\ x.nonce = e.nonce
  BY DEF Same, IsMachine

LEMMA SameCounter ==
  ASSUME NEW e, IsMachine(e), NEW k \in Nat, NEW x, x = [e EXCEPT !.ctr = k]
  PROVE  Same(e, x) /\ x.seeded = e.seeded /\ x.ctr = k /\ x.nonce = e.nonce
  BY DEF Same, IsMachine

LEMMA SameNonce ==
  ASSUME NEW e, IsMachine(e), NEW k \in Nat, NEW x, x = [e EXCEPT !.nonce = k]
  PROVE  Same(e, x) /\ x.seeded = e.seeded /\ x.ctr = e.ctr /\ x.nonce = k
  BY DEF Same, IsMachine

\* A chain of two turns that seeds: first a scratch register, then the key.
LEMMA SeedSteps ==
  ASSUME NEW m, NEW d, NEW e, UsedBy(m.table, m.reg["in"], {}),
         NEW to, to \in Registers \ (Lasting \union Inputs),
         NEW f, NEW of, Turn(m, d, to, f, of), "in" \in Regs(of),
         NEW key, key \in Lasting, NEW h, NEW oh, Turn(d, e, key, h, oh), to \in Regs(oh)
  PROVE  /\ Leads(m, e) /\ e.out = m.out /\ UsedBy(e.table, e.reg[key], {})
         /\ \A x \in Regs(of) : From(m, e, x, key)
         /\ Keeps(m, e, {"in"}, Registers \ {"in"}, {key}, Lasting \ {key})
         /\ e.seeded = m.seeded /\ e.ctr = m.ctr /\ e.nonce = m.nonce
  <1>1. "in" \in Registers /\ Lasting \subseteq Registers /\ to \notin Lasting /\ to # "in"
        /\ "in" \notin Lasting /\ to \in Registers /\ key \in Registers /\ key # "in" /\ key # to
    BY DEF Registers, Lasting, Inputs
  <1>2. Fresh(m, f, of)
    BY FreshUnused
  <1>3. /\ Leads(m, d) /\ d.out = m.out /\ UsedBy(d.table, d.reg[to], {})
        /\ \A x \in Regs(of) : From(m, d, x, to)
        /\ d.seeded = m.seeded /\ d.ctr = m.ctr /\ d.nonce = m.nonce
    BY <1>2, TurnIs, TurnFresh
  <1>4. Fresh(d, h, oh)
    BY <1>3, FreshUnused
  <1>5. /\ Leads(d, e) /\ e.out = d.out /\ UsedBy(e.table, e.reg[key], {})
        /\ From(d, e, to, key)
        /\ e.seeded = d.seeded /\ e.ctr = d.ctr /\ e.nonce = d.nonce
    BY <1>4, TurnIs, TurnFresh
  <1>6. Leads(m, e) /\ \A x \in Regs(of) : From(m, e, x, key)
    BY <1>1, <1>3, <1>5, LeadsOn, FromOn
  <1>. DEFINE R == Registers \ {"in"}
              RT == R \ {to}
              L == Lasting \ {key}
              I == {"in"}
              IT == {"in", to}
  <1>7. /\ I \subseteq Registers /\ R \subseteq Registers /\ RT \subseteq Registers
        /\ IT \subseteq Registers /\ "in" \in I /\ to \in IT /\ IT \subseteq I \union {to}
        /\ RT \subseteq R \ {to} /\ {key} \subseteq IT \union {key} /\ L \subseteq RT \ {key}
    BY <1>1
  <1>. HIDE DEF R, RT, L, I, IT
  <1>8. Keeps(m, d, I, R, IT, RT)
    BY <1>2, <1>7, TurnHides
  <1>9. Keeps(d, e, IT, RT, {key}, L)
    BY <1>4, <1>7, TurnHides
  <1>10. Keeps(m, e, I, R, {key}, L)
    BY <1>3, <1>5, <1>8, <1>9, KeepsOn
  <1>. QED BY <1>3, <1>5, <1>6, <1>10 DEF I, R, L

LEMMA XofSeedIs ==
  ASSUME NEW m, IsMachine(m), NEW in, IsInput(in), "in" \in Regs(in),
         UsedBy(m.table, m.reg["in"], {})
  PROVE  Seeding("xof", m, XofSeed(m, in), in)
  <1>1. PICK f, ff, of, ot :
          /\ f = IF m.seeded THEN F("reseed") ELSE F("instantiate")
          /\ of = IF m.seeded THEN <<"V">> \o in ELSE in
          /\ ff = F("first") /\ ot = <<"T">>
    OBVIOUS
  <1>2. /\ "V" \in Registers /\ "T" \in Registers /\ "T" # "out" /\ "V" # "out"
        /\ "T" \in Registers \ (Lasting \union Inputs) /\ "V" \in Lasting
    BY DEF Registers, Lasting, Inputs
  <1>3. /\ of \in Seq(Registers) /\ Regs(in) \subseteq Regs(of) /\ "in" \in Regs(of)
        /\ m.seeded => "V" \in Regs(of)
    <2>1. PICK w : w = <<"V">> \o in
      OBVIOUS
    <2>2. w \in Seq(Registers) /\ Regs(w) = {"V"} \union Regs(in)
      BY <1>2, <2>1, RegsPrefix
    <2>3. in \in Seq(Registers)
      BY DEF IsInput
    <2>. QED BY <1>1, <2>1, <2>2, <2>3
  <1>4. ot \in Seq(Registers) /\ "T" \in Regs(ot)
    BY <1>1, <1>2, RegsOne
  <1>5. Function(f) /\ Function(ff)
    BY <1>1, XofNames DEF OneWay
  <1>6. PICK a, b : a = Set("T", f, of) /\ b = Set("V", ff, ot)
    OBVIOUS
  <1>7. PICK d : d = Do(m, a)
    OBVIOUS
  <1>8. PICK e : e = Do(d, b)
    OBVIOUS
  <1>9. Turn(m, d, "T", f, of) /\ IsMachine(d)
    BY <1>2, <1>3, <1>5, <1>6, <1>7, TurnOf
  <1>10. Turn(d, e, "V", ff, ot) /\ IsMachine(e)
    BY <1>2, <1>4, <1>5, <1>6, <1>8, <1>9, TurnOf
  <1>11. PICK x : x = XofSeed(m, in) /\ x = [e EXCEPT !.seeded = TRUE]
    <2>1. a = IF m.seeded THEN Set("T", F("reseed"), <<"V">> \o in)
              ELSE Set("T", F("instantiate"), in)
      BY <1>1, <1>6
    <2>2. XofSeed(m, in) = [Execute(m, <<a, b>>) EXCEPT !.seeded = TRUE]
      BY <1>1, <1>6, <2>1 DEF XofSeed
    <2>. QED BY <1>7, <1>8, <2>2, ExecuteTwo
  <1>12. Same(e, x) /\ x.seeded
    BY <1>10, <1>11, SameSeeded
  <1>13. /\ Leads(m, e) /\ e.out = m.out /\ UsedBy(e.table, e.reg["V"], {})
         /\ \A r \in Regs(of) : From(m, e, r, "V")
         /\ Keeps(m, e, {"in"}, Registers \ {"in"}, {"V"}, Lasting \ {"V"})
    BY <1>2, <1>3, <1>4, <1>9, <1>10, SeedSteps
  <1>14. /\ Leads(m, x) /\ x.out = m.out /\ UsedBy(x.table, x.reg["V"], {})
         /\ \A r \in Regs(of) : From(m, x, r, "V")
         /\ Keeps(m, x, {"in"}, Registers \ {"in"}, {"V"}, Lasting \ {"V"})
    BY <1>12, <1>13, SameIs DEF Same
  <1>15. Key("xof") = "V" /\ \A c : Secret("xof", c) = {"V"} /\ Public("xof", c) = Lasting \ {"V"}
    BY DEF Key, Secret, Public
  <1>16. Idle("xof", m, x)
    <2>1. "K" \in Registers /\ "K" # "T" /\ "K" # "V"
      BY DEF Registers
    <2>2. d.reg["K"] = m.reg["K"]
      BY <1>9, <2>1, TurnIs
    <2>3. e.reg["K"] = d.reg["K"]
      BY <1>10, <2>1, TurnIs
    <2>. QED BY <1>12, <2>2, <2>3 DEF Same, Idle
  <1>. QED BY <1>3, <1>11, <1>12, <1>14, <1>15, <1>16 DEF Seeding, AtRest

-----------------------------------------------------------------------------
(* Hash_DRBG.                                                              *)

HashNames ==
  /\ Function(F("df")) /\ OneWay(F("df0")) /\ F("df0")[1] = "df0"
  /\ OneWay(F("add")) /\ F("add")[1] = "add"
  /\ \A i \in Nat : OneWay(<<"hash", i>>) /\ <<"hash", i>>[1] = "hash" /\ <<"hash", i>>[2] = i
  /\ \A i \in Nat : OneWay(<<"next", i>>) /\ <<"next", i>>[1] = "next"

LEMMA HashNamesAre == HashNames
  <1>0. {"df", "df0", "add", "hash", "next"} \subseteq Words
    BY DEF Words
  <1>1. Function(F("df"))
    BY <1>0, FunctionIs DEF F
  <1>2. OneWay(F("df0")) /\ F("df0")[1] = "df0"
    BY <1>0, FunctionIs DEF F
  <1>3. OneWay(F("add")) /\ F("add")[1] = "add"
    BY <1>0, FunctionIs DEF F
  <1>4. ASSUME NEW i \in Nat
        PROVE  OneWay(<<"hash", i>>) /\ <<"hash", i>>[1] = "hash" /\ <<"hash", i>>[2] = i
    BY <1>0, FunctionIs
  <1>5. ASSUME NEW i \in Nat PROVE OneWay(<<"next", i>>) /\ <<"next", i>>[1] = "next"
    BY <1>0, FunctionIs
  <1>. QED BY <1>1, <1>2, <1>3, <1>4, <1>5 DEF HashNames

\* The two ways to colour it.
HashHides(b) == IF b THEN {"V", "K"} ELSE {"V"}
HashShows(b) == IF b THEN {"df"} ELSE {"K", "df"}

HashReady(m) == UsedBy(m.table, m.reg["V"], {F("df0")})

LEMMA HashSeedSteps ==
  ASSUME NEW m, NEW d, NEW e, UsedBy(m.table, m.reg["in"], {}),
         NEW f, NEW of, Turn(m, d, "V", f, of), "in" \in Regs(of),
         NEW h, NEW oh, Turn(d, e, "K", h, oh), Regs(oh) = {"V"}, ~ Opens(h), h = F("df0")
  PROVE  /\ Leads(m, e) /\ e.out = m.out /\ HashReady(e)
         /\ \A x \in Regs(of) : From(m, e, x, "V")
         /\ \A b \in BOOLEAN :
              Keeps(m, e, {"in"}, Registers \ {"in"}, HashHides(b), HashShows(b))
         /\ e.nonce = m.nonce
  <1>1. {"in", "V", "K", "df"} \subseteq Registers
    BY DEF Registers
  <1>2. Fresh(m, f, of)
    BY FreshUnused
  <1>3. /\ Leads(m, d) /\ d.out = m.out /\ UsedBy(d.table, d.reg["V"], {})
        /\ \A x \in Regs(of) : From(m, d, x, "V") /\ d.nonce = m.nonce
    BY <1>2, TurnIs, TurnFresh
  <1>4. Fresh(d, h, oh)
    BY <1>3, FreshUnused
  <1>5. /\ Leads(d, e) /\ e.out = d.out /\ e.nonce = d.nonce
        /\ e.reg["V"] = d.reg["V"] /\ From(d, e, "V", "V")
    BY <1>1, <1>4, TurnIs
  <1>6. Leads(m, e) /\ \A x \in Regs(of) : From(m, e, x, "V")
    BY <1>1, <1>3, <1>5, LeadsOn, FromOn
  <1>7. HashReady(e)
    <2>1. UsedBy(e.table, d.reg["V"], {h})
      BY <1>3, UsedOnce
    <2>. QED BY <1>5, <2>1 DEF HashReady
  <1>. DEFINE R == Registers \ {"in"}
              RV == R \ {"V"}
              I == {"in"}
              IV == {"in", "V"}
  <1>8. /\ I \subseteq Registers /\ R \subseteq Registers /\ RV \subseteq Registers
        /\ IV \subseteq Registers /\ "in" \in I /\ "V" \in IV /\ IV \subseteq I \union {"V"}
        /\ RV \subseteq R \ {"V"} /\ HashHides(TRUE) \subseteq IV \union {"K"}
        /\ HashShows(TRUE) \subseteq RV \ {"K"} /\ HashHides(FALSE) \subseteq IV \ {"K"}
        /\ HashShows(FALSE) \subseteq RV \union {"K"}
    BY <1>1 DEF HashHides, HashShows
  <1>. HIDE DEF R, RV, I, IV
  <1>9. Keeps(m, d, I, R, IV, RV)
    BY <1>2, <1>8, TurnHides
  <1>10. Keeps(d, e, IV, RV, HashHides(TRUE), HashShows(TRUE))
    BY <1>4, <1>8, TurnHides
  <1>11. Keeps(d, e, IV, RV, HashHides(FALSE), HashShows(FALSE))
    BY <1>4, <1>8, TurnReveals
  <1>12. ASSUME NEW b \in BOOLEAN PROVE Keeps(m, e, I, R, HashHides(b), HashShows(b))
    <2>1. Keeps(d, e, IV, RV, HashHides(b), HashShows(b))
      BY <1>10, <1>11
    <2>. QED BY <1>3, <1>5, <1>9, <2>1, KeepsOn
  <1>. QED BY <1>3, <1>5, <1>6, <1>7, <1>12 DEF I, R

LEMMA HashSeedIs ==
  ASSUME NEW m, IsMachine(m), NEW in, IsInput(in), "in" \in Regs(in),
         UsedBy(m.table, m.reg["in"], {})
  PROVE  Seeding("hash", m, HashSeed(m, in), in)
  <1>1. PICK f, h, of, oh :
          /\ f = F("df") /\ of = IF m.seeded THEN <<"V">> \o in ELSE in
          /\ h = F("df0") /\ oh = <<"V">>
    OBVIOUS
  <1>2. "V" \in Registers /\ "K" \in Registers /\ "K" # "out" /\ "V" # "out"
    BY DEF Registers
  <1>3. /\ of \in Seq(Registers) /\ Regs(in) \subseteq Regs(of) /\ "in" \in Regs(of)
        /\ m.seeded => "V" \in Regs(of)
    <2>1. PICK w : w = <<"V">> \o in
      OBVIOUS
    <2>2. w \in Seq(Registers) /\ Regs(w) = {"V"} \union Regs(in)
      BY <1>2, <2>1, RegsPrefix
    <2>3. in \in Seq(Registers)
      BY DEF IsInput
    <2>. QED BY <1>1, <2>1, <2>2, <2>3
  <1>4. oh \in Seq(Registers) /\ Regs(oh) = {"V"}
    BY <1>1, <1>2, RegsOne
  <1>5. Function(f) /\ Function(h) /\ ~ Opens(h)
    BY <1>1, HashNamesAre DEF OneWay, HashNames
  <1>6. PICK a, b : a = Set("V", f, of) /\ b = Set("K", h, oh)
    OBVIOUS
  <1>7. PICK d : d = Do(m, a)
    OBVIOUS
  <1>8. PICK e : e = Do(d, b)
    OBVIOUS
  <1>9. Turn(m, d, "V", f, of) /\ IsMachine(d)
    BY <1>2, <1>3, <1>5, <1>6, <1>7, TurnOf
  <1>10. Turn(d, e, "K", h, oh) /\ IsMachine(e)
    BY <1>2, <1>4, <1>5, <1>6, <1>8, <1>9, TurnOf
  <1>11. PICK x : x = HashSeed(m, in) /\ x = [e EXCEPT !.seeded = TRUE, !.ctr = 0]
    <2>1. HashSeed(m, in) = [Execute(m, <<a, b>>) EXCEPT !.seeded = TRUE, !.ctr = 0]
      BY <1>1, <1>6 DEF HashSeed
    <2>2. Execute(m, <<a, b>>) = e
      BY <1>7, <1>8, ExecuteTwo
    <2>3. HashSeed(m, in) = [e EXCEPT !.seeded = TRUE, !.ctr = 0]
      BY <2>1, <2>2
    <2>. QED BY <2>3
  <1>12. Same(e, x) /\ x.seeded
    <2>1. PICK y : y = [e EXCEPT !.seeded = TRUE]
      OBVIOUS
    <2>2. Same(e, y) /\ y.seeded
      BY <1>10, <2>1, SameSeeded
    <2>3. x = [y EXCEPT !.ctr = 0]
      BY <1>11, <2>1
    <2>4. Same(y, x) /\ x.seeded
      BY <2>2, <2>3, SameCounter DEF Same
    <2>. QED BY <2>2, <2>4 DEF Same
  <1>13. /\ Leads(m, e) /\ e.out = m.out /\ HashReady(e)
         /\ \A r \in Regs(of) : From(m, e, r, "V")
         /\ \A c \in BOOLEAN :
              Keeps(m, e, {"in"}, Registers \ {"in"}, HashHides(c), HashShows(c))
    BY <1>1, <1>3, <1>4, <1>5, <1>9, <1>10, HashSeedSteps
  <1>14. /\ Leads(m, x) /\ x.out = m.out /\ HashReady(x)
         /\ \A r \in Regs(of) : From(m, x, r, "V")
         /\ \A c \in BOOLEAN :
              Keeps(m, x, {"in"}, Registers \ {"in"}, HashHides(c), HashShows(c))
    BY <1>12, <1>13, SameIs DEF Same, HashReady
  <1>15. /\ Key("hash") = "V" /\ \A c : Secret("hash", c) = HashHides(c)
         /\ Public("hash", TRUE) = HashShows(TRUE) /\ Public("hash", FALSE) = HashShows(FALSE)
    BY DEF Key, Secret, Public, HashHides, HashShows, Lasting
  <1>16. \A c \in BOOLEAN : Public("hash", c) = HashShows(c)
    BY <1>15
  <1>17. \A m1, m2 : Idle("hash", m1, m2)
    BY IdleElse
  <1>. QED BY <1>3, <1>11, <1>12, <1>14, <1>15, <1>16, <1>17 DEF Seeding, AtRest, HashReady

\* A part of a call of the Hash_DRBG that puts out nothing.
HashAdds(m, d, in) ==
  /\ Leads(m, d) /\ d.out = m.out /\ HashReady(d) /\ From(m, d, "V", "V")
  /\ \A x \in Regs(in) : From(m, d, x, "V")
  /\ \A b \in BOOLEAN : Keeps(m, d, HashHides(b), HashShows(b) \union Inputs,
                              HashHides(b), HashShows(b))
  /\ d.seeded = m.seeded /\ d.ctr = m.ctr

LEMMA HashAddIs ==
  ASSUME NEW m, NEW d, HashReady(m), NEW in, NEW f, NEW of, Turn(m, d, "V", f, of),
         Regs(of) = {"V"} \union Regs(in), f # F("df0")
  PROVE  HashAdds(m, d, in)
  <1>1. {"in", "V", "K", "df", "opt"} \subseteq Registers
    BY DEF Registers
  <1>2. Fresh(m, f, of)
    BY DEF Fresh, HashReady
  <1>3. /\ Leads(m, d) /\ d.out = m.out /\ UsedBy(d.table, d.reg["V"], {})
        /\ \A x \in Regs(of) : From(m, d, x, "V")
        /\ d.seeded = m.seeded /\ d.ctr = m.ctr
    BY <1>2, TurnIs, TurnFresh
  <1>4. HashReady(d)
    BY <1>3, UsedMore DEF HashReady
  <1>5. ASSUME NEW b \in BOOLEAN
        PROVE  Keeps(m, d, HashHides(b), HashShows(b) \union Inputs, HashHides(b), HashShows(b))
    <2>. DEFINE X == HashHides(b)
                R == HashShows(b) \union Inputs
                S == HashShows(b)
    <2>1. /\ X \subseteq Registers /\ R \subseteq Registers /\ "V" \in X /\ "V" \in Regs(of)
          /\ X \subseteq X \union {"V"} /\ S \subseteq R \ {"V"}
      BY <1>1 DEF HashHides, HashShows, Inputs
    <2>. HIDE DEF X, R, S
    <2>2. Keeps(m, d, X, R, X, S)
      BY <1>2, <2>1, TurnHides
    <2>. QED BY <2>2 DEF X, R, S
  <1>. QED BY <1>3, <1>4, <1>5 DEF HashAdds

HashGives(m, d) ==
  /\ Leads(m, d) /\ HashReady(d) /\ From(m, d, "V", "V") /\ OutsFrom(m, d, "V")
  /\ \A b \in BOOLEAN : Keeps(m, d, HashHides(b), HashShows(b), HashHides(b), HashShows(b))
  /\ Burns(m, d, HashHides(FALSE), HashShows(FALSE), {}, Lasting)
  /\ d.seeded = m.seeded

LEMMA HashGivesIs ==
  ASSUME NEW m, NEW d, NEW e, HashReady(m), NEW n, NEW nm, Output(m, d, nm, n, <<"V">>),
         \A i \in 1..n : nm[i][1] = "hash",
         NEW h, NEW oh, Turn(d, e, "V", h, oh), Regs(oh) = {"V", "K"}, ~ Opens(h), h[1] = "next"
  PROVE  HashGives(m, e)
  <1>1. {"V", "K", "df", "out"} \subseteq Registers /\ Regs(<<"V">>) = {"V"}
    BY RegsOne DEF Registers
  <1>2. \A i \in 1..n : nm[i] \notin {F("df0")}
    BY HashNamesAre DEF HashNames
  <1>3. OutFresh(m, nm, n, <<"V">>)
    BY <1>1, <1>2 DEF OutFresh, HashReady
  <1>4. /\ Leads(m, d) /\ d.reg["V"] = m.reg["V"] /\ From(m, d, "V", "V")
        /\ d.reg["K"] = m.reg["K"] /\ d.reg["df"] = m.reg["df"] /\ d.seeded = m.seeded
        /\ OutsFrom(m, d, "V")
    BY <1>1, <1>3, OutputIs
  <1>5. PICK W : W = {F("df0")} \union {nm[i] : i \in 1..n}
    OBVIOUS
  <1>6. UsedBy(d.table, d.reg["V"], W)
    <2>1. {F("df0")} \subseteq W /\ \A i \in 1..n : nm[i] \in W
      BY <1>5
    <2>2. UsedBy(m.table, m.reg["V"], {F("df0")})
      BY DEF HashReady
    <2>3. UsedBy(d.table, m.reg["V"], W)
      BY <1>3, <2>1, <2>2, OutputUsed
    <2>. QED BY <1>4, <2>3
  <1>7. h \notin W
    <2>1. F("df0")[1] = "df0"
      BY HashNamesAre DEF HashNames
    <2>. QED BY <1>5, <2>1
  <1>8. Fresh(d, h, oh)
    <2>1. "V" \in Regs(oh)
      OBVIOUS
    <2>. QED BY <1>6, <1>7, <2>1, FreshBy
  <1>9. /\ Leads(d, e) /\ e.out = d.out /\ UsedBy(e.table, e.reg["V"], {})
        /\ From(d, e, "V", "V") /\ e.seeded = d.seeded
    BY <1>8, TurnIs, TurnFresh
  <1>10. Leads(m, e) /\ HashReady(e) /\ From(m, e, "V", "V")
    BY <1>1, <1>4, <1>9, LeadsOn, FromOn, UsedMore DEF HashReady
  <1>11. OutsFrom(m, e, "V")
    BY <1>1, <1>4, <1>9, BurnsNothing, OutsFromOn
  <1>12. ASSUME NEW b \in BOOLEAN
         PROVE  /\ Keeps(m, d, HashHides(b), HashShows(b), HashHides(b), HashShows(b))
                /\ Burns(m, d, HashHides(b), HashShows(b), HashHides(b), HashShows(b))
                /\ Keeps(d, e, HashHides(b), HashShows(b), HashHides(b), HashShows(b))
                /\ Keeps(d, e, HashHides(b), HashShows(b), {}, HashShows(b) \union {"V"})
    <2>. DEFINE X == HashHides(b)
                R == HashShows(b)
    <2>1. /\ X \subseteq Registers \ {"out"} /\ R \subseteq Registers \ {"out"} /\ "V" \in X
          /\ X \subseteq Registers /\ R \subseteq Registers
          /\ "V" \in Regs(oh) /\ X \subseteq X \union {"V"} /\ R \subseteq R \ {"V"}
          /\ {} \subseteq X \ {"V"} /\ R \union {"V"} \subseteq R \union {"V"}
          /\ Regs(<<"V">>) \intersect X # {}
      BY <1>1 DEF HashHides, HashShows
    <2>. HIDE DEF X, R
    <2>2. Keeps(m, d, X, R, X, R) /\ Burns(m, d, X, R, X, R)
      BY <1>3, <2>1, OutputKeeps
    <2>3. Keeps(d, e, X, R, X, R)
      BY <1>8, <2>1, TurnHides
    <2>4. PICK N, RV : N = {} /\ RV = R \union {"V"}
      OBVIOUS
    <2>5. N \subseteq X \ {"V"} /\ RV \subseteq R \union {"V"}
      BY <2>4
    <2>6. Keeps(d, e, X, R, N, RV)
      BY <1>8, <2>1, <2>5, TurnReveals
    <2>. QED BY <2>2, <2>3, <2>4, <2>6 DEF X, R
  <1>13. \A b \in BOOLEAN : Keeps(m, e, HashHides(b), HashShows(b), HashHides(b), HashShows(b))
    BY <1>4, <1>9, <1>12, KeepsOn
  <1>14. Burns(m, e, HashHides(FALSE), HashShows(FALSE), {}, Lasting)
    <2>1. PICK X, R, N : X = HashHides(FALSE) /\ R = HashShows(FALSE) /\ N = {}
      OBVIOUS
    <2>2. Lasting = R \union {"V"}
      BY <2>1 DEF HashShows, Lasting
    <2>3. /\ Keeps(m, d, X, R, X, R) /\ Burns(m, d, X, R, X, R) /\ Keeps(d, e, X, R, N, Lasting)
      BY <1>12, <2>1, <2>2
    <2>4. Burns(d, e, X, R, N, Lasting)
      BY <1>9, BurnsNothing
    <2>5. Burns(m, e, X, R, N, Lasting)
      BY <1>4, <1>9, <2>3, <2>4, BurnsOn
    <2>. QED BY <2>1, <2>5
  <1>. QED BY <1>4, <1>9, <1>10, <1>11, <1>13, <1>14 DEF HashGives

LEMMA HashNothing ==
  ASSUME NEW m, IsMachine(m), HashReady(m)
  PROVE  HashGives(m, m) /\ \A in : Regs(in) = {} => HashAdds(m, m, in)
  <1>1. Leads(m, m) /\ \A r : From(m, m, r, r)
    BY LeadsItself, CountsItself DEF From
  <1>2. (\A x : OutsFrom(m, m, x)) /\ \A X, R, Y, S : Burns(m, m, X, R, Y, S)
    BY <1>1, BurnsNothing
  <1>3. \A X, R : Keeps(m, m, X, R, X, R)
    BY KeepsItself
  <1>4. ASSUME NEW b \in BOOLEAN
        PROVE  Keeps(m, m, HashHides(b), HashShows(b) \union Inputs, HashHides(b), HashShows(b))
    <2>1. PICK X, S, R : X = HashHides(b) /\ S = HashShows(b) /\ R = HashShows(b) \union Inputs
      OBVIOUS
    <2>2. X \subseteq X /\ S \subseteq R /\ S \subseteq S
      BY <2>1
    <2>3. Keeps(m, m, X, R, X, S)
      BY <1>3, <2>2, KeepsLess
    <2>. QED BY <2>1, <2>3
  <1>. QED BY <1>1, <1>2, <1>3, <1>4 DEF HashGives, HashAdds

LEMMA HashCall ==
  ASSUME NEW m, NEW d, NEW e, NEW x, NEW in, HashAdds(m, d, in), HashGives(d, e), Same(e, x),
         x.seeded = e.seeded
  PROVE  Generation("hash", m, x, in)
  <1>1. Leads(m, d) /\ Leads(d, e) /\ Leads(m, e) /\ "V" \in Registers /\ d.out = m.out
    BY LeadsOn DEF HashAdds, HashGives, Registers
  <1>2. \A y : OutsFrom(m, d, y)
    BY <1>1, BurnsNothing
  <1>3. From(m, e, "V", "V") /\ OutsFrom(m, e, "V") /\ \A y \in Regs(in) : OutsFrom(m, e, y)
    BY <1>1, <1>2, FromOn, OutsFromOn DEF HashAdds, HashGives
  <1>4. ASSUME NEW b \in BOOLEAN
        PROVE  Keeps(m, e, HashHides(b), HashShows(b) \union Inputs, HashHides(b), HashShows(b))
    BY <1>1, KeepsOn DEF HashAdds, HashGives
  <1>5. Burns(m, e, HashHides(FALSE), HashShows(FALSE) \union Inputs, {}, Lasting)
    BY <1>1, BurnsAfter DEF HashAdds, HashGives
  <1>6. /\ Leads(m, x) /\ From(m, x, "V", "V") /\ OutsFrom(m, x, "V")
        /\ \A y \in Regs(in) : OutsFrom(m, x, y)
        /\ \A b \in BOOLEAN : Keeps(m, x, HashHides(b), HashShows(b) \union Inputs,
                                    HashHides(b), HashShows(b))
        /\ Burns(m, x, HashHides(FALSE), HashShows(FALSE) \union Inputs, {}, Lasting)
    BY <1>1, <1>3, <1>4, <1>5, SameIs
  <1>7. HashReady(x) /\ x.seeded = m.seeded
    BY DEF HashAdds, HashGives, HashReady, Same
  <1>8. /\ Key("hash") = "V" /\ \A c : Secret("hash", c) = HashHides(c)
        /\ Public("hash", TRUE) = HashShows(TRUE) /\ Public("hash", FALSE) = HashShows(FALSE)
    BY DEF Key, Secret, Public, HashHides, HashShows, Lasting
  <1>9. \A c \in BOOLEAN : Public("hash", c) = HashShows(c)
    BY <1>8
  <1>10. \A m1, m2 : Idle("hash", m1, m2)
    BY IdleElse
  <1>. QED BY <1>6, <1>7, <1>8, <1>9, <1>10 DEF Generation, AtRest, HashReady

LEMMA HashGenerateIs ==
  ASSUME NEW m, IsMachine(m), AtRest("hash", m), NEW n \in Nat, NEW in, IsInput(in)
  PROVE  Generation("hash", m, HashGenerate(m, n, in), in)
  <1>1. /\ "V" \in Registers /\ "K" \in Registers /\ "V" # "out" /\ HashReady(m)
    BY DEF Registers, AtRest, HashReady
  <1>2. PICK k \in Nat : k = m.ctr + 1
    BY DEF IsMachine
  <1>3. PICK fa, fn, of, ov, ok :
          /\ fa = F("add") /\ of = <<"V">> \o in
          /\ fn = <<"next", k>> /\ ok = <<"V", "K">> /\ ov = <<"V">>
    OBVIOUS
  <1>4. /\ of \in Seq(Registers) /\ Regs(of) = {"V"} \union Regs(in)
        /\ ok \in Seq(Registers) /\ Regs(ok) = {"V", "K"}
        /\ ov \in Seq(Registers) /\ Regs(ov) = {"V"} /\ OutOf(ov)
    <2>1. of \in Seq(Registers) /\ Regs(of) = {"V"} \union Regs(in)
      BY <1>1, <1>3, RegsPrefix
    <2>2. ok \in Seq(Registers) /\ Regs(ok) = {"V", "K"}
      BY <1>1, <1>3, RegsTwo
    <2>3. ov \in Seq(Registers) /\ Regs(ov) = {"V"}
      BY <1>1, <1>3, RegsOne
    <2>. QED BY <1>3, <2>1, <2>2, <2>3 DEF OutOf
  <1>5. /\ Function(fa) /\ fa # F("df0") /\ Function(fn) /\ ~ Opens(fn) /\ fn[1] = "next"
    <2>1. fa[1] = "add" /\ F("df0")[1] = "df0"
      BY <1>3, HashNamesAre DEF HashNames
    <2>. QED BY <1>3, <2>1, HashNamesAre DEF HashNames, OneWay
  <1>6. PICK a, c, nm : /\ a = Set("V", fa, of) /\ c = Set("V", fn, ok)
                        /\ nm = [i \in 1..n |-> <<"hash", i>>]
    OBVIOUS
  <1>19. PICK q : q = [i \in 1..n |-> Set("out", nm[i], ov)]
    OBVIOUS
  <1>7. PICK addtl, moves : /\ addtl = IF in = <<>> THEN <<>> ELSE <<a>>
                            /\ moves = IF n = 0 THEN <<>> ELSE <<c>>
    OBVIOUS
  <1>8. PICK d : d = Execute(m, addtl)
    OBVIOUS
  <1>9. PICK e : e = Execute(d, q)
    OBVIOUS
  <1>10. PICK g : g = Execute(e, moves)
    OBVIOUS
  <1>11. HashAdds(m, d, in) /\ addtl \in Seq(Instruction)
    <2>1. CASE in = <<>>
      <3>1. d = m /\ addtl \in Seq(Instruction)
        BY <1>7, <1>8, <2>1, ExecuteNone
      <3>2. Regs(in) = {}
        BY <2>1 DEF Regs
      <3>. QED BY <1>1, <3>1, <3>2, HashNothing
    <2>2. CASE in # <<>>
      <3>1. d = Do(m, a) /\ addtl = <<a>>
        BY <1>7, <1>8, <2>2, ExecuteOne
      <3>2. Turn(m, d, "V", fa, of) /\ a \in Instruction
        BY <1>1, <1>4, <1>5, <1>6, <3>1, TurnOf
      <3>3. HashAdds(m, d, in)
        BY <1>1, <1>4, <1>5, <3>2, HashAddIs
      <3>. QED BY <3>1, <3>2, <3>3
    <2>. QED BY <2>1, <2>2
  <1>12. IsMachine(d) /\ HashReady(d)
    BY <1>11, LeadsTyped DEF HashAdds
  <1>13. OutNames(nm, n) /\ \A i \in 1..n : nm[i][1] = "hash"
    <2>1. ASSUME NEW i \in 1..n PROVE OneWay(nm[i]) /\ nm[i][1] = "hash" /\ nm[i][2] = 0 + i
      <3>1. nm[i] = <<"hash", i>> /\ i \in Nat /\ 0 + i = i
        BY <1>6
      <3>. QED BY <3>1, HashNamesAre DEF HashNames
    <2>. QED BY <2>1, Numbered
  <1>14. Output(d, e, nm, n, ov) /\ q \in Seq(Instruction) /\ IsMachine(e)
    <2>1. IsMachine(d) /\ n \in Nat /\ OutNames(nm, n) /\ OutOf(ov)
      BY <1>4, <1>12, <1>13
    <2>. QED BY ONLY <2>1, <1>9, <1>19, OutputTo
  <1>15. HashGives(d, g) /\ moves \in Seq(Instruction)
    <2>1. CASE n = 0
      <3>1. g = e /\ moves \in Seq(Instruction)
        BY <1>7, <1>10, <2>1, ExecuteNone
      <3>2. q = <<>>
        BY <1>19, <2>1
      <3>3. e = d
        BY <1>9, <3>2, ExecuteNone
      <3>. QED BY <1>12, <3>1, <3>3, HashNothing
    <2>2. CASE n # 0
      <3>1. g = Do(e, c) /\ moves = <<c>>
        BY <1>7, <1>10, <2>2, ExecuteOne
      <3>3. Turn(e, g, "V", fn, ok) /\ c \in Instruction
        BY <1>1, <1>4, <1>5, <1>6, <1>14, <3>1, TurnOf
      <3>4. HashGives(d, g)
        BY <1>3, <1>4, <1>5, <1>12, <1>13, <1>14, <3>3, HashGivesIs
      <3>. QED BY <3>1, <3>3, <3>4
    <2>. QED BY <2>1, <2>2
  <1>16. Execute(m, addtl \o q \o moves) = g
    <2>1. PICK w : w = addtl \o q
      OBVIOUS
    <2>2. w \in Seq(Instruction)
      BY <1>11, <1>14, <2>1
    <2>3. Execute(m, w) = e
      BY <1>8, <1>9, <1>11, <1>14, <2>1, ExecuteCat
    <2>4. addtl \o q \o moves = w \o moves
      BY <2>1
    <2>5. Execute(m, w \o moves) = Execute(Execute(m, w), moves)
      BY <1>15, <2>2, ExecuteCat
    <2>. QED BY <1>10, <2>3, <2>4, <2>5
  <1>17. HashGenerate(m, n, in) = [g EXCEPT !.ctr = k]
    <2>1. q = [i \in 1..n |-> Set("out", <<"hash", i>>, ov)]
      BY <1>6, <1>19
    <2>. QED BY <1>2, <1>3, <1>6, <1>7, <1>16, <2>1 DEF HashGenerate, HashMoves
  <1>18. IsMachine(g)
    BY <1>15, LeadsTyped DEF HashGives
  <1>. QED BY <1>11, <1>15, <1>17, <1>18, SameCounter, HashCall

-----------------------------------------------------------------------------
(* The ChaCha20 DRNG.                                                      *)

ChaChaNames ==
  /\ \A i \in Nat : OneWay(<<"word", i>>) /\ <<"word", i>>[1] = "word" /\ <<"word", i>>[2] = i
  /\ Function(F("xor")) /\ F("xor")[1] = "xor"
  /\ \A i, j \in Nat : OneWay(<<"block", i, j>>) /\ <<"block", i, j>>[3] = j

LEMMA ChaChaNamesAre == ChaChaNames
  <1>0. {"word", "xor", "block"} \subseteq Words
    BY DEF Words
  <1>1. ASSUME NEW i \in Nat
        PROVE  OneWay(<<"word", i>>) /\ <<"word", i>>[1] = "word" /\ <<"word", i>>[2] = i
    BY <1>0, FunctionIs
  <1>2. Function(F("xor")) /\ F("xor")[1] = "xor"
    BY <1>0, FunctionIs DEF F
  <1>3. ASSUME NEW i \in Nat, NEW j \in Nat
        PROVE  OneWay(<<"block", i, j>>) /\ <<"block", i, j>>[3] = j
    <2>1. PICK S : S = Words \union Nat
      OBVIOUS
    <2>2. "block" \in S /\ i \in S /\ j \in S
      BY <1>0, <2>1
    <2>3. <<"block", i, j>> \in Names
      BY <2>1, <2>2, Triples DEF Names
    <2>4. <<"block", i, j>>[1] = "block" /\ <<"block", i, j>>[3] = j
      OBVIOUS
    <2>. QED BY <2>3, <2>4 DEF OneWay, Function, Opens
  <1>. QED BY <1>1, <1>2, <1>3 DEF ChaChaNames

\* The xor of two hidden values may be shown.
LEMMA TurnXor ==
  ASSUME NEW m, NEW d, NEW to, NEW f, NEW of, Turn(m, d, to, f, of), Fresh(m, f, of),
         f[1] = "xor", NEW X, NEW R, X \subseteq Registers, R \subseteq Registers,
         Regs(of) \subseteq X,
         NEW Y, NEW S, Y \subseteq X \ {to}, S \subseteq R \union {to}
  PROVE  Keeps(m, d, X, R, Y, S)
  <1>. SUFFICES ASSUME NEW P, Colours(m, P, X, R) PROVE Colours(d, P, Y, S)
    BY TurnIs DEF Keeps, Agrees, AllShown
  <1>. DEFINE v == Value(m, f, of)
  <1>1. PICK id \in Nat : Stored(m, d, to, v, id)
    BY TurnStored
  <1>2. Args(v) = {m.reg[x] : x \in Regs(of)} /\ v.f = f /\ IsMachine(m)
    BY TurnStored DEF Turn
  <1>. HIDE DEF v
  <1>3. /\ d.reg[to] = id /\ \A r \in Registers : r # to => d.reg[r] = m.reg[r]
        /\ id = Len(m.table) + 1 /\ Len(m.table) \in Nat /\ Len(d.table) = id
    BY <1>1, TurnFresh DEF Stored
  <1>4. /\ \A i \in 1..Len(m.table) : d.table[i] = m.table[i] /\ i \in 1..Len(d.table)
        /\ \A i \in 1..Len(d.table) : i \in 1..Len(m.table) \/ (i = id /\ d.table[i] = v)
    BY <1>1, <1>2, EntriesOf
  <1>5. P \subseteq 1..Len(m.table) /\ Args(v) \subseteq P /\ id \notin P
    BY <1>2, <1>3 DEF Colours, Sealed
  <1>6. Sealed(d.table, P)
    <2>1. P \subseteq 1..Len(d.table)
      BY <1>4, <1>5
    <2>2. \A i \in P : d.table[i].f[1] = "seed" \/ ~ Apart(d.table[i], P)
      BY <1>4, <1>5 DEF Colours, Sealed
    <2>3. ASSUME NEW i \in 1..Len(d.table), i \notin P, Opens(d.table[i].f)
          PROVE  Apart(d.table[i], P) \/ (d.table[i].f[1] = "xor" /\ Args(d.table[i]) \subseteq P)
      BY <1>2, <1>4, <1>5, <2>3 DEF Colours, Sealed
    <2>. QED BY <2>1, <2>2, <2>3 DEF Sealed
  <1>. QED BY <1>3, <1>5, <1>6 DEF Colours

\* The key has been used for no block but those before the counter.
ChaChaReady(m) == UsedBy(m.table, m.reg["K"], {<<"block", m.nonce, c>> : c \in 0..(m.ctr - 1)})

ChaChaComputes(m, c) ==
  /\ Leads(m, c) /\ c.out = m.out /\ ChaChaReady(c) /\ c.reg["K"] = m.reg["K"]
  /\ UsedBy(c.table, c.reg["T"], {}) /\ c.seeded = m.seeded /\ c.nonce = m.nonce
  /\ c.reg["V"] = m.reg["V"]
  /\ From(m, c, "K", "K") /\ From(m, c, "K", "T") /\ c.reg["T"] # c.reg["K"]
  /\ \A X, R, Y, S : /\ X \subseteq Registers /\ R \subseteq Registers /\ "K" \in X
                     /\ Y \subseteq X \union {"T"} /\ S \subseteq R \ {"T"}
                     => Keeps(m, c, X, R, Y, S)

LEMMA ComputedIs ==
  ASSUME NEW m, IsMachine(m), ChaChaReady(m)
  PROVE  ChaChaComputes(m, Computed(m)) /\ IsMachine(Computed(m))
  <1>1. PICK i \in Nat, j \in Nat : i = m.nonce /\ j = m.ctr
    BY DEF IsMachine
  <1>2. PICK f, of : f = <<"block", i, j>> /\ of = <<"K">>
    OBVIOUS
  <1>3. "K" \in Registers /\ "T" \in Registers /\ "T" # "out" /\ "T" # "K"
        /\ "V" \in Registers /\ "V" # "T"
    BY DEF Registers
  <1>4. of \in Seq(Registers) /\ Regs(of) = {"K"}
    BY <1>2, <1>3, RegsOne
  <1>5. Function(f) /\ f[3] = j
    BY <1>2, ChaChaNamesAre DEF OneWay, ChaChaNames
  <1>6. PICK a : a = Set("T", f, of)
    OBVIOUS
  <1>7. PICK d : d = Do(m, a)
    OBVIOUS
  <1>8. Turn(m, d, "T", f, of) /\ IsMachine(d)
    BY <1>3, <1>4, <1>5, <1>6, <1>7, TurnOf
  <1>9. PICK W : W = {<<"block", i, c>> : c \in 0..(j - 1)}
    OBVIOUS
  <1>10. UsedBy(m.table, m.reg["K"], W)
    BY <1>1, <1>9 DEF ChaChaReady
  <1>11. f \notin W
    <2>1. \A c \in 0..(j - 1) : <<"block", i, c>>[3] = c /\ c # j
      OBVIOUS
    <2>. QED BY <1>5, <1>9, <2>1
  <1>12. Fresh(m, f, of)
    BY <1>4, <1>10, <1>11, FreshBy
  <1>13. /\ Leads(m, d) /\ d.out = m.out /\ d.reg["K"] = m.reg["K"]
         /\ UsedBy(d.table, d.reg["T"], {}) /\ d.seeded = m.seeded /\ d.nonce = m.nonce
         /\ From(m, d, "K", "K") /\ From(m, d, "K", "T") /\ d.ctr = m.ctr
         /\ d.reg["V"] = m.reg["V"]
    BY <1>3, <1>4, <1>8, <1>12, TurnIs, TurnFresh
  <1>14. PICK c : c = [d EXCEPT !.ctr = j + 1]
    OBVIOUS
  <1>15. Computed(m) = c
    <2>1. Execute(m, <<BlockOf(m)>>) = d
      BY <1>1, <1>2, <1>6, <1>7, ExecuteOne DEF BlockOf
    <2>. QED BY <1>1, <1>13, <1>14, <2>1 DEF Computed
  <1>16. Same(d, c) /\ c.seeded = d.seeded /\ c.ctr = j + 1 /\ c.nonce = d.nonce
    BY <1>8, <1>14, SameCounter
  <1>17. ChaChaReady(c)
    <2>1. PICK V : V = {<<"block", i, x>> : x \in 0..j}
      OBVIOUS
    <2>2. W \subseteq V /\ f \in V
      BY <1>2, <1>9, <2>1
    <2>3. UsedBy(d.table, m.reg["K"], V)
      BY <1>8, <1>10, <2>2, TurnUsed
    <2>4. c.nonce = i /\ c.ctr - 1 = j /\ c.reg["K"] = m.reg["K"] /\ c.table = d.table
      BY <1>1, <1>13, <1>16 DEF Same
    <2>. QED BY <2>1, <2>3, <2>4 DEF ChaChaReady
  <1>18. ASSUME NEW X, NEW R, NEW Y, NEW S, X \subseteq Registers, R \subseteq Registers, "K" \in X,
                Y \subseteq X \union {"T"}, S \subseteq R \ {"T"}
         PROVE  Keeps(m, d, X, R, Y, S)
    BY <1>4, <1>8, <1>12, <1>18, TurnHides
  <1>19. d.reg["T"] # d.reg["K"]
    BY <1>3, <1>8, <1>12, <1>13, TurnFresh
  <1>20. /\ Leads(m, c) /\ c.out = m.out /\ c.reg["K"] = m.reg["K"]
         /\ UsedBy(c.table, c.reg["T"], {}) /\ c.seeded = m.seeded /\ c.nonce = m.nonce
         /\ From(m, c, "K", "K") /\ From(m, c, "K", "T") /\ c.reg["T"] # c.reg["K"]
         /\ IsMachine(c) /\ c.reg["V"] = m.reg["V"]
    BY <1>13, <1>16, <1>19, SameIs DEF Same
  <1>21. \A X, R, Y, S : Keeps(m, d, X, R, Y, S) => Keeps(m, c, X, R, Y, S)
    BY <1>13, <1>16, SameIs
  <1>. QED BY <1>15, <1>17, <1>18, <1>20, <1>21 DEF ChaChaComputes

WordsTo(k) == {<<"word", i>> : i \in 0..k}
Still == {"V", "df"}

\* One word of the block goes into the key.
ChaChaMixes(d, e, k) ==
  /\ Leads(d, e) /\ e.out = d.out /\ e.reg["T"] = d.reg["T"] /\ e.reg["K"] # e.reg["T"]
  /\ UsedBy(e.table, e.reg["T"], WordsTo(k)) /\ From(d, e, "K", "K")
  /\ e.reg["V"] = d.reg["V"] /\ e.seeded = d.seeded /\ e.ctr = d.ctr /\ e.nonce = d.nonce
  /\ Keeps(d, e, {"K", "T"}, Still, {"K", "T"}, Still)

ChaChaEnds(d, e) == /\ UsedBy(e.table, e.reg["K"], {})
                    /\ Keeps(d, e, {"K", "T"}, Still, {}, Lasting)

LEMMA MixSteps ==
  ASSUME NEW d, NEW a, NEW e, NEW k \in Nat, d.reg["K"] # d.reg["T"],
         UsedBy(d.table, d.reg["T"], WordsTo(k)),
         NEW w, w = <<"word", k + 1>>, NEW ot, Turn(d, a, "A", w, ot), Regs(ot) = {"T"},
         NEW x, x[1] = "xor", NEW oa, Turn(a, e, "K", x, oa), Regs(oa) = {"K", "A"}
  PROVE  ChaChaMixes(d, e, k + 1) /\ ChaChaEnds(d, e)
  <1>1. {"K", "T", "A", "V", "df", "out"} \subseteq Registers
    BY DEF Registers
  <1>2. w \notin WordsTo(k) /\ w \in WordsTo(k + 1) /\ WordsTo(k) \subseteq WordsTo(k + 1)
    <2>1. \A i \in 0..k : <<"word", i>>[2] = i /\ i # k + 1 /\ i \in 0..(k + 1)
      OBVIOUS
    <2>2. w[2] = k + 1 /\ k + 1 \in 0..(k + 1)
      OBVIOUS
    <2>. QED BY <2>1, <2>2 DEF WordsTo
  <1>3. Fresh(d, w, ot)
    BY <1>2, FreshBy
  <1>4. /\ Leads(d, a) /\ a.out = d.out /\ UsedBy(a.table, a.reg["A"], {})
        /\ a.reg["T"] = d.reg["T"] /\ a.reg["K"] = d.reg["K"] /\ From(d, a, "K", "K")
        /\ a.reg["V"] = d.reg["V"]
        /\ a.seeded = d.seeded /\ a.ctr = d.ctr /\ a.nonce = d.nonce
        /\ a.reg["A"] # d.reg["T"]
    BY <1>1, <1>3, TurnIs, TurnFresh
  <1>5. UsedBy(a.table, a.reg["T"], WordsTo(k + 1))
    <2>1. UsedBy(a.table, d.reg["T"], WordsTo(k + 1))
      BY <1>2, TurnUsed
    <2>. QED BY <1>4, <2>1
  <1>6. Fresh(a, x, oa)
    BY <1>4, FreshUnused
  <1>7. /\ Leads(a, e) /\ e.out = a.out /\ UsedBy(e.table, e.reg["K"], {})
        /\ e.reg["T"] = a.reg["T"] /\ From(a, e, "K", "K") /\ e.reg["K"] # a.reg["T"]
        /\ e.reg["V"] = a.reg["V"]
        /\ e.seeded = a.seeded /\ e.ctr = a.ctr /\ e.nonce = a.nonce
    BY <1>1, <1>6, TurnIs, TurnFresh
  <1>8. UsedBy(e.table, e.reg["T"], WordsTo(k + 1))
    <2>1. \A y \in Regs(oa) : a.reg[y] # a.reg["T"]
      BY <1>4
    <2>2. UsedBy(e.table, a.reg["T"], WordsTo(k + 1))
      BY <1>5, <2>1, UsedSame
    <2>. QED BY <1>7, <2>2
  <1>9. Leads(d, e) /\ From(d, e, "K", "K")
    BY <1>1, <1>4, <1>7, LeadsOn, FromOn
  <1>10. PICK X, XA, N : X = {"K", "T"} /\ XA = {"K", "T", "A"} /\ N = {}
    OBVIOUS
  <1>11. /\ X \subseteq Registers /\ XA \subseteq Registers /\ Still \subseteq Registers
         /\ "T" \in X /\ XA \subseteq X \union {"A"} /\ Still \subseteq Still \ {"A"}
         /\ "K" \in XA /\ X \subseteq XA \union {"K"} /\ Still \subseteq Still \ {"K"}
         /\ Regs(oa) \subseteq XA /\ N \subseteq XA \ {"K"} /\ Lasting \subseteq Still \union {"K"}
         /\ "T" \in Regs(ot) /\ "K" \in Regs(oa)
    BY <1>1, <1>10 DEF Still, Lasting
  <1>12. Keeps(d, a, X, Still, XA, Still)
    BY <1>3, <1>11, TurnHides
  <1>13. Keeps(a, e, XA, Still, X, Still)
    BY <1>6, <1>11, TurnHides
  <1>14. Keeps(a, e, XA, Still, N, Lasting)
    BY <1>6, <1>11, TurnXor
  <1>15. Keeps(d, e, X, Still, X, Still) /\ Keeps(d, e, X, Still, N, Lasting)
    BY <1>4, <1>7, <1>12, <1>13, <1>14, KeepsOn
  <1>. QED BY <1>4, <1>7, <1>8, <1>9, <1>10, <1>15 DEF ChaChaMixes, ChaChaEnds

LEMMA MixesOn ==
  ASSUME NEW c, NEW d, NEW e, NEW k, NEW l, ChaChaMixes(c, d, k), ChaChaMixes(d, e, l)
  PROVE  /\ ChaChaMixes(c, e, l)
         /\ ChaChaEnds(d, e) => ChaChaEnds(c, e)
  <1>1. Leads(c, d) /\ Leads(d, e) /\ Leads(c, e) /\ "K" \in Registers
    BY LeadsOn DEF ChaChaMixes, Registers
  <1>2. From(c, e, "K", "K")
    BY <1>1, FromOn DEF ChaChaMixes
  <1>3. Keeps(c, e, {"K", "T"}, Still, {"K", "T"}, Still)
    BY <1>1, KeepsOn DEF ChaChaMixes
  <1>4. ChaChaEnds(d, e) => ChaChaEnds(c, e)
    BY <1>1, KeepsOn DEF ChaChaMixes, ChaChaEnds
  <1>. QED BY <1>1, <1>2, <1>3, <1>4 DEF ChaChaMixes

ChaChaWord(k) == <<Set("A", <<"word", k>>, <<"T">>), Set("K", F("xor"), <<"K", "A">>)>>

LEMMA MixIs ==
  ASSUME NEW d, IsMachine(d), NEW k \in Nat, d.reg["K"] # d.reg["T"],
         UsedBy(d.table, d.reg["T"], WordsTo(k)), NEW e, e = Execute(d, ChaChaWord(k + 1))
  PROVE  ChaChaMixes(d, e, k + 1) /\ ChaChaEnds(d, e) /\ IsMachine(e)
  <1>1. PICK w, x, ot, oa : /\ w = <<"word", k + 1>> /\ x = F("xor")
                            /\ ot = <<"T">> /\ oa = <<"K", "A">>
    OBVIOUS
  <1>2. /\ "K" \in Registers /\ "T" \in Registers /\ "A" \in Registers
        /\ "A" # "out" /\ "K" # "out"
    BY DEF Registers
  <1>3. ot \in Seq(Registers) /\ Regs(ot) = {"T"}
    BY <1>1, <1>2, RegsOne
  <1>4. oa \in Seq(Registers) /\ Regs(oa) = {"K", "A"}
    BY <1>1, <1>2, RegsTwo
  <1>5. Function(w) /\ Function(x) /\ x[1] = "xor"
    <2>1. PICK j \in Nat : j = k + 1
      OBVIOUS
    <2>. QED BY <1>1, <2>1, ChaChaNamesAre DEF OneWay, ChaChaNames
  <1>6. PICK p, q : p = Set("A", w, ot) /\ q = Set("K", x, oa)
    OBVIOUS
  <1>7. PICK a : a = Do(d, p)
    OBVIOUS
  <1>8. e = Do(a, q)
    BY <1>1, <1>6, <1>7, ExecuteTwo DEF ChaChaWord
  <1>9. Turn(d, a, "A", w, ot) /\ IsMachine(a)
    BY <1>2, <1>3, <1>5, <1>6, <1>7, TurnOf
  <1>10. Turn(a, e, "K", x, oa) /\ IsMachine(e)
    BY <1>2, <1>4, <1>5, <1>6, <1>8, <1>9, TurnOf
  <1>. QED BY <1>1, <1>3, <1>4, <1>5, <1>9, <1>10, MixSteps

\* All words of a new key.
LEMMA MixAll ==
  ASSUME NEW d, IsMachine(d), NEW k \in Nat, d.reg["K"] # d.reg["T"],
         UsedBy(d.table, d.reg["T"], WordsTo(k)),
         NEW e, e = Repeat(d, [j \in 1..KeyWords |-> ChaChaWord(k + j)])
  PROVE  ChaChaMixes(d, e, k + KeyWords) /\ ChaChaEnds(d, e) /\ IsMachine(e)
  <1>1. PICK n \in Nat : n = KeyWords /\ n # 0
    BY DrbgAssumption
  <1>2. PICK p : p = [j \in 1..n |-> ChaChaWord(k + j)]
    OBVIOUS
  <1>3. Len(p) = n /\ \A j \in 1..n : p[j] = ChaChaWord(k + j)
    BY <1>2
  <1>4. PICK f : IsRound(f, d, p, n) /\ Repeat(d, p) = f[n]
    BY <1>3, RepeatTurns
  <1>. DEFINE S == {i \in Nat : i < n =>
                      ChaChaMixes(d, f[i + 1], k + (i + 1)) /\ ChaChaEnds(d, f[i + 1])
                      /\ IsMachine(f[i + 1])}
  <1>5. 0 \in S
    <2>1. 1 \in 1..n /\ f[1] = Execute(d, ChaChaWord(k + 1))
      BY <1>1, <1>3, <1>4 DEF IsRound
    <2>. QED BY <2>1, MixIs
  <1>6. ASSUME NEW i \in Nat, i \in S PROVE i + 1 \in S
    <2>. SUFFICES ASSUME i + 1 < n
                  PROVE  /\ ChaChaMixes(d, f[(i + 1) + 1], k + ((i + 1) + 1))
                         /\ ChaChaEnds(d, f[(i + 1) + 1]) /\ IsMachine(f[(i + 1) + 1])
      OBVIOUS
    <2>1. PICK j \in Nat : j = i + 1
      OBVIOUS
    <2>2. /\ j + 1 \in 1..n /\ (j + 1) - 1 = j /\ i < n /\ k + j \in Nat
          /\ (k + j) + 1 = k + (j + 1)
      BY <2>1
    <2>3. ChaChaMixes(d, f[j], k + j) /\ IsMachine(f[j])
      BY <1>6, <2>1, <2>2
    <2>4. f[j + 1] = Execute(f[j], ChaChaWord((k + j) + 1))
      BY <1>3, <1>4, <2>2 DEF IsRound
    <2>5. /\ ChaChaMixes(f[j], f[j + 1], (k + j) + 1) /\ ChaChaEnds(f[j], f[j + 1])
          /\ IsMachine(f[j + 1])
      BY <2>2, <2>3, <2>4, MixIs DEF ChaChaMixes
    <2>6. ChaChaMixes(d, f[j + 1], k + (j + 1)) /\ ChaChaEnds(d, f[j + 1])
      BY <2>2, <2>3, <2>5, MixesOn
    <2>. QED BY <2>1, <2>5, <2>6
  <1>7. PICK i \in Nat : i + 1 = n
    <2>1. n - 1 \in Nat /\ (n - 1) + 1 = n
      BY <1>1
    <2>. QED BY <2>1
  <1>. HIDE DEF S
  <1>8. i \in S
    BY <1>5, <1>6, SetInduction
  <1>. QED BY <1>1, <1>2, <1>4, <1>7, <1>8 DEF S

ChaChaUpdates(m, e, X) ==
  /\ Leads(m, e) /\ e.out = m.out /\ UsedBy(e.table, e.reg["K"], {}) /\ From(m, e, "K", "K")
  /\ e.seeded = m.seeded /\ e.reg["V"] = m.reg["V"]
  /\ Keeps(m, e, X, Still, {"K"}, Still) /\ Keeps(m, e, X, Still, {}, Lasting)

LEMMA UpdateEnds ==
  ASSUME NEW m, NEW d, NEW e, NEW x, NEW k, Leads(m, d), d.out = m.out, From(m, d, "K", "K"),
         d.seeded = m.seeded, d.reg["V"] = m.reg["V"],
         NEW X, Keeps(m, d, X, Still, {"K", "T"}, Still),
         ChaChaMixes(d, e, k), ChaChaEnds(d, e), Same(e, x), x.seeded = e.seeded
  PROVE  ChaChaUpdates(m, x, X)
  <1>1. Leads(d, e) /\ Leads(m, e) /\ "K" \in Registers /\ e.out = d.out /\ e.seeded = d.seeded
        /\ e.reg["V"] = d.reg["V"]
    BY LeadsOn DEF ChaChaMixes, Registers
  <1>2. From(m, e, "K", "K")
    BY <1>1, FromOn DEF ChaChaMixes
  <1>3. Keeps(d, e, {"K", "T"}, Still, {"K"}, Still)
    <2>1. PICK A, B, S : A = {"K", "T"} /\ B = {"K"} /\ S = Still
      OBVIOUS
    <2>2. A \subseteq A /\ S \subseteq S /\ B \subseteq A
      BY <2>1
    <2>3. Keeps(d, e, A, S, A, S)
      BY <2>1 DEF ChaChaMixes
    <2>4. Keeps(d, e, A, S, B, S)
      BY <2>2, <2>3, KeepsLess
    <2>. QED BY <2>1, <2>4
  <1>4. Keeps(m, e, X, Still, {"K"}, Still) /\ Keeps(m, e, X, Still, {}, Lasting)
    BY <1>1, <1>3, KeepsOn DEF ChaChaEnds
  <1>5. /\ Leads(m, x) /\ From(m, x, "K", "K") /\ Keeps(m, x, X, Still, {"K"}, Still)
        /\ Keeps(m, x, X, Still, {}, Lasting)
    BY <1>1, <1>2, <1>4, SameIs
  <1>6. UsedBy(x.table, x.reg["K"], {}) /\ x.out = m.out /\ x.seeded = m.seeded
        /\ x.reg["V"] = m.reg["V"]
    BY <1>1 DEF ChaChaEnds, Same
  <1>. QED BY <1>5, <1>6 DEF ChaChaUpdates

\* The key is changed by a new block, or by words that are left of the last.
LEMMA UpdateIs ==
  ASSUME NEW m, IsMachine(m), NEW used \in Nat,
         TooFewLeft(used) => ChaChaReady(m),
         ~ TooFewLeft(used) =>
           m.reg["K"] # m.reg["T"] /\ UsedBy(m.table, m.reg["T"], WordsTo(used % (2 * KeyWords)))
  PROVE  ChaChaUpdates(m, ChaChaUpdate(m, used), IF TooFewLeft(used) THEN {"K"} ELSE {"K", "T"})
  <1>. DEFINE d == IF TooFewLeft(used) THEN Computed(m) ELSE m
              k == IF TooFewLeft(used) THEN 0 ELSE used % (2 * KeyWords)
              p == [j \in 1..KeyWords |-> ChaChaWord(k + j)]
              X == IF TooFewLeft(used) THEN {"K"} ELSE {"K", "T"}
  <1>1. k \in Nat
    BY DrbgAssumption
  <1>2. PICK i \in Nat : i = m.nonce
    BY DEF IsMachine
  <1>3. PICK e : e = Repeat(d, p)
    OBVIOUS
  <1>4. PICK x : x = [e EXCEPT !.nonce = i + 1]
    OBVIOUS
  <1>5. /\ IsMachine(d) /\ Leads(m, d) /\ d.out = m.out /\ From(m, d, "K", "K")
        /\ d.seeded = m.seeded /\ d.nonce = m.nonce /\ d.reg["K"] # d.reg["T"]
        /\ d.reg["V"] = m.reg["V"]
        /\ UsedBy(d.table, d.reg["T"], WordsTo(k)) /\ Keeps(m, d, X, Still, {"K", "T"}, Still)
    <2>1. CASE TooFewLeft(used)
      <3>1. d = Computed(m) /\ k = 0 /\ X = {"K"}
        BY <2>1
      <3>. HIDE DEF d, X, k
      <3>2. ChaChaComputes(m, d) /\ IsMachine(d)
        BY <2>1, <3>1, ComputedIs
      <3>3. UsedBy(d.table, d.reg["T"], WordsTo(k))
        BY <3>2, UsedMore DEF ChaChaComputes
      <3>4. Keeps(m, d, X, Still, {"K", "T"}, Still)
        <4>1. /\ X \subseteq Registers /\ Still \subseteq Registers /\ "K" \in X
              /\ {"K", "T"} \subseteq X \union {"T"} /\ Still \subseteq Still \ {"T"}
          BY <3>1 DEF Registers, Still
        <4>. QED BY <3>2, <4>1 DEF ChaChaComputes
      <3>. QED BY <3>2, <3>3, <3>4 DEF ChaChaComputes
    <2>2. CASE ~ TooFewLeft(used)
      <3>1. d = m /\ k = used % (2 * KeyWords) /\ X = {"K", "T"}
        BY <2>2
      <3>. HIDE DEF d, X, k
      <3>2. Leads(m, m) /\ From(m, m, "K", "K") /\ Keeps(m, m, X, Still, X, Still)
        BY LeadsItself, CountsItself, KeepsItself DEF From
      <3>. QED BY <2>2, <3>1, <3>2
    <2>. QED BY <2>1, <2>2
  <1>6. ChaChaUpdate(m, used) = x
    <2>1. e.nonce = i
      <3>. HIDE DEF d, k
      <3>. QED BY <1>1, <1>2, <1>3, <1>5, MixAll DEF ChaChaMixes
    <2>. QED BY <1>3, <1>4, <2>1 DEF ChaChaUpdate, ChaChaWord
  <1>. HIDE DEF d, k, X
  <1>7. ChaChaMixes(d, e, k + KeyWords) /\ ChaChaEnds(d, e) /\ IsMachine(e)
    BY <1>1, <1>3, <1>5, MixAll
  <1>8. Same(e, x) /\ x.seeded = e.seeded
    BY <1>4, <1>7, SameNonce
  <1>9. ChaChaUpdates(m, x, X)
    BY <1>5, <1>7, <1>8, UpdateEnds
  <1>. QED BY <1>6, <1>9 DEF X

\* Blocks are put out; the key stays.
ChaChaRuns(m, e) ==
  /\ Leads(m, e) /\ ChaChaReady(e) /\ e.reg["K"] = m.reg["K"] /\ e.seeded = m.seeded
  /\ e.reg["V"] = m.reg["V"]
  /\ From(m, e, "K", "K") /\ OutsFrom(m, e, "K")
  /\ Keeps(m, e, {"K"}, Still, {"K"}, Still) /\ Burns(m, e, {"K"}, Still, {"K"}, Still)

\* k words of the last block were put out.
ChaChaLast(m, e, k) ==
  /\ e.reg["K"] # e.reg["T"] /\ UsedBy(e.table, e.reg["T"], WordsTo(k))
  /\ Keeps(m, e, {"K"}, Still, {"K", "T"}, Still) /\ Burns(m, e, {"K"}, Still, {"K", "T"}, Still)

ChaChaWords(d, k) == Execute(d, [j \in 1..k |-> Set("out", <<"word", j>>, <<"T">>)])

LEMMA WordsOut ==
  ASSUME NEW d, IsMachine(d), NEW k \in Nat
  PROVE  \E nm : /\ Output(d, ChaChaWords(d, k), nm, k, <<"T">>)
                 /\ \A i \in 1..k : nm[i] = <<"word", i>>
  <1>1. PICK nm : nm = [i \in 1..k |-> <<"word", i>>]
    OBVIOUS
  <1>2. \A i \in 1..k : nm[i] = <<"word", i>>
    BY <1>1
  <1>3. OutNames(nm, k)
    <2>1. ASSUME NEW i \in 1..k PROVE OneWay(nm[i]) /\ nm[i][2] = 0 + i
      <3>1. nm[i] = <<"word", i>> /\ i \in Nat /\ 0 + i = i
        BY <1>2
      <3>. QED BY <3>1, ChaChaNamesAre DEF ChaChaNames
    <2>. QED BY <2>1, Numbered
  <1>4. PICK of : of = <<"T">>
    OBVIOUS
  <1>5. OutOf(of)
    <2>1. "T" \in Registers /\ "T" # "out"
      BY DEF Registers
    <2>2. of \in Seq(Registers)
      BY <1>4, <2>1, RegsOne
    <2>. QED BY <1>4, <2>1, <2>2 DEF OutOf
  <1>6. PICK p : p = [i \in 1..k |-> Set("out", nm[i], of)]
    OBVIOUS
  <1>7. PICK e : e = Execute(d, p)
    OBVIOUS
  <1>8. Output(d, e, nm, k, of)
    BY ONLY IsMachine(d), k \in Nat, <1>3, <1>5, <1>6, <1>7, OutputTo
  <1>9. ChaChaWords(d, k) = e
    BY <1>1, <1>4, <1>6, <1>7 DEF ChaChaWords
  <1>. QED BY <1>2, <1>4, <1>8, <1>9

LEMMA WordsRun ==
  ASSUME NEW m, NEW c, NEW e, ChaChaComputes(m, c), NEW nm, NEW k \in Nat,
         Output(c, e, nm, k, <<"T">>), \A i \in 1..k : nm[i] = <<"word", i>>
  PROVE  ChaChaRuns(m, e) /\ ChaChaLast(m, e, k)
  <1>1. /\ {"K", "T", "V", "df"} \subseteq Registers /\ "K" # "out" /\ "T" # "out"
        /\ Regs(<<"T">>) = {"T"}
    BY RegsOne DEF Registers
  <1>2. OutFresh(c, nm, k, <<"T">>)
    BY <1>1 DEF OutFresh, ChaChaComputes
  <1>3. /\ Leads(c, e) /\ \A r \in Registers : r # "out" => e.reg[r] = c.reg[r] /\ From(c, e, r, r)
        /\ e.seeded = c.seeded /\ e.ctr = c.ctr /\ e.nonce = c.nonce
        /\ OutsFrom(c, e, "T")
    BY <1>1, <1>2, OutputIs
  <1>4. /\ Leads(m, c) /\ c.out = m.out /\ ChaChaReady(c) /\ c.reg["K"] = m.reg["K"]
        /\ UsedBy(c.table, c.reg["T"], {}) /\ c.seeded = m.seeded /\ c.reg["V"] = m.reg["V"]
        /\ From(m, c, "K", "K") /\ From(m, c, "K", "T") /\ c.reg["T"] # c.reg["K"]
    BY DEF ChaChaComputes
  <1>5. e.reg["K"] = c.reg["K"] /\ e.reg["T"] = c.reg["T"] /\ From(c, e, "K", "K")
        /\ e.reg["V"] = c.reg["V"]
    BY <1>1, <1>3 DEF Registers
  <1>6. Leads(m, e) /\ From(m, e, "K", "K")
    BY <1>1, <1>3, <1>4, <1>5, LeadsOn, FromOn
  <1>7. OutsFrom(m, e, "K")
    BY <1>1, <1>3, <1>4, BurnsNothing, OutsFromOn
  <1>8. UsedBy(e.table, e.reg["T"], WordsTo(k))
    <2>1. {} \subseteq WordsTo(k) /\ \A i \in 1..k : nm[i] \in WordsTo(k)
      BY DEF WordsTo
    <2>2. UsedBy(e.table, c.reg["T"], WordsTo(k))
      BY <1>2, <1>4, <2>1, OutputUsed
    <2>. QED BY <1>5, <2>2
  <1>9. ChaChaReady(e)
    <2>1. PICK W : W = {<<"block", c.nonce, x>> : x \in 0..(c.ctr - 1)}
      OBVIOUS
    <2>2. UsedBy(c.table, c.reg["K"], W)
      BY <1>4, <2>1 DEF ChaChaReady
    <2>3. \A r \in Regs(<<"T">>) : c.reg[r] # c.reg["K"]
      BY <1>1, <1>4
    <2>4. UsedBy(e.table, c.reg["K"], W)
      BY <1>2, <2>2, <2>3, OutputUsed
    <2>. QED BY <1>3, <1>5, <2>1, <2>4 DEF ChaChaReady
  <1>10. PICK K, X : K = {"K"} /\ X = {"K", "T"}
    OBVIOUS
  <1>11. /\ K \subseteq Registers /\ Still \subseteq Registers /\ "K" \in K
         /\ X \subseteq K \union {"T"} /\ Still \subseteq Still \ {"T"}
         /\ X \subseteq Registers \ {"out"} /\ Still \subseteq Registers \ {"out"}
         /\ Regs(<<"T">>) \intersect X # {} /\ K \subseteq X /\ K \subseteq K
         /\ X \subseteq X /\ Still \subseteq Still
    BY <1>1, <1>10 DEF Still
  <1>12. Keeps(m, c, K, Still, X, Still)
    BY <1>11 DEF ChaChaComputes
  <1>13. Keeps(c, e, X, Still, X, Still) /\ Burns(c, e, X, Still, X, Still)
    BY <1>2, <1>11, OutputKeeps
  <1>14. Keeps(m, e, K, Still, X, Still) /\ Burns(m, e, K, Still, X, Still)
    BY <1>3, <1>4, <1>12, <1>13, KeepsOn, BurnsAfter
  <1>15. Keeps(m, e, K, Still, K, Still) /\ Burns(m, e, K, Still, K, Still)
    BY <1>11, <1>14, KeepsLess, BurnsLess
  <1>16. ChaChaRuns(m, e)
    BY <1>3, <1>4, <1>5, <1>6, <1>7, <1>9, <1>10, <1>15 DEF ChaChaRuns
  <1>. QED BY <1>4, <1>5, <1>8, <1>10, <1>14, <1>16 DEF ChaChaLast

LEMMA ChaChaBlockIs ==
  ASSUME NEW m, IsMachine(m), ChaChaReady(m), NEW k \in Nat,
         NEW e, e = ChaChaWords(Computed(m), k)
  PROVE  ChaChaRuns(m, e) /\ ChaChaLast(m, e, k) /\ IsMachine(e)
  <1>1. PICK c : c = Computed(m)
    OBVIOUS
  <1>2. ChaChaComputes(m, c) /\ IsMachine(c)
    BY <1>1, ComputedIs
  <1>3. PICK nm : Output(c, e, nm, k, <<"T">>) /\ \A i \in 1..k : nm[i] = <<"word", i>>
    BY <1>1, <1>2, WordsOut
  <1>4. ChaChaRuns(m, e) /\ ChaChaLast(m, e, k)
    BY <1>2, <1>3, WordsRun
  <1>. QED BY <1>4, LeadsTyped DEF ChaChaRuns

LEMMA RunsOn ==
  ASSUME NEW m, NEW d, NEW e, ChaChaRuns(m, d), ChaChaRuns(d, e)
  PROVE  ChaChaRuns(m, e) /\ \A k : ChaChaLast(d, e, k) => ChaChaLast(m, e, k)
  <1>1. Leads(m, d) /\ Leads(d, e) /\ Leads(m, e) /\ "K" \in Registers
    BY LeadsOn DEF ChaChaRuns, Registers
  <1>2. From(m, e, "K", "K") /\ OutsFrom(m, e, "K")
    BY <1>1, FromOn, OutsFromOn DEF ChaChaRuns
  <1>3. PICK K, X : K = {"K"} /\ X = {"K", "T"}
    OBVIOUS
  <1>4. /\ Keeps(m, d, K, Still, K, Still) /\ Burns(m, d, K, Still, K, Still)
        /\ Keeps(d, e, K, Still, K, Still) /\ Burns(d, e, K, Still, K, Still)
    BY <1>3 DEF ChaChaRuns
  <1>5. Keeps(m, e, K, Still, K, Still) /\ Burns(m, e, K, Still, K, Still)
    BY <1>1, <1>4, KeepsOn, BurnsOn
  <1>6. ASSUME NEW k, ChaChaLast(d, e, k) PROVE ChaChaLast(m, e, k)
    <2>1. Keeps(d, e, K, Still, X, Still) /\ Burns(d, e, K, Still, X, Still)
      BY <1>3, <1>6 DEF ChaChaLast
    <2>2. Keeps(m, e, K, Still, X, Still) /\ Burns(m, e, K, Still, X, Still)
      BY <1>1, <1>4, <2>1, KeepsOn, BurnsOn
    <2>. QED BY <1>3, <1>6, <2>2 DEF ChaChaLast
  <1>. QED BY <1>1, <1>2, <1>3, <1>5, <1>6 DEF ChaChaRuns

LEMMA RunsItself ==
  ASSUME NEW m, IsMachine(m), ChaChaReady(m)
  PROVE  ChaChaRuns(m, m)
  <1>1. Leads(m, m) /\ From(m, m, "K", "K")
    BY LeadsItself, CountsItself DEF From
  <1>2. \A x : OutsFrom(m, m, x)
    BY <1>1, BurnsNothing
  <1>. QED BY <1>1, <1>2, KeepsItself DEF ChaChaRuns

\* Whole blocks.
ChaChaFull(m, N) ==
  LET full[b \in 0..N] ==
        IF b = 0 THEN m ELSE ChaChaWords(Computed(full[b - 1]), 2 * KeyWords)
  IN full[N]

LEMMA FullTurns ==
  ASSUME NEW m, NEW n \in Nat
  PROVE  \E f : /\ f[0] = m /\ ChaChaFull(m, n) = f[n]
                /\ \A i \in 1..n : f[i] = ChaChaWords(Computed(f[i - 1]), 2 * KeyWords)
  <1>. DEFINE IsLoop(f, k) ==
                f = [i \in 0..k |-> IF i = 0 THEN m
                                    ELSE ChaChaWords(Computed(f[i - 1]), 2 * KeyWords)]
              S == {k \in Nat : \E f : IsLoop(f, k)}
  <1>1. 0 \in S
    <2>1. IsLoop([i \in 0..0 |-> m], 0)
      OBVIOUS
    <2>. QED BY <2>1
  <1>2. ASSUME NEW k \in Nat, k \in S PROVE k + 1 \in S
    <2>1. PICK f : IsLoop(f, k)
      BY <1>2
    <2>. DEFINE g == [i \in 0..(k + 1) |-> IF i <= k THEN f[i]
                                           ELSE ChaChaWords(Computed(f[k]), 2 * KeyWords)]
    <2>. HIDE DEF IsLoop
    <2>2. \A i \in 0..(k + 1) :
            g[i] = IF i = 0 THEN m ELSE ChaChaWords(Computed(g[i - 1]), 2 * KeyWords)
      <3>1. \A i \in 0..k :
              f[i] = IF i = 0 THEN m ELSE ChaChaWords(Computed(f[i - 1]), 2 * KeyWords)
        BY <2>1 DEF IsLoop
      <3>2. ASSUME NEW i \in 0..(k + 1)
            PROVE  g[i] = IF i = 0 THEN m ELSE ChaChaWords(Computed(g[i - 1]), 2 * KeyWords)
        <4>1. CASE i <= k
          BY <3>1, <3>2, <4>1
        <4>2. CASE i = k + 1
          BY <4>2
        <4>. QED BY <3>2, <4>1, <4>2
      <3>. QED BY <3>2
    <2>3. IsLoop(g, k + 1)
      BY <2>2 DEF IsLoop
    <2>. QED BY <2>3
  <1>3. \E f : IsLoop(f, n)
    <2>. HIDE DEF S
    <2>1. n \in S
      BY <1>1, <1>2, SetInduction
    <2>. QED BY <2>1 DEF S
  <1>4. PICK f : IsLoop(f, n) /\ ChaChaFull(m, n) = f[n]
    <2>1. ChaChaFull(m, n) = (CHOOSE f : IsLoop(f, n))[n]
      BY Zenon DEF ChaChaFull
    <2>2. IsLoop(CHOOSE f : IsLoop(f, n), n)
      BY <1>3, Zenon
    <2>. QED BY <2>1, <2>2, Zenon
  <1>. QED BY <1>4

LEMMA FullRuns ==
  ASSUME NEW m, IsMachine(m), ChaChaReady(m), NEW n \in Nat, NEW e, e = ChaChaFull(m, n)
  PROVE  ChaChaRuns(m, e)
  <1>1. PICK size \in Nat : size = 2 * KeyWords
    BY DrbgAssumption
  <1>2. PICK f : /\ f[0] = m /\ e = f[n]
                 /\ \A i \in 1..n : f[i] = ChaChaWords(Computed(f[i - 1]), size)
    BY <1>1, FullTurns
  <1>. DEFINE S == {i \in Nat : i <= n => ChaChaRuns(m, f[i]) /\ IsMachine(f[i])}
  <1>3. 0 \in S
    BY <1>2, RunsItself
  <1>4. ASSUME NEW i \in Nat, i \in S PROVE i + 1 \in S
    <2>. SUFFICES ASSUME i + 1 <= n
                  PROVE  ChaChaRuns(m, f[i + 1]) /\ IsMachine(f[i + 1])
      OBVIOUS
    <2>1. i + 1 \in 1..n /\ (i + 1) - 1 = i /\ i <= n
      OBVIOUS
    <2>2. ChaChaRuns(m, f[i]) /\ IsMachine(f[i])
      BY <1>4, <2>1
    <2>3. f[i + 1] = ChaChaWords(Computed(f[i]), size)
      BY <1>2, <2>1
    <2>4. ChaChaReady(f[i])
      BY <2>2 DEF ChaChaRuns
    <2>5. ChaChaRuns(f[i], f[i + 1]) /\ IsMachine(f[i + 1])
      BY <2>2, <2>3, <2>4, ChaChaBlockIs
    <2>. QED BY <2>2, <2>5, RunsOn
  <1>. HIDE DEF S
  <1>5. n \in S
    BY <1>3, <1>4, SetInduction
  <1>. QED BY <1>2, <1>5 DEF S

LEMMA ChaChaCall ==
  ASSUME NEW m, NEW d, NEW x, ChaChaRuns(m, d), NEW X, ChaChaUpdates(d, x, X),
         Keeps(m, d, {"K"}, Still, X, Still), Burns(m, d, {"K"}, Still, X, Still)
  PROVE  Generation("chacha", m, x, <<>>)
  <1>1. /\ Leads(m, d) /\ Leads(d, x) /\ Leads(m, x) /\ "K" \in Registers
        /\ x.out = d.out /\ x.seeded = m.seeded
    BY LeadsOn DEF ChaChaRuns, ChaChaUpdates, Registers
  <1>2. From(m, x, "K", "K") /\ OutsFrom(m, x, "K")
    <2>1. OutsFrom(d, x, "K")
      BY <1>1, BurnsNothing
    <2>. QED BY <1>1, <2>1, FromOn, OutsFromOn DEF ChaChaRuns, ChaChaUpdates
  <1>3. PICK K, N : K = {"K"} /\ N = {}
    OBVIOUS
  <1>4. Keeps(d, x, X, Still, K, Still) /\ Keeps(d, x, X, Still, N, Lasting)
    BY <1>3 DEF ChaChaUpdates
  <1>5. Keeps(m, d, K, Still, X, Still) /\ Burns(m, d, K, Still, X, Still)
    BY <1>3
  <1>6. Keeps(m, x, K, Still, K, Still)
    BY <1>1, <1>4, <1>5, KeepsOn
  <1>7. Burns(m, x, K, Still, N, Lasting)
    <2>1. Burns(d, x, X, Still, N, Lasting)
      BY <1>1, BurnsNothing
    <2>. QED BY <1>1, <1>4, <1>5, <2>1, BurnsOn
  <1>8. PICK R : R = Still \union Inputs
    OBVIOUS
  <1>9. K \subseteq K /\ Still \subseteq R /\ Still \subseteq Still /\ N \subseteq N
        /\ Lasting \subseteq Lasting
    BY <1>8
  <1>10. Keeps(m, x, K, R, K, Still) /\ Burns(m, x, K, R, N, Lasting)
    BY <1>6, <1>7, <1>9, KeepsLess, BurnsLess
  <1>11. /\ Key("chacha") = "K" /\ \A b : Secret("chacha", b) = K
         /\ \A b : Public("chacha", b) = Still
    BY <1>3 DEF Key, Secret, Public, Lasting, Still
  <1>12. Regs(<<>>) = {}
    BY DEF Regs
  <1>13. UsedBy(x.table, x.reg["K"], {})
    BY DEF ChaChaUpdates
  <1>14. Idle("chacha", m, x)
    BY DEF ChaChaRuns, ChaChaUpdates, Idle
  <1>. QED BY <1>1, <1>2, <1>3, <1>8, <1>10, <1>11, <1>12, <1>13, <1>14 DEF Generation, AtRest

LEMMA ChaChaGenerateIs ==
  ASSUME NEW m, IsMachine(m), AtRest("chacha", m), NEW n \in Nat
  PROVE  Generation("chacha", m, ChaChaGenerate(m, n, <<>>), <<>>)
  <1>1. PICK size \in Nat : size = 2 * KeyWords /\ size > KeyWords /\ size # 0
    BY DrbgAssumption
  <1>2. PICK N \in Nat, rest \in Nat : N = n \div size /\ rest = n % size /\ rest < size
    BY <1>1
  <1>3. ChaChaReady(m)
    BY UsedMore DEF AtRest, ChaChaReady
  <1>4. PICK d : d = ChaChaFull(m, N)
    OBVIOUS
  <1>5. ChaChaRuns(m, d)
    BY <1>3, <1>4, FullRuns
  <1>6. IsMachine(d) /\ ChaChaReady(d)
    BY <1>5, LeadsTyped DEF ChaChaRuns
  <1>7. ChaChaGenerate(m, n, <<>>) =
          IF rest = 0 THEN ChaChaUpdate(d, size)
          ELSE ChaChaUpdate(ChaChaWords(Computed(d), rest), rest)
    <2>1. ChaChaGenerate(m, n, <<>>) =
            IF n % (2 * KeyWords) = 0
            THEN ChaChaUpdate(ChaChaFull(m, n \div (2 * KeyWords)), 2 * KeyWords)
            ELSE ChaChaUpdate(ChaChaWords(Computed(ChaChaFull(m, n \div (2 * KeyWords))),
                                          n % (2 * KeyWords)), n % (2 * KeyWords))
      BY Zenon DEF ChaChaGenerate, ChaChaFull, ChaChaWords
    <2>2. size = 2 * KeyWords /\ N = n \div (2 * KeyWords) /\ rest = n % (2 * KeyWords)
      BY <1>1, <1>2
    <2>. QED BY ONLY <2>1, <2>2, <1>4, Zenon
  <1>8. CASE rest = 0
    <2>1. TooFewLeft(size)
      BY <1>1 DEF TooFewLeft
    <2>2. PICK x : x = ChaChaUpdate(d, size)
      OBVIOUS
    <2>3. ChaChaUpdates(d, x, {"K"})
      BY <1>6, <2>1, <2>2, UpdateIs
    <2>4. Generation("chacha", m, x, <<>>)
      BY <1>5, <2>3, ChaChaCall DEF ChaChaRuns
    <2>. QED BY <1>7, <1>8, <2>2, <2>4
  <1>9. CASE rest # 0
    <2>1. PICK e : e = ChaChaWords(Computed(d), rest)
      OBVIOUS
    <2>2. ChaChaRuns(d, e) /\ ChaChaLast(d, e, rest) /\ IsMachine(e)
      BY <1>6, <2>1, ChaChaBlockIs
    <2>3. ChaChaRuns(m, e) /\ ChaChaLast(m, e, rest)
      BY <1>5, <2>2, RunsOn
    <2>4. rest % (2 * KeyWords) = rest
      BY <1>1, <1>2
    <2>5. PICK X : X = IF TooFewLeft(rest) THEN {"K"} ELSE {"K", "T"}
      OBVIOUS
    <2>6. PICK x : x = ChaChaUpdate(e, rest)
      OBVIOUS
    <2>7. ChaChaUpdates(e, x, X)
      <3>1. ChaChaReady(e) /\ e.reg["K"] # e.reg["T"]
            /\ UsedBy(e.table, e.reg["T"], WordsTo(rest % (2 * KeyWords)))
        BY <2>3, <2>4 DEF ChaChaRuns, ChaChaLast
      <3>. QED BY <2>2, <2>5, <2>6, <3>1, UpdateIs
    <2>8. Keeps(m, e, {"K"}, Still, X, Still) /\ Burns(m, e, {"K"}, Still, X, Still)
      BY <2>3, <2>5 DEF ChaChaRuns, ChaChaLast
    <2>9. Generation("chacha", m, x, <<>>)
      BY <2>3, <2>7, <2>8, ChaChaCall
    <2>. QED BY <1>7, <1>9, <2>1, <2>6, <2>9
  <1>. QED BY <1>8, <1>9

LEMMA ChaChaSeedIs ==
  ASSUME NEW m, IsMachine(m), UsedBy(m.table, m.reg["in"], {})
  PROVE  Seeding("chacha", m, ChaChaSeed(m, <<"in">>), <<"in">>)
  <1>1. PICK f, of : f = F("xor") /\ of = <<"K", "in">>
    OBVIOUS
  <1>2. /\ {"K", "in", "V", "df"} \subseteq Registers /\ "K" # "out" /\ "K" \in Registers
        /\ "in" \in Registers /\ "V" \in Registers /\ "V" # "K"
    BY DEF Registers
  <1>3. of \in Seq(Registers) /\ Regs(of) = {"K", "in"}
    BY <1>1, <1>2, RegsTwo
  <1>4. Function(f)
    BY <1>1, ChaChaNamesAre DEF ChaChaNames
  <1>5. PICK a : a = Set("K", f, of)
    OBVIOUS
  <1>6. PICK d : d = Do(m, a)
    OBVIOUS
  <1>7. Turn(m, d, "K", f, of) /\ IsMachine(d)
    BY <1>2, <1>3, <1>4, <1>5, <1>6, TurnOf
  <1>8. Fresh(m, f, of)
    BY <1>3, FreshUnused
  <1>9. /\ Leads(m, d) /\ d.out = m.out /\ UsedBy(d.table, d.reg["K"], {})
        /\ From(m, d, "K", "K") /\ From(m, d, "in", "K") /\ d.reg["V"] = m.reg["V"]
    BY <1>2, <1>3, <1>7, <1>8, TurnIs, TurnFresh
  <1>10. ChaChaReady(d)
    BY <1>9, UsedMore DEF ChaChaReady
  <1>11. PICK I, R, K : I = {"in"} /\ R = Registers \ {"in"} /\ K = {"K"}
    OBVIOUS
  <1>12. /\ I \subseteq Registers /\ R \subseteq Registers /\ "in" \in I /\ "in" \in Regs(of)
         /\ K \subseteq I \union {"K"} /\ Still \subseteq R \ {"K"}
    BY <1>2, <1>3, <1>11 DEF Still
  <1>13. Keeps(m, d, I, R, K, Still)
    BY <1>7, <1>8, <1>12, TurnHides
  <1>14. PICK used \in Nat : used = 2 * KeyWords /\ TooFewLeft(used)
    BY DrbgAssumption DEF TooFewLeft
  <1>15. PICK e : e = ChaChaUpdate(d, used)
    OBVIOUS
  <1>16. ChaChaUpdates(d, e, K)
    BY <1>7, <1>10, <1>11, <1>14, <1>15, UpdateIs
  <1>17. PICK x : x = [e EXCEPT !.seeded = TRUE]
    OBVIOUS
  <1>18. ChaChaSeed(m, <<"in">>) = x
    <2>1. Execute(m, <<a>>) = d
      BY <1>6, ExecuteOne
    <2>. QED BY <1>1, <1>5, <1>14, <1>15, <1>17, <2>1 DEF ChaChaSeed
  <1>19. /\ Leads(d, e) /\ Leads(m, e) /\ e.out = m.out /\ IsMachine(e)
         /\ From(m, e, "K", "K") /\ From(m, e, "in", "K") /\ Keeps(m, e, I, R, K, Still)
    <2>1. Leads(d, e) /\ e.out = d.out /\ From(d, e, "K", "K")
      BY <1>16 DEF ChaChaUpdates
    <2>2. Keeps(d, e, K, Still, K, Still)
      BY <1>11, <1>16 DEF ChaChaUpdates
    <2>. QED BY <1>2, <1>9, <1>13, <2>1, <2>2, LeadsOn, LeadsTyped, FromOn, KeepsOn
  <1>20. Same(e, x) /\ x.seeded
    BY <1>17, <1>19, SameSeeded
  <1>21. /\ Leads(m, x) /\ From(m, x, "K", "K") /\ From(m, x, "in", "K")
         /\ Keeps(m, x, I, R, K, Still)
    BY <1>19, <1>20, SameIs
  <1>22. UsedBy(x.table, x.reg["K"], {}) /\ x.out = m.out
    BY <1>16, <1>19, <1>20 DEF ChaChaUpdates, Same
  <1>23. /\ Key("chacha") = "K" /\ \A b : Secret("chacha", b) = K
         /\ \A b : Public("chacha", b) = Still
    BY <1>11 DEF Key, Secret, Public, Lasting, Still
  <1>24. Regs(<<"in">>) = {"in"}
    BY <1>2, RegsOne
  <1>25. Idle("chacha", m, x)
    BY <1>9, <1>16, <1>20 DEF ChaChaUpdates, Same, Idle
  <1>. QED BY <1>11, <1>18, <1>20, <1>21, <1>22, <1>23, <1>24, <1>25 DEF Seeding, AtRest

-----------------------------------------------------------------------------
(* HMAC_DRBG.                                                              *)

HmacNames ==
  /\ \A i \in Nat : OneWay(<<"hmac", i>>) /\ <<"hmac", i>>[1] = "hmac"
  /\ OneWay(F("hmac-V")) /\ F("hmac-V")[1] = "hmac-V"
  /\ Function(F("ones")) /\ Function(F("copy")) /\ F("copy")[1] = "copy"

LEMMA HmacNamesAre == HmacNames
  <1>0. {"hmac", "hmac-V", "ones", "copy"} \subseteq Words
    BY DEF Words
  <1>1. ASSUME NEW i \in Nat PROVE OneWay(<<"hmac", i>>) /\ <<"hmac", i>>[1] = "hmac"
    BY <1>0, FunctionIs
  <1>2. OneWay(F("hmac-V")) /\ F("hmac-V")[1] = "hmac-V"
    BY <1>0, FunctionIs DEF F
  <1>3. Function(F("ones"))
    BY <1>0, FunctionIs DEF F
  <1>4. Function(F("copy")) /\ F("copy")[1] = "copy"
    BY <1>0, FunctionIs DEF F
  <1>. QED BY <1>1, <1>2, <1>3, <1>4 DEF HmacNames

\* V was used for nothing but the block put out.
HmacReady(m) == UsedBy(m.table, m.reg["V"], {F("copy")})

\* A block that is put out as it is.
LEMMA CopyIs ==
  ASSUME NEW m, IsMachine(m), UsedBy(m.table, m.reg["V"], {}),
         NEW s, s = Set("out", F("copy"), <<"V">>), NEW d, d = Do(m, s)
  PROVE  /\ s \in Instruction /\ IsMachine(d) /\ Leads(m, d) /\ HmacReady(d) /\ d.seeded = m.seeded
         /\ \A r \in Registers \ {"out"} : d.reg[r] = m.reg[r] /\ From(m, d, r, r)
         /\ OutsFrom(m, d, "V")
         /\ Keeps(m, d, {"K"}, {"V", "df"}, {"K"}, {"V", "df"})
         /\ Burns(m, d, {"K", "V"}, {"df"}, {"K", "V"}, {"df"})
  <1>1. {"out", "V", "K", "df"} \subseteq Registers /\ "out" \in Registers /\ "V" # "out"
    BY DEF Registers
  <1>2. PICK f, of : f = F("copy") /\ of = <<"V">>
    OBVIOUS
  <1>3. f \in Names /\ f[1] = "copy" /\ f[1] \notin {"seed", "public"} /\ f[1] # "seed"
    BY <1>2, HmacNamesAre DEF HmacNames, Function
  <1>4. of \in Seq(Registers) /\ Regs(of) = {"V"} /\ Len(of) = 1
    BY <1>1, <1>2, RegsOne
  <1>5. s \in Instruction
    BY <1>1, <1>2, <1>3, <1>4, InstructionIs
  <1>6. PICK v : v = Value(m, f, of)
    OBVIOUS
  <1>7. v \in AnyTerm /\ v.f = f /\ Args(v) = {m.reg["V"]}
    <2>1. Args(v) = {m.reg[of[j]] : j \in 1..Len(of)}
      BY <1>3, <1>4, <1>6, ValueIs
    <2>2. {m.reg[of[j]] : j \in 1..Len(of)} = {m.reg["V"]}
      BY <1>2, <1>4
    <2>. QED BY <1>3, <1>4, <1>6, <2>1, <2>2, ValueIs
  <1>8. PICK id \in Nat : Stored(m, d, "out", v, id)
    BY <1>1, <1>2, <1>3, <1>4, <1>6, DoIs
  <1>9. IsNew(m.table, v)
    BY <1>7, NewByArgument
  <1>10. id = Len(m.table) + 1 /\ Len(m.table) \in Nat /\ Len(d.table) = id
    BY <1>8, <1>9, StoredNew
  <1>11. /\ IsMachine(d) /\ d.out = Append(m.out, id) /\ d.seeded = m.seeded
         /\ \A r \in Registers \ {"out"} : d.reg[r] = m.reg[r]
    BY <1>8 DEF Stored
  <1>12. PICK n \in Nat : n = Len(m.out)
    BY DEF IsMachine
  <1>13. /\ Len(d.out) = n + 1 /\ d.out[n + 1] = id /\ \A i \in 1..n : d.out[i] = m.out[i]
    <2>1. PICK o : o = m.out
      OBVIOUS
    <2>2. o \in Seq(Nat)
      BY <2>1 DEF IsMachine
    <2>3. d.out = Append(o, id) /\ n = Len(o)
      BY <1>11, <1>12, <2>1
    <2>. QED BY ONLY id \in Nat, <2>1, <2>2, <2>3
  <1>14. NewOut(m, d) = {n + 1}
    BY <1>12, <1>13 DEF NewOut
  <1>15. Leads(m, d)
    <2>1. Fits(m, d)
      BY <1>5, DoFits
    <2>2. Outs(m, d)
      BY <1>10, <1>12, <1>13, <1>14 DEF Outs
    <2>. QED BY <2>1, <2>2 DEF Leads
  <1>16. OutsFrom(m, d, "V")
    <2>1. m.reg["V"] \in Args(v) /\ m.reg["V"] \in 1..Len(m.table)
      BY <1>1, <1>7 DEF IsMachine
    <2>2. Counts(m.table, m.reg["V"], {m.reg["V"]})
      BY CountsItself
    <2>3. Counts(d.table, id, {m.reg["V"]})
      BY <1>8, <2>1, <2>2, StoredCounts
    <2>. QED BY <1>13, <1>14, <2>3 DEF OutsFrom
  <1>17. \A r \in Registers \ {"out"} : From(m, d, r, r)
    BY <1>11, CountsItself DEF From
  <1>18. HmacReady(d)
    <2>1. {} \subseteq {f} /\ v.f \in {f}
      BY <1>7
    <2>2. UsedBy(d.table, m.reg["V"], {f})
      BY <1>8, <2>1, UsedAfter
    <2>. QED BY <1>1, <1>2, <1>11, <2>2 DEF HmacReady
  <1>19. \A P : P \subseteq 1..Len(m.table) => id \notin P
    BY <1>10
  <1>20. Keeps(m, d, {"K"}, {"V", "df"}, {"K"}, {"V", "df"})
    <2>. SUFFICES ASSUME NEW P, Colours(m, P, {"K"}, {"V", "df"})
                  PROVE  Colours(d, P, {"K"}, {"V", "df"}) /\ AllShown(m, d, P)
      BY DEF Keeps, Agrees
    <2>1. Sealed(m.table, P) /\ Apart(v, P)
      BY <1>7 DEF Colours, Apart
    <2>2. Sealed(d.table, P) /\ id \notin P
      BY <1>3, <1>7, <1>8, <2>1, Shown
    <2>. QED BY <1>1, <1>11, <1>13, <1>14, <2>2 DEF Colours, AllShown
  <1>21. Burns(m, d, {"K", "V"}, {"df"}, {"K", "V"}, {"df"})
    <2>. SUFFICES ASSUME NEW P, Colours(m, P, {"K", "V"}, {"df"})
                  PROVE  \E Q : /\ Colours(d, Q, {"K", "V"}, {"df"}) /\ Agrees(m, P, Q)
                                /\ OneHidden(m, d, Q, n + 1)
      BY <1>14 DEF Burns
    <2>1. Sealed(m.table, P) /\ ~ Apart(v, P)
      BY <1>7 DEF Colours, Apart
    <2>2. PICK Q : Q = P \union {id}
      OBVIOUS
    <2>3. Sealed(d.table, Q) /\ \A i \in 1..Len(m.table) : i \in Q <=> i \in P
      BY ONLY IsMachine(m), <1>8, <1>10, <2>1, <2>2, Hidden, SMTT(30)
    <2>4. \A r \in Registers : m.reg[r] # id
      <3>1. \A r \in Registers : m.reg[r] \in 1..Len(m.table)
        BY DEF IsMachine
      <3>. QED BY <1>10, <3>1
    <2>5. Colours(d, Q, {"K", "V"}, {"df"})
      BY <1>1, <1>11, <2>2, <2>3, <2>4 DEF Colours
    <2>. QED BY <1>13, <1>14, <2>2, <2>3, <2>5 DEF Agrees, OneHidden
  <1>. QED BY <1>5, <1>11, <1>15, <1>16, <1>17, <1>18, <1>20, <1>21

\* The next block.
HmacRuns(m, e) ==
  /\ Leads(m, e) /\ HmacReady(e) /\ e.seeded = m.seeded
  /\ From(m, e, "K", "K") /\ OutsFrom(m, e, "K")
  /\ Keeps(m, e, {"K"}, {"df"}, {"K"}, {"df"}) /\ Burns(m, e, {"K"}, {"df"}, {"K"}, {"df"})

HmacBlock == << Set("V", F("hmac-V"), <<"K", "V">>), Set("out", F("copy"), <<"V">>) >>

LEMMA HmacBlockIs ==
  ASSUME NEW m, IsMachine(m), HmacReady(m), NEW e, e = Execute(m, HmacBlock)
  PROVE  HmacRuns(m, e) /\ HmacBlock \in Seq(Instruction)
  <1>1. /\ {"out", "V", "K", "df"} \subseteq Registers /\ "V" # "out"
        /\ "V" \in Registers /\ "K" \in Registers
    BY DEF Registers
  <1>2. PICK f, of : f = F("hmac-V") /\ of = <<"K", "V">>
    OBVIOUS
  <1>3. Function(f) /\ ~ Opens(f) /\ f \notin {F("copy")}
    BY <1>2, HmacNamesAre DEF HmacNames, OneWay
  <1>4. of \in Seq(Registers) /\ Regs(of) = {"K", "V"}
    BY <1>1, <1>2, RegsTwo
  <1>5. PICK a, s : a = Set("V", f, of) /\ s = Set("out", F("copy"), <<"V">>)
    OBVIOUS
  <1>6. PICK d : d = Do(m, a)
    OBVIOUS
  <1>7. Turn(m, d, "V", f, of) /\ a \in Instruction /\ IsMachine(d)
    BY <1>1, <1>3, <1>4, <1>5, <1>6, TurnOf
  <1>8. HmacBlock = <<a, s>> /\ e = Do(d, s)
    BY <1>2, <1>5, <1>6, ExecuteTwo DEF HmacBlock
  <1>9. Fresh(m, f, of)
    BY <1>3, <1>4, FreshBy DEF HmacReady
  <1>10. /\ Leads(m, d) /\ d.out = m.out /\ UsedBy(d.table, d.reg["V"], {})
         /\ From(m, d, "K", "K") /\ From(m, d, "K", "V") /\ d.seeded = m.seeded
    BY <1>1, <1>4, <1>7, <1>9, TurnIs, TurnFresh
  <1>11. /\ s \in Instruction /\ Leads(d, e) /\ HmacReady(e) /\ e.seeded = d.seeded
         /\ From(d, e, "K", "K") /\ OutsFrom(d, e, "V")
         /\ Keeps(d, e, {"K"}, {"V", "df"}, {"K"}, {"V", "df"})
         /\ Burns(d, e, {"K", "V"}, {"df"}, {"K", "V"}, {"df"})
    BY <1>1, <1>5, <1>7, <1>8, <1>10, CopyIs
  <1>12. Leads(m, e) /\ From(m, e, "K", "K") /\ OutsFrom(m, e, "K")
    BY <1>1, <1>10, <1>11, LeadsOn, FromOn, OutsFromOn, BurnsNothing
  <1>13. PICK K, D, KV, VD : K = {"K"} /\ D = {"df"} /\ KV = {"K", "V"} /\ VD = {"V", "df"}
    OBVIOUS
  <1>14. /\ K \subseteq Registers /\ D \subseteq Registers /\ "K" \in K /\ "K" \in Regs(of)
         /\ K \subseteq K \ {"V"} /\ VD \subseteq D \union {"V"}
         /\ KV \subseteq K \union {"V"} /\ D \subseteq D \ {"V"}
         /\ K \subseteq K /\ D \subseteq D /\ D \subseteq VD /\ K \subseteq KV
    BY <1>1, <1>4, <1>13
  <1>15. Keeps(m, d, K, D, K, VD)
    BY <1>3, <1>7, <1>9, <1>14, TurnReveals
  <1>16. Keeps(m, d, K, D, KV, D)
    BY <1>7, <1>9, <1>14, TurnHides
  <1>17. Keeps(d, e, K, VD, K, VD) /\ Burns(d, e, KV, D, KV, D)
    BY <1>11, <1>13
  <1>18. Keeps(m, e, K, D, K, VD) /\ Burns(m, e, K, D, KV, D)
    BY <1>10, <1>11, <1>15, <1>16, <1>17, KeepsOn, BurnsAfter
  <1>19. VD \subseteq VD /\ KV \subseteq KV
    OBVIOUS
  <1>20. Keeps(m, e, K, D, K, D) /\ Burns(m, e, K, D, K, D)
    BY <1>14, <1>18, <1>19, KeepsLess, BurnsLess
  <1>21. HmacBlock \in Seq(Instruction)
    BY <1>7, <1>8, <1>11
  <1>. QED BY <1>10, <1>11, <1>12, <1>13, <1>20, <1>21 DEF HmacRuns

LEMMA HmacRunsOn ==
  ASSUME NEW m, NEW d, NEW e, HmacRuns(m, d), HmacRuns(d, e)
  PROVE  HmacRuns(m, e)
  <1>1. Leads(m, d) /\ Leads(d, e) /\ Leads(m, e) /\ "K" \in Registers
    BY LeadsOn DEF HmacRuns, Registers
  <1>2. From(m, e, "K", "K") /\ OutsFrom(m, e, "K")
    BY <1>1, FromOn, OutsFromOn DEF HmacRuns
  <1>3. PICK K, D : K = {"K"} /\ D = {"df"}
    OBVIOUS
  <1>4. /\ Keeps(m, d, K, D, K, D) /\ Burns(m, d, K, D, K, D)
        /\ Keeps(d, e, K, D, K, D) /\ Burns(d, e, K, D, K, D)
    BY <1>3 DEF HmacRuns
  <1>5. Keeps(m, e, K, D, K, D) /\ Burns(m, e, K, D, K, D)
    BY <1>1, <1>4, KeepsOn, BurnsOn
  <1>. QED BY <1>1, <1>2, <1>3, <1>5 DEF HmacRuns

LEMMA HmacRunsItself ==
  ASSUME NEW m, IsMachine(m), HmacReady(m)
  PROVE  HmacRuns(m, m)
  <1>1. Leads(m, m) /\ From(m, m, "K", "K")
    BY LeadsItself, CountsItself DEF From
  <1>2. \A x : OutsFrom(m, m, x)
    BY <1>1, BurnsNothing
  <1>. QED BY <1>1, <1>2, KeepsItself DEF HmacRuns

LEMMA HmacBlocks ==
  ASSUME NEW m, IsMachine(m), HmacReady(m), NEW n \in Nat,
         NEW e, e = Repeat(m, [i \in 1..n |-> HmacBlock])
  PROVE  HmacRuns(m, e)
  <1>1. PICK p : p = [i \in 1..n |-> HmacBlock]
    OBVIOUS
  <1>2. Len(p) = n /\ \A i \in 1..n : p[i] = HmacBlock
    BY <1>1
  <1>3. PICK f : IsRound(f, m, p, n) /\ Repeat(m, p) = f[n]
    BY <1>2, RepeatTurns
  <1>. DEFINE S == {i \in Nat : i <= n => HmacRuns(m, f[i]) /\ IsMachine(f[i])}
  <1>4. 0 \in S
    BY <1>3, HmacRunsItself DEF IsRound
  <1>5. ASSUME NEW i \in Nat, i \in S PROVE i + 1 \in S
    <2>. SUFFICES ASSUME i + 1 <= n
                  PROVE  HmacRuns(m, f[i + 1]) /\ IsMachine(f[i + 1])
      OBVIOUS
    <2>1. i + 1 \in 1..n /\ (i + 1) - 1 = i /\ i <= n
      OBVIOUS
    <2>2. HmacRuns(m, f[i]) /\ IsMachine(f[i]) /\ HmacReady(f[i])
      BY <1>5, <2>1 DEF HmacRuns
    <2>3. f[i + 1] = Execute(f[i], HmacBlock)
      BY <1>2, <1>3, <2>1 DEF IsRound
    <2>4. HmacRuns(f[i], f[i + 1])
      BY <2>2, <2>3, HmacBlockIs
    <2>5. HmacRuns(m, f[i + 1])
      BY <2>2, <2>4, HmacRunsOn
    <2>. QED BY <2>5, LeadsTyped DEF HmacRuns
  <1>. HIDE DEF S
  <1>6. n \in S
    BY <1>4, <1>5, SetInduction
  <1>. QED BY <1>1, <1>3, <1>6 DEF S

\* One round of the update, and all of it.
HmacUps(m, e, in) ==
  /\ Leads(m, e) /\ e.out = m.out /\ UsedBy(e.table, e.reg["V"], {}) /\ e.seeded = m.seeded
  /\ From(m, e, "K", "K") /\ \A x \in Regs(in) : From(m, e, x, "K")
  /\ \A X : X \subseteq Registers /\ X \intersect ({"K"} \union Regs(in)) # {} =>
       Keeps(m, e, X, {"df"}, {"K", "V"}, {"df"})
  /\ Keeps(m, e, {"K"}, {"df"}, {}, Lasting)

LEMMA RoundSteps ==
  ASSUME NEW m, NEW d, NEW e, NEW in, IsInput(in),
         NEW f, ~ Opens(f), NEW of, Regs(of) = {"K", "V"} \union Regs(in), Turn(m, d, "K", f, of),
         Fresh(m, f, of), NEW g, ~ Opens(g), NEW og, Regs(og) = {"K", "V"}, Turn(d, e, "V", g, og)
  PROVE  HmacUps(m, e, in)
  <1>1. {"V", "K", "df"} \subseteq Registers
    BY DEF Registers
  <1>2. /\ Leads(m, d) /\ d.out = m.out /\ d.seeded = m.seeded /\ UsedBy(d.table, d.reg["K"], {})
        /\ \A x \in Regs(of) : From(m, d, x, "K")
    BY TurnIs, TurnFresh
  <1>3. Fresh(d, g, og)
    BY <1>2, FreshUnused
  <1>4. /\ Leads(d, e) /\ e.out = d.out /\ e.seeded = d.seeded /\ UsedBy(e.table, e.reg["V"], {})
        /\ From(d, e, "K", "K")
    BY <1>1, <1>3, TurnIs, TurnFresh
  <1>5. Leads(m, e) /\ \A x \in Regs(of) : From(m, e, x, "K")
    BY <1>1, <1>2, <1>4, LeadsOn, FromOn
  <1>6. PICK K, D, KV, N, KD : /\ K = {"K"} /\ D = {"df"} /\ KV = {"K", "V"} /\ N = {}
                               /\ KD = {"K", "df"}
    OBVIOUS
  <1>7. /\ K \subseteq Registers /\ D \subseteq Registers /\ KD \subseteq Registers
        /\ N \subseteq Registers
        /\ "K" \in K /\ "K" \in Regs(og) /\ KV \subseteq K \union {"V"} /\ D \subseteq D \ {"V"}
        /\ N \subseteq K \ {"K"} /\ KD \subseteq D \union {"K"} /\ D \subseteq D \ {"K"}
        /\ N \subseteq N \ {"V"} /\ Lasting \subseteq KD \union {"V"}
    BY <1>1, <1>6 DEF Lasting
  <1>8. Keeps(d, e, K, D, KV, D)
    BY <1>3, <1>7, TurnHides
  <1>9. ASSUME NEW X, X \subseteq Registers, X \intersect ({"K"} \union Regs(in)) # {}
        PROVE  Keeps(m, e, X, D, KV, D)
    <2>1. PICK x \in X : x \in Regs(of)
      BY <1>9
    <2>2. K \subseteq X \union {"K"}
      BY <1>6
    <2>3. Keeps(m, d, X, D, K, D)
      BY <1>7, <1>9, <2>1, <2>2, TurnHides
    <2>. QED BY <1>2, <1>4, <1>8, <2>3, KeepsOn
  <1>10. Keeps(m, e, K, D, N, Lasting)
    <2>1. Keeps(m, d, K, D, N, KD)
      BY <1>7, TurnReveals
    <2>2. Keeps(d, e, N, KD, N, Lasting)
      BY <1>3, <1>7, TurnReveals
    <2>. QED BY <1>2, <1>4, <2>1, <2>2, KeepsOn
  <1>. QED BY <1>2, <1>4, <1>5, <1>6, <1>9, <1>10 DEF HmacUps

LEMMA UpsOn ==
  ASSUME NEW m, NEW d, NEW e, NEW in, HmacUps(m, d, in), HmacUps(d, e, in)
  PROVE  HmacUps(m, e, in)
  <1>1. Leads(m, d) /\ Leads(d, e) /\ Leads(m, e) /\ "K" \in Registers
    BY LeadsOn DEF HmacUps, Registers
  <1>2. From(m, e, "K", "K") /\ \A x \in Regs(in) : From(m, e, x, "K")
    BY <1>1, FromOn DEF HmacUps
  <1>3. PICK K, D, KV, N : K = {"K"} /\ D = {"df"} /\ KV = {"K", "V"} /\ N = {}
    OBVIOUS
  <1>4. /\ K \subseteq Registers /\ K \intersect ({"K"} \union Regs(in)) # {}
        /\ KV \subseteq Registers /\ KV \intersect ({"K"} \union Regs(in)) # {}
    BY <1>3 DEF Registers
  <1>5. /\ \A X : X \subseteq Registers /\ X \intersect ({"K"} \union Regs(in)) # {} =>
             Keeps(m, d, X, D, KV, D) /\ Keeps(d, e, X, D, KV, D)
        /\ Keeps(d, e, K, D, N, Lasting)
    BY <1>3 DEF HmacUps
  <1>6. \A X : X \subseteq Registers /\ X \intersect ({"K"} \union Regs(in)) # {} =>
          Keeps(m, e, X, D, KV, D)
    BY <1>1, <1>4, <1>5, KeepsOn
  <1>7. Keeps(m, d, K, D, K, D)
    <2>1. K \subseteq K /\ D \subseteq D /\ K \subseteq KV
      BY <1>3
    <2>2. Keeps(m, d, K, D, KV, D)
      BY <1>4, <1>5
    <2>. QED BY <2>1, <2>2, KeepsLess
  <1>8. Keeps(m, e, K, D, N, Lasting)
    BY <1>1, <1>5, <1>7, KeepsOn
  <1>. QED BY <1>1, <1>2, <1>3, <1>6, <1>8 DEF HmacUps

LEMMA RoundIs ==
  ASSUME NEW m, IsMachine(m), NEW in, IsInput(in), NEW i \in Nat,
         Fresh(m, <<"hmac", i>>, <<"K", "V">> \o in), NEW e, e = Execute(m, HmacRound(i, in))
  PROVE  HmacUps(m, e, in) /\ HmacRound(i, in) \in Seq(Instruction)
  <1>1. /\ "V" \in Registers /\ "K" \in Registers /\ "V" # "out" /\ "K" # "out"
    BY DEF Registers
  <1>2. PICK f, g, kv : f = <<"hmac", i>> /\ g = F("hmac-V") /\ kv = <<"K", "V">>
    OBVIOUS
  <1>3. PICK of : of = kv \o in
    OBVIOUS
  <1>4. kv \in Seq(Registers) /\ Regs(kv) = {"K", "V"}
    BY <1>1, <1>2, RegsTwo
  <1>5. of \in Seq(Registers) /\ Regs(of) = {"K", "V"} \union Regs(in)
    BY <1>3, <1>4, RegsCat DEF IsInput
  <1>6. Function(f) /\ ~ Opens(f) /\ Function(g) /\ ~ Opens(g)
    BY <1>2, HmacNamesAre DEF HmacNames, OneWay
  <1>7. PICK a, b : a = Set("K", f, of) /\ b = Set("V", g, kv)
    OBVIOUS
  <1>8. HmacRound(i, in) = <<a, b>>
    BY <1>2, <1>3, <1>7 DEF HmacRound
  <1>9. PICK d : d = Do(m, a)
    OBVIOUS
  <1>10. e = Do(d, b)
    BY <1>8, <1>9, ExecuteTwo
  <1>11. Turn(m, d, "K", f, of) /\ a \in Instruction /\ IsMachine(d)
    BY <1>1, <1>5, <1>6, <1>7, <1>9, TurnOf
  <1>12. Turn(d, e, "V", g, kv) /\ b \in Instruction
    BY <1>1, <1>4, <1>6, <1>7, <1>10, <1>11, TurnOf
  <1>13. Fresh(m, f, of)
    BY <1>2, <1>3
  <1>14. HmacUps(m, e, in)
    BY <1>4, <1>5, <1>6, <1>11, <1>12, <1>13, RoundSteps
  <1>. QED BY <1>8, <1>11, <1>12, <1>14

HmacRounds(in) == HmacRound(0, in) \o (IF in = <<>> THEN <<>> ELSE HmacRound(1, in))

LEMMA FreshRound ==
  ASSUME NEW m, NEW in, IsInput(in), NEW i \in Nat,
         UsedBy(m.table, m.reg["V"], {F("copy")})
         \/ ("in" \in Regs(in) /\ UsedBy(m.table, m.reg["in"], {}))
  PROVE  Fresh(m, <<"hmac", i>>, <<"K", "V">> \o in)
  <1>1. "V" \in Registers /\ "K" \in Registers
    BY DEF Registers
  <1>2. PICK f, kv, of : f = <<"hmac", i>> /\ kv = <<"K", "V">> /\ of = kv \o in
    OBVIOUS
  <1>3. kv \in Seq(Registers) /\ Regs(kv) = {"K", "V"}
    BY <1>1, <1>2, RegsTwo
  <1>4. Regs(of) = {"K", "V"} \union Regs(in)
    BY <1>2, <1>3, RegsCat DEF IsInput
  <1>5. f \notin {F("copy")}
    <2>1. f[1] = "hmac" /\ F("copy")[1] = "copy"
      BY <1>2, HmacNamesAre DEF HmacNames
    <2>. QED BY <2>1
  <1>6. Fresh(m, f, of)
    BY <1>4, <1>5 DEF Fresh
  <1>. QED BY <1>2, <1>6

LEMMA RoundsAre ==
  ASSUME NEW m, IsMachine(m), NEW in, IsInput(in),
         HmacReady(m) \/ ("in" \in Regs(in) /\ UsedBy(m.table, m.reg["in"], {})),
         NEW e, e = Execute(m, HmacRounds(in))
  PROVE  HmacUps(m, e, in) /\ HmacRounds(in) \in Seq(Instruction)
  <1>1. PICK p, q : p = HmacRound(0, in) /\ q = IF in = <<>> THEN <<>> ELSE HmacRound(1, in)
    OBVIOUS
  <1>2. PICK d : d = Execute(m, p)
    OBVIOUS
  <1>3. Fresh(m, <<"hmac", 0>>, <<"K", "V">> \o in)
    BY FreshRound DEF HmacReady
  <1>4. HmacUps(m, d, in) /\ p \in Seq(Instruction)
    BY <1>1, <1>2, <1>3, RoundIs
  <1>5. IsMachine(d) /\ UsedBy(d.table, d.reg["V"], {F("copy")})
    BY <1>4, LeadsTyped, UsedMore DEF HmacUps
  <1>6. CASE in = <<>>
    <2>1. HmacRounds(in) = p
      BY <1>1, <1>4, <1>6 DEF HmacRounds
    <2>. QED BY <1>2, <1>4, <2>1
  <1>7. CASE in # <<>>
    <2>1. Fresh(d, <<"hmac", 1>>, <<"K", "V">> \o in)
      BY <1>5, FreshRound
    <2>2. q = HmacRound(1, in) /\ HmacRounds(in) = p \o q
      BY <1>1, <1>7 DEF HmacRounds
    <2>3. PICK g : g = Execute(d, q)
      OBVIOUS
    <2>4. HmacUps(d, g, in) /\ q \in Seq(Instruction)
      BY <1>5, <2>1, <2>2, <2>3, RoundIs
    <2>5. e = g
      BY <1>2, <1>4, <2>2, <2>3, <2>4, ExecuteCat
    <2>. QED BY <1>4, <2>2, <2>4, <2>5, UpsOn
  <1>. QED BY <1>6, <1>7

\* What may precede the blocks.
HmacPre(m, d, in) ==
  /\ Leads(m, d) /\ d.out = m.out /\ UsedBy(d.table, d.reg["V"], {}) /\ d.seeded = m.seeded
  /\ From(m, d, "K", "K") /\ \A x \in Regs(in) : From(m, d, x, "K")
  /\ Keeps(m, d, {"K", "V"}, {"df"}, {"K", "V"}, {"df"}) /\ Keeps(m, d, {"K"}, {"df"}, {"K"}, {"df"})

LEMMA HmacPreIs ==
  ASSUME NEW m, NEW in, NEW d,
         HmacUps(m, d, in)
         \/ (d = m /\ IsMachine(m) /\ UsedBy(m.table, m.reg["V"], {}) /\ Regs(in) = {})
  PROVE  HmacPre(m, d, in)
  <1>1. CASE HmacUps(m, d, in)
    <2>1. PICK K, D, KV : K = {"K"} /\ D = {"df"} /\ KV = {"K", "V"}
      OBVIOUS
    <2>2. /\ K \subseteq Registers /\ K \intersect ({"K"} \union Regs(in)) # {}
          /\ KV \subseteq Registers /\ KV \intersect ({"K"} \union Regs(in)) # {}
          /\ K \subseteq K /\ D \subseteq D /\ K \subseteq KV
      BY <2>1 DEF Registers
    <2>3. Keeps(m, d, K, D, KV, D) /\ Keeps(m, d, KV, D, KV, D)
      BY <1>1, <2>1, <2>2 DEF HmacUps
    <2>4. Keeps(m, d, K, D, K, D)
      BY <2>2, <2>3, KeepsLess
    <2>. QED BY <1>1, <2>1, <2>3, <2>4 DEF HmacUps, HmacPre
  <1>2. CASE d = m /\ IsMachine(m) /\ UsedBy(m.table, m.reg["V"], {}) /\ Regs(in) = {}
    <2>1. Leads(m, m) /\ From(m, m, "K", "K") /\ \A X, R : Keeps(m, m, X, R, X, R)
      BY <1>2, LeadsItself, CountsItself, KeepsItself DEF From
    <2>. QED BY <1>2, <2>1 DEF HmacPre
  <1>. QED BY <1>1, <1>2

LEMMA HmacSets ==
  /\ Key("hmac") = "K" /\ \A b : Secret("hmac", b) = {"K", "V"}
  /\ \A b : Public("hmac", b) = {"df"}
  BY DEF Key, Secret, Public, Lasting

LEMMA HmacEmpty ==
  ASSUME NEW m, NEW d, NEW in, HmacPre(m, d, in)
  PROVE  Generation("hmac", m, d, in)
  <1>1. /\ Leads(m, d) /\ d.seeded = m.seeded /\ From(m, d, "K", "K")
        /\ AtRest("hmac", d) /\ \A x : OutsFrom(m, d, x)
    BY BurnsNothing DEF HmacPre, AtRest
  <1>2. PICK KV, D, R : KV = {"K", "V"} /\ D = {"df"} /\ R = D \union Inputs
    OBVIOUS
  <1>3. KV \subseteq KV /\ D \subseteq R /\ D \subseteq D
    BY <1>2
  <1>4. Keeps(m, d, KV, D, KV, D)
    BY <1>2 DEF HmacPre
  <1>5. Keeps(m, d, KV, R, KV, D) /\ Burns(m, d, KV, R, {}, Lasting)
    BY <1>3, <1>4, KeepsLess, BurnsNothing DEF HmacPre
  <1>6. \A m1, m2 : Idle("hmac", m1, m2)
    BY IdleElse
  <1>. QED BY <1>1, <1>2, <1>5, <1>6, HmacSets DEF Generation

LEMMA HmacCall ==
  ASSUME NEW m, NEW d, NEW g, NEW e, NEW in, HmacPre(m, d, in), HmacRuns(d, g),
         HmacUps(g, e, in)
  PROVE  Generation("hmac", m, e, in)
  <1>1. /\ Leads(m, d) /\ d.out = m.out /\ Leads(d, g) /\ Leads(m, g) /\ Leads(g, e)
        /\ Leads(m, e) /\ e.out = g.out /\ "K" \in Registers /\ e.seeded = m.seeded
    BY LeadsOn DEF HmacPre, HmacRuns, HmacUps, Registers
  <1>2. /\ From(m, g, "K", "K") /\ OutsFrom(m, g, "K")
        /\ \A x \in Regs(in) : OutsFrom(m, g, x) /\ From(m, g, x, "K")
    BY <1>1, FromOn, OutsFromOn, BurnsNothing DEF HmacPre, HmacRuns
  <1>3. /\ From(m, e, "K", "K") /\ OutsFrom(m, e, "K")
        /\ \A x \in Regs(in) : OutsFrom(m, e, x)
    BY <1>1, <1>2, FromOn, OutsFromOn, BurnsNothing DEF HmacUps
  <1>4. PICK K, D, KV, N, R : /\ K = {"K"} /\ D = {"df"} /\ KV = {"K", "V"} /\ N = {}
                              /\ R = D \union Inputs
    OBVIOUS
  <1>5. /\ K \subseteq Registers /\ K \intersect ({"K"} \union Regs(in)) # {}
        /\ K \subseteq KV /\ D \subseteq R /\ KV \subseteq KV /\ D \subseteq D /\ N \subseteq N
        /\ Lasting \subseteq Lasting
    BY <1>4 DEF Registers
  <1>6. Keeps(g, e, K, D, KV, D) /\ Keeps(g, e, K, D, N, Lasting)
    BY <1>4, <1>5 DEF HmacUps
  <1>7. /\ Keeps(m, d, K, D, K, D) /\ Keeps(d, g, K, D, K, D) /\ Burns(d, g, K, D, K, D)
    BY <1>4 DEF HmacPre, HmacRuns
  <1>8. Keeps(m, g, K, D, K, D) /\ Burns(m, g, K, D, K, D)
    BY <1>1, <1>7, KeepsOn, BurnsAfter
  <1>9. Keeps(m, e, K, D, KV, D)
    BY <1>1, <1>6, <1>8, KeepsOn
  <1>10. Burns(m, e, K, D, N, Lasting)
    <2>1. Burns(g, e, K, D, N, Lasting)
      BY <1>1, BurnsNothing
    <2>. QED BY <1>1, <1>6, <1>8, <2>1, BurnsOn
  <1>11. Keeps(m, e, KV, R, KV, D) /\ Burns(m, e, KV, R, N, Lasting)
    BY <1>5, <1>9, <1>10, KeepsLess, BurnsLess
  <1>12. AtRest("hmac", e)
    BY DEF AtRest, HmacUps
  <1>13. \A m1, m2 : Idle("hmac", m1, m2)
    BY IdleElse
  <1>. QED BY <1>1, <1>3, <1>4, <1>11, <1>12, <1>13, HmacSets DEF Generation

LEMMA RoundsPrograms ==
  ASSUME NEW in, IsInput(in)
  PROVE  /\ HmacRound(0, in) \in Seq(Instruction) /\ HmacRound(1, in) \in Seq(Instruction)
         /\ HmacRounds(in) \in Seq(Instruction)
  <1>1. "V" \in Registers /\ "K" \in Registers
    BY DEF Registers
  <1>2. ASSUME NEW i \in Nat PROVE HmacRound(i, in) \in Seq(Instruction)
    <2>1. PICK f, g, kv : f = <<"hmac", i>> /\ g = F("hmac-V") /\ kv = <<"K", "V">>
      OBVIOUS
    <2>2. PICK of : of = kv \o in
      OBVIOUS
    <2>3. kv \in Seq(Registers) /\ of \in Seq(Registers)
      BY <1>1, <2>1, <2>2, RegsTwo, RegsCat DEF IsInput
    <2>4. Function(f) /\ Function(g)
      BY <2>1, HmacNamesAre DEF HmacNames, OneWay
    <2>5. PICK a, b : a = Set("K", f, of) /\ b = Set("V", g, kv)
      OBVIOUS
    <2>6. a \in Instruction /\ b \in Instruction
      BY <1>1, <2>3, <2>4, <2>5, InstructionIs DEF Function
    <2>7. HmacRound(i, in) = <<a, b>>
      BY <2>1, <2>2, <2>5 DEF HmacRound
    <2>. QED BY <2>6, <2>7
  <1>3. HmacRound(0, in) \in Seq(Instruction) /\ HmacRound(1, in) \in Seq(Instruction)
    BY <1>2
  <1>4. PICK p, q : p = HmacRound(0, in) /\ q = HmacRound(1, in)
    OBVIOUS
  <1>5. HmacRounds(in) \in Seq(Instruction)
    <2>1. CASE in = <<>>
      BY <1>3, <1>4, <2>1 DEF HmacRounds
    <2>2. CASE in # <<>>
      <3>1. HmacRounds(in) = p \o q
        BY <1>4, <2>2 DEF HmacRounds
      <3>. QED BY <1>3, <1>4, <3>1
    <2>. QED BY <2>1, <2>2
  <1>. QED BY <1>3, <1>5

LEMMA UpdatesAre ==
  ASSUME NEW m, NEW in, IsInput(in)
  PROVE  /\ m.seeded => HmacUpdates(m, in) = HmacRounds(in)
         /\ ~ m.seeded => HmacUpdates(m, in) = <<Set("V", F("ones"), <<>>)>> \o HmacRounds(in)
  <1>1. PICK p, q, o : /\ p = HmacRound(0, in) /\ o = <<Set("V", F("ones"), <<>>)>>
                       /\ q = IF in = <<>> THEN <<>> ELSE HmacRound(1, in)
    OBVIOUS
  <1>2. PICK s : s = Set("V", F("ones"), <<>>)
    OBVIOUS
  <1>3. "V" \in Registers
    BY DEF Registers
  <1>4. s \in Instruction
    <2>1. F("ones") \in Names /\ F("ones")[1] \notin {"seed", "public"}
      BY HmacNamesAre DEF HmacNames, Function
    <2>2. <<>> \in Seq(Registers)
      OBVIOUS
    <2>. QED BY <1>2, <1>3, <2>1, <2>2, InstructionIs
  <1>5. p \in Seq(Instruction) /\ q \in Seq(Instruction) /\ o \in Seq(Instruction)
    BY <1>1, <1>2, <1>4, RoundsPrograms
  <1>6. HmacRounds(in) = p \o q
    BY <1>1 DEF HmacRounds
  <1>7. <<>> \o p \o q = p \o q /\ o \o p \o q = o \o (p \o q)
    BY <1>5
  <1>8. HmacUpdates(m, in) = (IF m.seeded THEN <<>> ELSE o) \o p \o q
    BY <1>1 DEF HmacUpdates
  <1>. QED BY <1>1, <1>6, <1>7, <1>8

LEMMA HmacGenerateIs ==
  ASSUME NEW m, IsMachine(m), m.seeded, AtRest("hmac", m), NEW n \in Nat, NEW in, IsInput(in)
  PROVE  Generation("hmac", m, HmacGenerate(m, n, in), in)
  <1>1. UsedBy(m.table, m.reg["V"], {}) /\ HmacReady(m)
    BY UsedMore DEF AtRest, HmacReady
  <1>2. PICK p : p = HmacRounds(in)
    OBVIOUS
  <1>3. HmacUpdates(m, in) = p
    BY <1>2, UpdatesAre
  <1>4. PICK d : d = IF in = <<>> THEN m ELSE Execute(m, p)
    OBVIOUS
  <1>5. HmacPre(m, d, in)
    <2>1. CASE in = <<>>
      <3>1. Regs(in) = {} /\ d = m
        BY <1>4, <2>1 DEF Regs
      <3>. QED BY <1>1, <3>1, HmacPreIs
    <2>2. CASE in # <<>>
      <3>1. HmacUps(m, d, in)
        BY <1>1, <1>2, <1>4, <2>2, RoundsAre
      <3>. QED BY <3>1, HmacPreIs
    <2>. QED BY <2>1, <2>2
  <1>6. IsMachine(d) /\ HmacReady(d)
    BY <1>5, LeadsTyped, UsedMore DEF HmacPre, HmacReady
  <1>7. PICK g : g = Repeat(d, [i \in 1..n |-> HmacBlock])
    OBVIOUS
  <1>8. HmacRuns(d, g)
    BY <1>6, <1>7, HmacBlocks
  <1>9. IsMachine(g) /\ HmacReady(g)
    BY <1>8, LeadsTyped DEF HmacRuns
  <1>10. PICK e : e = Execute(g, p)
    OBVIOUS
  <1>11. HmacUps(g, e, in)
    BY <1>2, <1>9, <1>10, RoundsAre
  <1>12. HmacGenerate(m, n, in) = IF n = 0 THEN d ELSE e
    <2>1. HmacGenerate(m, n, in) =
            IF n = 0 THEN (IF in = <<>> THEN m ELSE Execute(m, HmacUpdates(m, in)))
            ELSE Execute(Repeat(IF in = <<>> THEN m ELSE Execute(m, HmacUpdates(m, in)),
                                [i \in 1..n |-> HmacBlock]), HmacUpdates(m, in))
      BY Zenon DEF HmacGenerate, HmacBlock
    <2>. QED BY ONLY <1>3, <1>4, <1>7, <1>10, <2>1, Zenon
  <1>. QED BY <1>5, <1>8, <1>11, <1>12, HmacEmpty, HmacCall

LEMMA HmacSeedIs ==
  ASSUME NEW m, IsMachine(m), NEW in, IsInput(in), "in" \in Regs(in),
         UsedBy(m.table, m.reg["in"], {})
  PROVE  Seeding("hmac", m, HmacSeed(m, in), in)
  <1>1. PICK p, s : p = HmacRounds(in) /\ s = Set("V", F("ones"), <<>>)
    OBVIOUS
  <1>2. PICK f, of : f = F("ones") /\ of = <<>>
    OBVIOUS
  <1>3. PICK d : d = IF m.seeded THEN m ELSE Do(m, s)
    OBVIOUS
  <1>4. PICK I, R, D : I = {"in"} /\ R = Registers \ {"in"} /\ D = {"df"}
    OBVIOUS
  <1>5. /\ {"in", "V", "K", "df"} \subseteq Registers /\ "V" # "out" /\ "V" \in Registers
        /\ I \subseteq Registers /\ R \subseteq Registers /\ D \subseteq R /\ I \subseteq I
        /\ I \subseteq I \ {"V"} /\ D \subseteq R \union {"V"} /\ D \subseteq D
        /\ I \intersect ({"K"} \union Regs(in)) # {}
    BY <1>4 DEF Registers
  <1>6. /\ Leads(m, d) /\ d.out = m.out /\ UsedBy(d.table, d.reg["in"], {})
        /\ (\A x \in Regs(in) : From(m, d, x, x)) /\ From(m, d, "K", "K")
        /\ Keeps(m, d, I, R, I, D)
        /\ Execute(d, p) = Execute(m, HmacUpdates(m, in))
    <2>1. CASE m.seeded
      <3>1. d = m /\ HmacUpdates(m, in) = p
        BY <1>1, <1>3, <2>1, UpdatesAre
      <3>2. Leads(m, m) /\ \A x : From(m, m, x, x)
        BY LeadsItself, CountsItself DEF From
      <3>3. Keeps(m, m, I, R, I, D)
        BY <1>5, KeepsItself, KeepsLess
      <3>. QED BY <3>1, <3>2, <3>3
    <2>2. CASE ~ m.seeded
      <3>1. of \in Seq(Registers) /\ Regs(of) = {}
        BY <1>2 DEF Regs
      <3>2. Function(f)
        BY <1>2, HmacNamesAre DEF HmacNames
      <3>3. s = Set("V", f, of) /\ d = Do(m, s)
        BY <1>1, <1>2, <1>3, <2>2
      <3>4. Turn(m, d, "V", f, of) /\ s \in Instruction
        BY <1>5, <3>1, <3>2, <3>3, TurnOf
      <3>5. /\ Leads(m, d) /\ d.out = m.out
            /\ \A r \in Registers : r # "V" => d.reg[r] = m.reg[r] /\ From(m, d, r, r)
        BY <3>4, TurnIs
      <3>6. UsedBy(d.table, d.reg["in"], {})
        <4>1. \A x \in Regs(of) : m.reg[x] # m.reg["in"]
          BY <3>1
        <4>2. UsedBy(d.table, m.reg["in"], {})
          BY <3>4, <4>1, UsedSame
        <4>3. d.reg["in"] = m.reg["in"]
          BY <1>5, <3>5
        <4>. QED BY <4>2, <4>3
      <3>7. Keeps(m, d, I, R, I, D)
        BY <1>5, <3>1, <3>4, TurnPasses
      <3>8. Execute(d, p) = Execute(m, HmacUpdates(m, in))
        <4>1. PICK o : o = <<s>>
          OBVIOUS
        <4>2. HmacUpdates(m, in) = o \o p
          BY <1>1, <2>2, <4>1, UpdatesAre
        <4>3. o \in Seq(Instruction) /\ p \in Seq(Instruction)
          BY <1>1, <3>4, <4>1, RoundsPrograms
        <4>4. Execute(m, o \o p) = Execute(Execute(m, o), p)
          BY <4>3, ExecuteCat
        <4>5. Execute(m, o) = d
          BY <3>3, <4>1, ExecuteOne
        <4>. QED BY <4>2, <4>4, <4>5
      <3>9. \A x \in Regs(in) : x \in Registers /\ x # "V"
        BY DEF IsInput, Registers
      <3>. QED BY <1>5, <3>5, <3>6, <3>7, <3>8, <3>9
    <2>. QED BY <2>1, <2>2
  <1>7. PICK e : e = Execute(d, p)
    OBVIOUS
  <1>8. IsMachine(d)
    BY <1>6, LeadsTyped
  <1>9. HmacUps(d, e, in)
    BY <1>1, <1>6, <1>7, <1>8, RoundsAre
  <1>10. PICK KV : KV = {"K", "V"}
    OBVIOUS
  <1>11. Keeps(d, e, I, D, KV, D)
    BY <1>4, <1>5, <1>9, <1>10 DEF HmacUps
  <1>12. /\ Leads(d, e) /\ Leads(m, e) /\ e.out = m.out /\ IsMachine(e)
         /\ From(m, e, "K", "K") /\ (\A x \in Regs(in) : From(m, e, x, "K"))
         /\ Keeps(m, e, I, R, KV, D) /\ UsedBy(e.table, e.reg["V"], {})
    <2>1. Leads(d, e) /\ Leads(m, e) /\ e.out = m.out
      BY <1>6, <1>9, LeadsOn DEF HmacUps
    <2>2. From(m, e, "K", "K")
      BY <1>5, <1>6, <1>9, <2>1, FromOn DEF HmacUps
    <2>3. ASSUME NEW x \in Regs(in) PROVE From(m, e, x, "K")
      <3>1. x \in Registers
        BY DEF IsInput, Registers
      <3>2. From(m, d, x, x) /\ From(d, e, x, "K")
        BY <1>6, <1>9 DEF HmacUps
      <3>. QED BY <1>6, <2>1, <3>1, <3>2, FromOn
    <2>. QED BY <1>6, <1>9, <1>11, <2>1, <2>2, <2>3, KeepsOn, LeadsTyped DEF HmacUps
  <1>13. PICK x : x = [e EXCEPT !.seeded = TRUE]
    OBVIOUS
  <1>14. HmacSeed(m, in) = x
    BY <1>6, <1>7, <1>13 DEF HmacSeed
  <1>15. Same(e, x) /\ x.seeded
    BY <1>12, <1>13, SameSeeded
  <1>16. /\ Leads(m, x) /\ From(m, x, "K", "K") /\ (\A y \in Regs(in) : From(m, x, y, "K"))
         /\ Keeps(m, x, I, R, KV, D) /\ x.out = m.out /\ UsedBy(x.table, x.reg["V"], {})
    BY <1>12, <1>15, SameIs DEF Same
  <1>17. \A m1, m2 : Idle("hmac", m1, m2)
    BY IdleElse
  <1>. QED BY <1>4, <1>10, <1>14, <1>15, <1>16, <1>17, HmacSets DEF Seeding, AtRest

-----------------------------------------------------------------------------
(* CTR_DRBG.                                                               *)

CtrNames ==
  /\ \A i \in Nat : OneWay(<<"aes", i>>) /\ <<"aes", i>>[1] = "aes" /\ <<"aes", i>>[2] = i
  /\ Function(F("df")) /\ Function(F("zero"))
  /\ Function(F("xor")) /\ Function(F("cat"))

LEMMA CtrNamesAre == CtrNames
  <1>0. {"aes", "df", "zero", "xor", "cat"} \subseteq Words
    BY DEF Words
  <1>1. ASSUME NEW i \in Nat
        PROVE  OneWay(<<"aes", i>>) /\ <<"aes", i>>[1] = "aes" /\ <<"aes", i>>[2] = i
    BY <1>0, FunctionIs
  <1>2. Function(F("df"))
    BY <1>0, FunctionIs DEF F
  <1>3. Function(F("zero"))
    BY <1>0, FunctionIs DEF F
  <1>4. Function(F("xor"))
    BY <1>0, FunctionIs DEF F
  <1>5. Function(F("cat"))
    BY <1>0, FunctionIs DEF F
  <1>. QED BY <1>1, <1>2, <1>3, <1>4, <1>5 DEF CtrNames

LEMMA TurnHolds ==
  ASSUME NEW m, NEW d, NEW to, NEW f, NEW of, Turn(m, d, to, f, of)
  PROVE  d.reg[to] \in 1..Len(d.table) /\ d.table[d.reg[to]].f = f
  <1>1. PICK id \in Nat : Stored(m, d, to, Value(m, f, of), id)
    BY TurnStored
  <1>. QED BY <1>1, TurnStored DEF Stored

\* The three blocks of a new key and V.
CtrDraws(m, d) ==
  /\ Leads(m, d) /\ d.out = m.out /\ d.seeded = m.seeded /\ d.ctr = m.ctr /\ d.nonce = m.nonce
  /\ d.reg["K"] = m.reg["K"] /\ d.reg["V"] = m.reg["V"] /\ d.reg["df"] = m.reg["df"]
  /\ d.reg["A"] # d.reg["B"] /\ d.reg["A"] # d.reg["T"] /\ d.reg["B"] # d.reg["T"]
  /\ From(m, d, "K", "A") /\ From(m, d, "df", "df")
  /\ Keeps(m, d, {"df"}, Registers \ {"in", "df"}, {"df"}, {})

LEMMA DrawSteps ==
  ASSUME NEW m, NEW a, NEW b, NEW d, NEW fa, NEW fb, NEW ft, fa # fb, fa # ft, fb # ft,
         NEW of, Regs(of) = {"K", "V"}, Turn(m, a, "A", fa, of), Turn(a, b, "B", fb, of),
         Turn(b, d, "T", ft, of)
  PROVE  CtrDraws(m, d)
  <1>1. {"K", "V", "df", "A", "B", "T"} \subseteq Registers
    BY DEF Registers
  <1>2. /\ Leads(m, a) /\ a.out = m.out /\ a.seeded = m.seeded /\ a.ctr = m.ctr
        /\ a.nonce = m.nonce /\ From(m, a, "K", "A")
        /\ \A r \in Registers : r # "A" => a.reg[r] = m.reg[r] /\ From(m, a, r, r)
    BY TurnIs
  <1>3. /\ Leads(a, b) /\ b.out = a.out /\ b.seeded = a.seeded /\ b.ctr = a.ctr
        /\ b.nonce = a.nonce
        /\ \A r \in Registers : r # "B" => b.reg[r] = a.reg[r] /\ From(a, b, r, r)
    BY TurnIs
  <1>4. /\ Leads(b, d) /\ d.out = b.out /\ d.seeded = b.seeded /\ d.ctr = b.ctr
        /\ d.nonce = b.nonce
        /\ \A r \in Registers : r # "T" => d.reg[r] = b.reg[r] /\ From(b, d, r, r)
    BY TurnIs
  <1>5. Leads(m, b) /\ Leads(m, d)
    BY <1>2, <1>3, <1>4, LeadsOn
  <1>6. From(m, d, "K", "A") /\ From(m, d, "df", "df")
    <2>1. From(m, b, "K", "A") /\ From(m, b, "df", "df")
      BY <1>1, <1>2, <1>3, FromOn
    <2>2. From(b, d, "A", "A") /\ From(b, d, "df", "df")
      BY <1>1, <1>4
    <2>. QED BY <1>1, <1>4, <1>5, <2>1, <2>2, FromOn
  <1>7. d.reg["A"] # d.reg["B"] /\ d.reg["A"] # d.reg["T"] /\ d.reg["B"] # d.reg["T"]
    <2>1. a.reg["A"] \in 1..Len(a.table) /\ a.table[a.reg["A"]].f = fa
      BY TurnHolds
    <2>2. b.reg["B"] \in 1..Len(b.table) /\ b.table[b.reg["B"]].f = fb
      BY TurnHolds
    <2>3. d.table[d.reg["T"]].f = ft
      BY TurnHolds
    <2>4. /\ \A i \in 1..Len(a.table) : b.table[i] = a.table[i] /\ i \in 1..Len(b.table)
          /\ \A i \in 1..Len(b.table) : d.table[i] = b.table[i]
      <3>1. Extends(a.table, b.table) /\ Extends(b.table, d.table)
        BY <1>3, <1>4, LeadsTyped
      <3>2. \A i \in 1..Len(a.table) : i \in 1..Len(b.table)
        BY <1>3, LeadsTyped
      <3>. QED BY <3>1, <3>2 DEF Extends
    <2>5. /\ d.reg["B"] = b.reg["B"] /\ d.reg["A"] = b.reg["A"] /\ b.reg["A"] = a.reg["A"]
      BY <1>1, <1>3, <1>4
    <2>6. d.table[d.reg["A"]].f = fa /\ d.table[d.reg["B"]].f = fb
      BY <2>1, <2>2, <2>4, <2>5
    <2>. QED BY <2>3, <2>6
  <1>8. PICK D, R, RA, RB, N : /\ D = {"df"} /\ R = Registers \ {"in", "df"}
                               /\ RA = R \union {"A"} /\ RB = RA \union {"B"} /\ N = {}
    OBVIOUS
  <1>9. /\ D \subseteq Registers /\ R \subseteq Registers /\ RA \subseteq Registers
        /\ RB \subseteq Registers /\ Regs(of) \subseteq R /\ Regs(of) \subseteq RA
        /\ Regs(of) \subseteq RB /\ D \subseteq D \ {"A"} /\ D \subseteq D \ {"B"}
        /\ D \subseteq D \ {"T"} /\ RA \subseteq R \union {"A"} /\ RB \subseteq RA \union {"B"}
        /\ N \subseteq RB \union {"T"}
    BY <1>1, <1>8
  <1>10. Keeps(m, a, D, R, D, RA)
    BY <1>9, TurnPasses
  <1>11. Keeps(a, b, D, RA, D, RB)
    BY <1>9, TurnPasses
  <1>12. Keeps(b, d, D, RB, D, N)
    BY <1>9, TurnPasses
  <1>13. Keeps(m, d, D, R, D, N)
    BY <1>2, <1>3, <1>4, <1>5, <1>10, <1>11, <1>12, KeepsOn
  <1>. QED BY <1>1, <1>2, <1>3, <1>4, <1>5, <1>6, <1>7, <1>8, <1>13 DEF CtrDraws

\* Blocks of a key that has not been used for them.
CtrDrawsNew(m, d) ==
  /\ UsedBy(d.table, d.reg["A"], {}) /\ UsedBy(d.table, d.reg["B"], {})
  /\ UsedBy(d.table, d.reg["T"], {})
  /\ d.reg["A"] # d.reg["df"] /\ d.reg["B"] # d.reg["df"] /\ d.reg["T"] # d.reg["df"]
  /\ Keeps(m, d, {"K", "V"}, {"df"}, {"A", "B", "T"}, {"df"})
  /\ Keeps(m, d, {"K", "V"}, {"df"}, {}, {"A", "B", "T", "df"})

LEMMA DrawNew ==
  ASSUME NEW m, NEW a, NEW b, NEW d, NEW fa, NEW fb, NEW ft, fa # fb, fa # ft, fb # ft,
         NEW of, Regs(of) = {"K", "V"}, Turn(m, a, "A", fa, of), Turn(a, b, "B", fb, of),
         Turn(b, d, "T", ft, of), ~ Opens(fa), ~ Opens(fb), ~ Opens(ft),
         NEW W, UsedBy(m.table, m.reg["K"], W), fa \notin W, fb \notin W, ft \notin W
  PROVE  CtrDrawsNew(m, d)
  <1>1. {"K", "V", "df", "A", "B", "T"} \subseteq Registers
    BY DEF Registers
  <1>2. Fresh(m, fa, of)
    BY FreshBy
  <1>3. /\ Leads(m, a) /\ a.reg["K"] = m.reg["K"] /\ a.reg["V"] = m.reg["V"]
        /\ a.reg["df"] = m.reg["df"] /\ UsedBy(a.table, a.reg["A"], {})
        /\ \A r \in Registers : m.reg[r] # a.reg["A"]
    BY <1>1, <1>2, TurnIs, TurnFresh
  <1>4. PICK WA : WA = W \union {fa}
    OBVIOUS
  <1>5. UsedBy(a.table, a.reg["K"], WA) /\ fb \notin WA /\ ft \notin WA
    <2>1. W \subseteq WA /\ fa \in WA
      BY <1>4
    <2>2. UsedBy(a.table, m.reg["K"], WA)
      BY <2>1, TurnUsed
    <2>. QED BY <1>3, <1>4, <2>2
  <1>6. Fresh(a, fb, of)
    BY <1>5, FreshBy
  <1>7. /\ Leads(a, b) /\ b.reg["K"] = a.reg["K"] /\ b.reg["V"] = a.reg["V"]
        /\ b.reg["df"] = a.reg["df"] /\ b.reg["A"] = a.reg["A"]
        /\ UsedBy(b.table, b.reg["B"], {}) /\ \A r \in Registers : a.reg[r] # b.reg["B"]
    BY <1>1, <1>6, TurnIs, TurnFresh
  <1>8. PICK WB : WB = WA \union {fb}
    OBVIOUS
  <1>9. UsedBy(b.table, b.reg["K"], WB) /\ ft \notin WB
    <2>1. WA \subseteq WB /\ fb \in WB
      BY <1>8
    <2>2. UsedBy(b.table, a.reg["K"], WB)
      BY <1>5, <2>1, TurnUsed
    <2>. QED BY <1>5, <1>7, <1>8, <2>2
  <1>10. Fresh(b, ft, of)
    BY <1>9, FreshBy
  <1>11. /\ Leads(b, d) /\ d.reg["K"] = b.reg["K"] /\ d.reg["V"] = b.reg["V"]
         /\ d.reg["df"] = b.reg["df"] /\ d.reg["A"] = b.reg["A"] /\ d.reg["B"] = b.reg["B"]
         /\ UsedBy(d.table, d.reg["T"], {}) /\ \A r \in Registers : b.reg[r] # d.reg["T"]
    BY <1>1, <1>10, TurnIs, TurnFresh
  <1>12. UsedBy(b.table, b.reg["A"], {})
    <2>1. \A x \in Regs(of) : a.reg[x] # a.reg["A"]
      BY <1>1, <1>3
    <2>2. UsedBy(b.table, a.reg["A"], {})
      BY <1>3, <2>1, UsedSame
    <2>. QED BY <1>7, <2>2
  <1>13. UsedBy(d.table, d.reg["A"], {}) /\ UsedBy(d.table, d.reg["B"], {})
    <2>1. \A x \in Regs(of) : b.reg[x] # b.reg["A"] /\ b.reg[x] # b.reg["B"]
      BY <1>1, <1>3, <1>7
    <2>2. UsedBy(d.table, b.reg["A"], {})
      BY <1>12, <2>1, UsedSame
    <2>3. UsedBy(d.table, b.reg["B"], {})
      BY <1>7, <2>1, UsedSame
    <2>. QED BY <1>11, <2>2, <2>3
  <1>14. d.reg["A"] # d.reg["df"] /\ d.reg["B"] # d.reg["df"] /\ d.reg["T"] # d.reg["df"]
    BY <1>1, <1>3, <1>7, <1>11
  <1>15. PICK X, XA, XB, XT, D : /\ X = {"K", "V"} /\ XA = X \union {"A"}
                                 /\ XB = XA \union {"B"} /\ XT = {"A", "B", "T"}
                                 /\ D = {"df"}
    OBVIOUS
  <1>16. PICK RA, RB, RT, N : /\ RA = {"A", "df"} /\ RB = {"A", "B", "df"}
                              /\ RT = {"A", "B", "T", "df"} /\ N = {}
    OBVIOUS
  <1>17. Leads(m, b)
    BY <1>3, <1>7, LeadsOn
  <1>18. Keeps(m, d, X, D, XT, D)
    <2>1. /\ X \subseteq Registers /\ XA \subseteq Registers /\ XB \subseteq Registers
          /\ D \subseteq Registers /\ "K" \in X /\ "K" \in XA /\ "K" \in XB /\ "K" \in Regs(of)
          /\ XA \subseteq X \union {"A"} /\ XB \subseteq XA \union {"B"}
          /\ XT \subseteq XB \union {"T"}
          /\ D \subseteq D \ {"A"} /\ D \subseteq D \ {"B"} /\ D \subseteq D \ {"T"}
      BY <1>1, <1>15
    <2>2. Keeps(m, a, X, D, XA, D)
      BY <1>2, <2>1, TurnHides
    <2>3. Keeps(a, b, XA, D, XB, D)
      BY <1>6, <2>1, TurnHides
    <2>4. Keeps(b, d, XB, D, XT, D)
      BY <1>10, <2>1, TurnHides
    <2>. QED BY <1>3, <1>7, <1>11, <1>17, <2>2, <2>3, <2>4, KeepsOn
  <1>19. Keeps(m, d, X, D, N, RT)
    <2>1. /\ X \subseteq Registers /\ D \subseteq Registers /\ RA \subseteq Registers
          /\ RB \subseteq Registers /\ X \subseteq X \ {"A"} /\ X \subseteq X \ {"B"}
          /\ N \subseteq X \ {"T"} /\ RA \subseteq D \union {"A"} /\ RB \subseteq RA \union {"B"}
          /\ RT \subseteq RB \union {"T"}
      BY <1>1, <1>15, <1>16
    <2>2. Keeps(m, a, X, D, X, RA)
      BY <1>2, <2>1, TurnReveals
    <2>3. Keeps(a, b, X, RA, X, RB)
      BY <1>6, <2>1, TurnReveals
    <2>4. Keeps(b, d, X, RB, N, RT)
      BY <1>10, <2>1, TurnReveals
    <2>. QED BY <1>3, <1>7, <1>11, <1>17, <2>2, <2>3, <2>4, KeepsOn
  <1>. QED BY <1>11, <1>13, <1>14, <1>15, <1>16, <1>18, <1>19 DEF CtrDrawsNew

\* The values made from x have their first argument in S.
Firsts(T, x, S) == \A i \in DOMAIN T : x \in Args(T[i]) => T[i].of[1] \in S

LEMMA ValuePair ==
  ASSUME NEW m, NEW f, NEW y, NEW z
  PROVE  Value(m, f, <<y, z>>).of = <<m.reg[y], m.reg[z]>>
  <1>1. PICK of : of = <<y, z>>
    OBVIOUS
  <1>2. DOMAIN of = {1, 2} /\ of[1] = y /\ of[2] = z
    BY <1>1
  <1>3. [j \in DOMAIN of |-> m.reg[of[j]]] = <<m.reg[y], m.reg[z]>>
    <2>1. [j \in DOMAIN of |-> m.reg[of[j]]] = [j \in 1..2 |-> m.reg[of[j]]]
      BY <1>1
    <2>2. PICK g : g = [j \in 1..2 |-> m.reg[of[j]]]
      OBVIOUS
    <2>3. g[1] = m.reg[y] /\ g[2] = m.reg[z]
      BY <1>2, <2>2
    <2>4. g = <<g[1], g[2]>>
      BY <2>2
    <2>. QED BY <2>1, <2>2, <2>3, <2>4
  <1>. QED BY <1>1, <1>3 DEF Value, Term

LEMMA FirstsNew ==
  ASSUME NEW m, NEW f, NEW y, NEW z, NEW S, Firsts(m.table, m.reg[z], S), m.reg[y] \notin S
  PROVE  Fresh(m, f, <<y, z>>)
  <1>1. PICK v : v = Value(m, f, <<y, z>>)
    OBVIOUS
  <1>2. v.of = <<m.reg[y], m.reg[z]>>
    BY <1>1, ValuePair
  <1>3. v.of[1] = m.reg[y] /\ m.reg[z] \in Args(v)
    <2>1. 2 \in DOMAIN v.of /\ v.of[2] = m.reg[z] /\ v.of[1] = m.reg[y]
      BY <1>2
    <2>. QED BY <2>1 DEF Args
  <1>4. IsNew(m.table, v)
    BY <1>3 DEF IsNew, Firsts
  <1>. QED BY <1>1, <1>4 DEF Fresh

LEMMA FirstsAfter ==
  ASSUME NEW m, NEW d, NEW to, NEW f, NEW y, NEW z, Turn(m, d, to, f, <<y, z>>),
         NEW x, NEW S, Firsts(m.table, x, S), NEW U, U = S \union {m.reg[y]}
  PROVE  Firsts(d.table, x, U)
  <1>1. PICK of : of = <<y, z>>
    OBVIOUS
  <1>2. PICK v : v = Value(m, f, of)
    OBVIOUS
  <1>3. PICK id \in Nat : Stored(m, d, to, v, id)
    BY <1>1, <1>2, TurnStored
  <1>4. v.of[1] = m.reg[y]
    BY <1>1, <1>2, ValuePair
  <1>5. IsMachine(m)
    BY DEF Turn
  <1>. QED BY <1>3, <1>4, <1>5, EntriesOf, SMTT(30) DEF Firsts

\* The new key and V, from the three blocks and df.
CtrMixTurns(d, p, q, r, e, fx, fc) ==
  /\ Turn(d, p, "A", fx, <<"A", "df">>) /\ Turn(p, q, "B", fx, <<"B", "df">>)
  /\ Turn(q, r, "K", fc, <<"A", "B">>) /\ Turn(r, e, "V", fx, <<"T", "df">>)

CtrMixFresh(d, p, q, r, fx, fc) ==
  /\ Fresh(d, fx, <<"A", "df">>) /\ Fresh(p, fx, <<"B", "df">>)
  /\ Fresh(q, fc, <<"A", "B">>) /\ Fresh(r, fx, <<"T", "df">>)

LEMMA CtrPairs ==
  /\ Regs(<<"A", "df">>) = {"A", "df"} /\ Regs(<<"B", "df">>) = {"B", "df"}
  /\ Regs(<<"A", "B">>) = {"A", "B"} /\ Regs(<<"T", "df">>) = {"T", "df"}
  /\ <<"A", "df">> \in Seq(Registers) /\ <<"B", "df">> \in Seq(Registers)
  /\ <<"A", "B">> \in Seq(Registers) /\ <<"T", "df">> \in Seq(Registers)
  /\ Regs(<<"K", "V">>) = {"K", "V"} /\ <<"K", "V">> \in Seq(Registers)
  <1>1. /\ "A" \in Registers /\ "B" \in Registers /\ "T" \in Registers /\ "df" \in Registers
        /\ "K" \in Registers /\ "V" \in Registers
    BY DEF Registers
  <1>2. Regs(<<"A", "df">>) = {"A", "df"} /\ <<"A", "df">> \in Seq(Registers)
    BY <1>1, RegsTwo
  <1>3. Regs(<<"B", "df">>) = {"B", "df"} /\ <<"B", "df">> \in Seq(Registers)
    BY <1>1, RegsTwo
  <1>4. Regs(<<"A", "B">>) = {"A", "B"} /\ <<"A", "B">> \in Seq(Registers)
    BY <1>1, RegsTwo
  <1>5. Regs(<<"T", "df">>) = {"T", "df"} /\ <<"T", "df">> \in Seq(Registers)
    BY <1>1, RegsTwo
  <1>6. Regs(<<"K", "V">>) = {"K", "V"} /\ <<"K", "V">> \in Seq(Registers)
    BY <1>1, RegsTwo
  <1>. QED BY <1>2, <1>3, <1>4, <1>5, <1>6

\* The first new value is not used before it goes into the key.
LEMMA CatFresh ==
  ASSUME NEW d, NEW p, NEW q, NEW fx, NEW fc, Turn(d, p, "A", fx, <<"A", "df">>),
         Turn(p, q, "B", fx, <<"B", "df">>), Fresh(d, fx, <<"A", "df">>)
  PROVE  Fresh(q, fc, <<"A", "B">>)
  <1>1. {"A", "B", "df"} \subseteq Registers
    BY DEF Registers
  <1>2. /\ UsedBy(p.table, p.reg["A"], {}) /\ \A r \in Registers : d.reg[r] # p.reg["A"]
        /\ \A r \in Registers : r # "A" => p.reg[r] = d.reg[r]
    BY TurnIs, TurnFresh
  <1>3. \A x \in Regs(<<"B", "df">>) : p.reg[x] # p.reg["A"]
    BY <1>1, <1>2, CtrPairs
  <1>4. UsedBy(q.table, p.reg["A"], {})
    BY <1>2, <1>3, UsedSame
  <1>5. q.reg["A"] = p.reg["A"]
    BY <1>1, TurnIs
  <1>. QED BY <1>4, <1>5, CtrPairs, FreshUnused

LEMMA MixFreshByInput ==
  ASSUME NEW d, NEW p, NEW q, NEW r, NEW e, NEW fx, NEW fc, CtrMixTurns(d, p, q, r, e, fx, fc),
         UsedBy(d.table, d.reg["df"], {}), d.reg["A"] # d.reg["B"],
         d.reg["A"] # d.reg["T"], d.reg["B"] # d.reg["T"]
  PROVE  CtrMixFresh(d, p, q, r, fx, fc)
  <1>1. {"A", "B", "df", "T", "K"} \subseteq Registers
    BY DEF Registers
  <1>2. /\ Turn(d, p, "A", fx, <<"A", "df">>) /\ Turn(p, q, "B", fx, <<"B", "df">>)
        /\ Turn(q, r, "K", fc, <<"A", "B">>)
    BY DEF CtrMixTurns
  <1>3. PICK x, ia, ib, it : /\ x = d.reg["df"] /\ ia = d.reg["A"] /\ ib = d.reg["B"]
                             /\ it = d.reg["T"]
    OBVIOUS
  <1>4. Fresh(d, fx, <<"A", "df">>)
    BY CtrPairs, FreshUnused
  <1>5. p.reg["df"] = x /\ p.reg["B"] = ib /\ p.reg["T"] = it
        /\ \A y \in Registers : d.reg[y] # p.reg["A"]
    BY <1>1, <1>2, <1>3, <1>4, TurnIs, TurnFresh
  <1>6. q.reg["df"] = x /\ q.reg["T"] = it /\ q.reg["A"] = p.reg["A"]
    BY <1>1, <1>2, <1>5, TurnIs
  <1>7. r.reg["df"] = x /\ r.reg["T"] = it
    BY <1>1, <1>2, <1>6, TurnIs
  <1>8. PICK SA : SA = {} \union {ia}
    OBVIOUS
  <1>9. Firsts(p.table, x, SA)
    <2>1. Firsts(d.table, x, {})
      BY <1>3 DEF UsedBy, Firsts
    <2>. QED BY <1>2, <1>3, <1>8, <2>1, FirstsAfter
  <1>10. Fresh(p, fx, <<"B", "df">>)
    <2>1. p.reg["B"] \notin SA
      BY <1>3, <1>5, <1>8
    <2>. QED BY <1>5, <1>9, <2>1, FirstsNew
  <1>11. PICK SB : SB = SA \union {ib}
    OBVIOUS
  <1>12. Firsts(q.table, x, SB)
    BY <1>2, <1>5, <1>9, <1>11, FirstsAfter
  <1>13. PICK SC : SC = SB \union {p.reg["A"]}
    OBVIOUS
  <1>14. Firsts(r.table, x, SC)
    BY <1>2, <1>6, <1>12, <1>13, FirstsAfter
  <1>15. Fresh(r, fx, <<"T", "df">>)
    <2>1. it \notin SC
      BY <1>1, <1>3, <1>5, <1>8, <1>11, <1>13
    <2>. QED BY <1>7, <1>14, <2>1, FirstsNew
  <1>16. Fresh(q, fc, <<"A", "B">>)
    BY <1>2, <1>4, CatFresh
  <1>. QED BY <1>4, <1>10, <1>15, <1>16 DEF CtrMixFresh

LEMMA MixFreshByBlocks ==
  ASSUME NEW d, NEW p, NEW q, NEW r, NEW e, NEW fx, NEW fc, CtrMixTurns(d, p, q, r, e, fx, fc),
         UsedBy(d.table, d.reg["A"], {}), UsedBy(d.table, d.reg["B"], {}),
         UsedBy(d.table, d.reg["T"], {}), d.reg["A"] # d.reg["B"],
         d.reg["A"] # d.reg["T"], d.reg["B"] # d.reg["T"],
         d.reg["B"] # d.reg["df"], d.reg["T"] # d.reg["df"]
  PROVE  CtrMixFresh(d, p, q, r, fx, fc)
  <1>1. {"A", "B", "df", "T", "K"} \subseteq Registers
    BY DEF Registers
  <1>2. /\ Turn(d, p, "A", fx, <<"A", "df">>) /\ Turn(p, q, "B", fx, <<"B", "df">>)
        /\ Turn(q, r, "K", fc, <<"A", "B">>)
    BY DEF CtrMixTurns
  <1>3. PICK x, ia, ib, it : /\ x = d.reg["df"] /\ ia = d.reg["A"] /\ ib = d.reg["B"]
                             /\ it = d.reg["T"]
    OBVIOUS
  <1>4. Fresh(d, fx, <<"A", "df">>)
    BY CtrPairs, FreshUnused
  <1>5. p.reg["df"] = x /\ p.reg["B"] = ib /\ p.reg["T"] = it
        /\ \A y \in Registers : d.reg[y] # p.reg["A"]
    BY <1>1, <1>2, <1>3, <1>4, TurnIs, TurnFresh
  <1>6. UsedBy(p.table, ib, {}) /\ UsedBy(p.table, it, {})
    <2>1. \A y \in Regs(<<"A", "df">>) : d.reg[y] # ib /\ d.reg[y] # it
      BY <1>3, CtrPairs
    <2>. QED BY <1>2, <1>3, <2>1, UsedSame
  <1>7. Fresh(p, fx, <<"B", "df">>)
    BY <1>5, <1>6, CtrPairs, FreshUnused
  <1>8. UsedBy(q.table, it, {}) /\ q.reg["T"] = it /\ q.reg["A"] = p.reg["A"]
        /\ q.reg["B"] # it
    <2>1. \A y \in Regs(<<"B", "df">>) : p.reg[y] # it
      BY <1>3, <1>5, CtrPairs
    <2>2. UsedBy(q.table, it, {})
      BY <1>2, <1>6, <2>1, UsedSame
    <2>3. q.reg["T"] = it /\ q.reg["A"] = p.reg["A"]
      BY <1>1, <1>2, <1>5, TurnIs
    <2>4. \A y \in Registers : p.reg[y] # q.reg["B"]
      BY <1>2, <1>7, TurnFresh
    <2>. QED BY <1>1, <1>5, <2>2, <2>3, <2>4
  <1>9. UsedBy(r.table, it, {}) /\ r.reg["T"] = it
    <2>1. \A y \in Regs(<<"A", "B">>) : q.reg[y] # it
      BY <1>1, <1>3, <1>5, <1>8, CtrPairs
    <2>2. UsedBy(r.table, it, {})
      BY <1>2, <1>8, <2>1, UsedSame
    <2>. QED BY <1>1, <1>2, <1>8, <2>2, TurnIs
  <1>10. Fresh(r, fx, <<"T", "df">>)
    BY <1>9, CtrPairs, FreshUnused
  <1>11. Fresh(q, fc, <<"A", "B">>)
    BY <1>2, <1>4, CatFresh
  <1>. QED BY <1>4, <1>7, <1>10, <1>11 DEF CtrMixFresh

CtrMixes(d, e) ==
  /\ Leads(d, e) /\ e.out = d.out /\ e.seeded = d.seeded /\ e.ctr = d.ctr /\ e.nonce = d.nonce
  /\ UsedBy(e.table, e.reg["K"], {})
  /\ From(d, e, "A", "K") /\ From(d, e, "df", "K")
  /\ \A X, S : /\ X \subseteq Registers /\ S \subseteq {"df"}
               /\ "df" \in X \/ {"A", "B", "T"} \subseteq X
               => Keeps(d, e, X, S, {"K", "V"}, S)
  /\ Keeps(d, e, {}, {"A", "B", "T", "df"}, {}, Lasting)

LEMMA CtrMixIs ==
  ASSUME NEW d, NEW p, NEW q, NEW r, NEW e, NEW fx, NEW fc, CtrMixTurns(d, p, q, r, e, fx, fc),
         CtrMixFresh(d, p, q, r, fx, fc)
  PROVE  CtrMixes(d, e)
  <1>1. {"A", "B", "df", "T", "K", "V"} \subseteq Registers
    BY DEF Registers
  <1>2. /\ Turn(d, p, "A", fx, <<"A", "df">>) /\ Turn(p, q, "B", fx, <<"B", "df">>)
        /\ Turn(q, r, "K", fc, <<"A", "B">>) /\ Turn(r, e, "V", fx, <<"T", "df">>)
    BY DEF CtrMixTurns
  <1>3. /\ Fresh(d, fx, <<"A", "df">>) /\ Fresh(p, fx, <<"B", "df">>)
        /\ Fresh(q, fc, <<"A", "B">>) /\ Fresh(r, fx, <<"T", "df">>)
    BY DEF CtrMixFresh
  <1>4. /\ Leads(d, p) /\ p.out = d.out /\ p.seeded = d.seeded /\ p.ctr = d.ctr
        /\ p.nonce = d.nonce /\ From(d, p, "A", "A") /\ From(d, p, "df", "A")
    BY <1>1, <1>2, CtrPairs, TurnIs
  <1>5. /\ Leads(p, q) /\ q.out = p.out /\ q.seeded = p.seeded /\ q.ctr = p.ctr
        /\ q.nonce = p.nonce /\ From(p, q, "A", "A")
    BY <1>1, <1>2, TurnIs
  <1>6. /\ Leads(q, r) /\ r.out = q.out /\ r.seeded = q.seeded /\ r.ctr = q.ctr
        /\ r.nonce = q.nonce /\ From(q, r, "A", "K") /\ UsedBy(r.table, r.reg["K"], {})
        /\ \A y \in Registers : q.reg[y] # r.reg["K"]
        /\ \A y \in Registers : y # "K" => r.reg[y] = q.reg[y]
    BY <1>1, <1>2, <1>3, CtrPairs, TurnIs, TurnFresh
  <1>7. /\ Leads(r, e) /\ e.out = r.out /\ e.seeded = r.seeded /\ e.ctr = r.ctr
        /\ e.nonce = r.nonce /\ From(r, e, "K", "K") /\ e.reg["K"] = r.reg["K"]
    BY <1>1, <1>2, TurnIs
  <1>8. UsedBy(e.table, e.reg["K"], {})
    <2>1. \A y \in Regs(<<"T", "df">>) : r.reg[y] # r.reg["K"]
      BY <1>1, <1>6, CtrPairs
    <2>2. UsedBy(e.table, r.reg["K"], {})
      BY <1>2, <1>6, <2>1, UsedSame
    <2>. QED BY <1>7, <2>2
  <1>9. Leads(d, q) /\ Leads(d, r) /\ Leads(d, e)
    BY <1>4, <1>5, <1>6, <1>7, LeadsOn
  <1>10. From(d, e, "A", "K") /\ From(d, e, "df", "K")
    <2>1. From(d, q, "A", "A") /\ From(d, q, "df", "A")
      BY <1>1, <1>4, <1>5, FromOn
    <2>2. From(d, r, "A", "K") /\ From(d, r, "df", "K")
      BY <1>1, <1>6, <1>9, <2>1, FromOn
    <2>. QED BY <1>1, <1>7, <1>9, <2>2, FromOn
  <1>11. ASSUME NEW X, NEW S, X \subseteq Registers, S \subseteq {"df"},
                "df" \in X \/ {"A", "B", "T"} \subseteq X
         PROVE  Keeps(d, e, X, S, {"K", "V"}, S)
    <2>1. PICK XA, XB, XK, KV : /\ XA = X \union {"A"} /\ XB = XA \union {"B"}
                                /\ XK = XB \union {"K"} /\ KV = {"K", "V"}
      OBVIOUS
    <2>2. PICK a, b, t : /\ a \in X /\ a \in {"A", "df"} /\ b \in XA /\ b \in {"B", "df"}
                         /\ t \in XK /\ t \in {"T", "df"}
      <3>1. CASE "df" \in X
        BY <2>1, <3>1
      <3>2. CASE {"A", "B", "T"} \subseteq X
        BY <2>1, <3>2
      <3>. QED BY <1>11, <3>1, <3>2
    <2>3. /\ XA \subseteq Registers /\ XB \subseteq Registers /\ XK \subseteq Registers
          /\ S \subseteq Registers /\ XA \subseteq X \union {"A"}
          /\ XB \subseteq XA \union {"B"} /\ XK \subseteq XB \union {"K"}
          /\ KV \subseteq XK \union {"V"} /\ S \subseteq S \ {"A"} /\ S \subseteq S \ {"B"}
          /\ S \subseteq S \ {"K"} /\ S \subseteq S \ {"V"} /\ "A" \in XB
      BY <1>1, <1>11, <2>1
    <2>4. /\ a \in Regs(<<"A", "df">>) /\ b \in Regs(<<"B", "df">>) /\ t \in Regs(<<"T", "df">>)
          /\ "A" \in Regs(<<"A", "B">>)
      BY <2>2, CtrPairs
    <2>5. Keeps(d, p, X, S, XA, S)
      BY <1>2, <1>3, <1>11, <2>2, <2>3, <2>4, TurnHides
    <2>6. Keeps(p, q, XA, S, XB, S)
      BY <1>2, <1>3, <2>2, <2>3, <2>4, TurnHides
    <2>7. Keeps(q, r, XB, S, XK, S)
      BY <1>2, <1>3, <2>2, <2>3, <2>4, TurnHides
    <2>8. Keeps(r, e, XK, S, KV, S)
      BY <1>2, <1>3, <2>2, <2>3, <2>4, TurnHides
    <2>9. Keeps(d, e, X, S, KV, S)
      BY <1>4, <1>5, <1>6, <1>7, <1>9, <2>5, <2>6, <2>7, <2>8, KeepsOn
    <2>. QED BY <2>1, <2>9
  <1>12. Keeps(d, e, {}, {"A", "B", "T", "df"}, {}, Lasting)
    <2>1. PICK N, R, RK : N = {} /\ R = {"A", "B", "T", "df"} /\ RK = {"A", "B", "T", "df", "K"}
      OBVIOUS
    <2>2. /\ N \subseteq Registers /\ R \subseteq Registers /\ RK \subseteq Registers
          /\ N \subseteq N \ {"A"} /\ N \subseteq N \ {"B"} /\ N \subseteq N \ {"K"}
          /\ N \subseteq N \ {"V"} /\ R \subseteq R \union {"A"} /\ R \subseteq R \union {"B"}
          /\ RK \subseteq R \union {"K"} /\ Lasting \subseteq RK \union {"V"}
      BY <1>1, <2>1 DEF Lasting
    <2>3. /\ Regs(<<"A", "df">>) \subseteq R /\ Regs(<<"B", "df">>) \subseteq R
          /\ Regs(<<"A", "B">>) \subseteq R /\ Regs(<<"T", "df">>) \subseteq RK
      BY <2>1, CtrPairs
    <2>4. Keeps(d, p, N, R, N, R)
      BY <1>2, <2>2, <2>3, TurnPasses
    <2>5. Keeps(p, q, N, R, N, R)
      BY <1>2, <2>2, <2>3, TurnPasses
    <2>6. Keeps(q, r, N, R, N, RK)
      BY <1>2, <2>2, <2>3, TurnPasses
    <2>7. Keeps(r, e, N, RK, N, Lasting)
      BY <1>2, <2>2, <2>3, TurnPasses
    <2>8. Keeps(d, e, N, R, N, Lasting)
      BY <1>4, <1>5, <1>6, <1>7, <1>9, <2>4, <2>5, <2>6, <2>7, KeepsOn
    <2>. QED BY <2>1, <2>8
  <1>. QED BY <1>4, <1>5, <1>6, <1>7, <1>8, <1>9, <1>10, <1>11, <1>12 DEF CtrMixes

CtrCore(at) ==
  << AesAt("A", at), AesAt("B", at + 1), AesAt("T", at + 2),
     Set("A", F("xor"), <<"A", "df">>), Set("B", F("xor"), <<"B", "df">>),
     Set("K", F("cat"), <<"A", "B">>), Set("V", F("xor"), <<"T", "df">>) >>

\* The key has been used for no block from the counter on.
CtrReady(m) == UsedBy(m.table, m.reg["K"], {<<"aes", k>> : k \in 0..(m.ctr - 1)})

\* A new key and V, in a generator or from a seed.
CtrRekeys(m, e) ==
  /\ Leads(m, e) /\ e.out = m.out /\ e.seeded = m.seeded /\ e.nonce = m.nonce
  /\ UsedBy(e.table, e.reg["K"], {}) /\ From(m, e, "K", "K") /\ From(m, e, "df", "K")
CtrRekeysHidden(m, e) ==
  /\ Keeps(m, e, {"K", "V"}, {"df"}, {"K", "V"}, {"df"})
  /\ Keeps(m, e, {"K", "V"}, {"df"}, {}, Lasting)
CtrRekeysFrom(m, e) == Keeps(m, e, {"df"}, Registers \ {"in", "df"}, {"K", "V"}, {})

LEMMA CtrCoreTurns ==
  ASSUME NEW m, IsMachine(m), NEW at \in Nat, NEW e, e = Execute(m, CtrCore(at)),
         NEW fa, NEW fb, NEW ft, NEW fx, NEW fc, fa = <<"aes", at>>, fb = <<"aes", at + 1>>,
         ft = <<"aes", at + 2>>, fx = F("xor"), fc = F("cat")
  PROVE  /\ CtrCore(at) \in Seq(Instruction)
         /\ \E a, b, d, p, q, r :
              /\ Turn(m, a, "A", fa, <<"K", "V">>) /\ Turn(a, b, "B", fb, <<"K", "V">>)
              /\ Turn(b, d, "T", ft, <<"K", "V">>) /\ CtrMixTurns(d, p, q, r, e, fx, fc)
  <1>1. /\ "K" \in Registers /\ "V" \in Registers /\ "A" \in Registers /\ "B" \in Registers
        /\ "T" \in Registers /\ "K" # "out" /\ "V" # "out" /\ "A" # "out" /\ "B" # "out"
        /\ "T" # "out"
    BY DEF Registers
  <1>2. PICK kv, ad, bd, ab, td :
          /\ kv = <<"K", "V">> /\ ad = <<"A", "df">> /\ bd = <<"B", "df">> /\ ab = <<"A", "B">>
          /\ td = <<"T", "df">>
    OBVIOUS
  <1>3. /\ kv \in Seq(Registers) /\ ad \in Seq(Registers) /\ bd \in Seq(Registers)
        /\ ab \in Seq(Registers) /\ td \in Seq(Registers)
    BY <1>2, CtrPairs
  <1>4. Function(fa) /\ Function(fb) /\ Function(ft) /\ Function(fx) /\ Function(fc)
    <2>1. at + 1 \in Nat /\ at + 2 \in Nat
      OBVIOUS
    <2>. QED BY <2>1, CtrNamesAre DEF CtrNames, OneWay
  <1>5. PICK s1, s2, s3, s4, s5, s6, s7 :
          /\ s1 = Set("A", fa, kv) /\ s2 = Set("B", fb, kv) /\ s3 = Set("T", ft, kv)
          /\ s4 = Set("A", fx, ad) /\ s5 = Set("B", fx, bd) /\ s6 = Set("K", fc, ab)
          /\ s7 = Set("V", fx, td)
    OBVIOUS
  <1>6. CtrCore(at) = <<s1, s2, s3, s4, s5, s6, s7>>
    BY <1>2, <1>5 DEF CtrCore, AesAt
  <1>7. PICK g : g = <<s1, s2, s3, s4, s5, s6, s7>>
    OBVIOUS
  <1>8. /\ Len(g) = 7 /\ g[1] = s1 /\ g[2] = s2 /\ g[3] = s3 /\ g[4] = s4 /\ g[5] = s5
        /\ g[6] = s6 /\ g[7] = s7
    BY <1>7
  <1>9. PICK f : IsRun(f, m, g, 7) /\ Execute(m, g) = f[7]
    <2>1. 7 \in Nat /\ 7 = Len(g)
      BY <1>8
    <2>. QED BY ONLY <2>1, ExecuteTurns
  <1>10. /\ f[0] = m /\ f[1] = Do(f[0], s1) /\ f[2] = Do(f[1], s2) /\ f[3] = Do(f[2], s3)
         /\ f[4] = Do(f[3], s4) /\ f[5] = Do(f[4], s5) /\ f[6] = Do(f[5], s6)
         /\ f[7] = Do(f[6], s7)
    <2>1. f[0] = m /\ \A i \in 1..7 : f[i] = Do(f[i - 1], g[i])
      BY <1>9 DEF IsRun
    <2>2. f[1] = Do(f[0], g[1]) /\ f[2] = Do(f[1], g[2]) /\ f[3] = Do(f[2], g[3])
      BY <2>1
    <2>3. f[4] = Do(f[3], g[4]) /\ f[5] = Do(f[4], g[5]) /\ f[6] = Do(f[5], g[6])
      BY <2>1
    <2>4. f[7] = Do(f[6], g[7])
      BY <2>1
    <2>. QED BY <1>8, <2>1, <2>2, <2>3, <2>4
  <1>11. PICK a, b, d, p, q, r : /\ a = f[1] /\ b = f[2] /\ d = f[3] /\ p = f[4] /\ q = f[5]
                                 /\ r = f[6]
    OBVIOUS
  <1>13. Turn(m, a, "A", fa, kv) /\ s1 \in Instruction /\ IsMachine(a)
    <2>1. a = Do(m, s1)
      BY ONLY <1>6, <1>7, <1>9, <1>10, <1>11, e = Execute(m, CtrCore(at))
    <2>2. IsMachine(m)
      OBVIOUS
    <2>3. "A" \in Registers /\ "A" # "out" /\ kv \in Seq(Registers) /\ Function(fa)
      BY ONLY <1>1, <1>3, <1>4
    <2>4. s1 = Set("A", fa, kv)
      BY ONLY <1>5
    <2>. QED BY ONLY <2>1, <2>2, <2>3, <2>4, TurnOf
  <1>14. Turn(a, b, "B", fb, kv) /\ s2 \in Instruction /\ IsMachine(b)
    <2>1. b = Do(a, s2)
      BY ONLY <1>6, <1>7, <1>9, <1>10, <1>11, e = Execute(m, CtrCore(at))
    <2>2. IsMachine(a)
      BY <1>13
    <2>3. "B" \in Registers /\ "B" # "out" /\ kv \in Seq(Registers) /\ Function(fb)
      BY ONLY <1>1, <1>3, <1>4
    <2>4. s2 = Set("B", fb, kv)
      BY ONLY <1>5
    <2>. QED BY ONLY <2>1, <2>2, <2>3, <2>4, TurnOf
  <1>15. Turn(b, d, "T", ft, kv) /\ s3 \in Instruction /\ IsMachine(d)
    <2>1. d = Do(b, s3)
      BY ONLY <1>6, <1>7, <1>9, <1>10, <1>11, e = Execute(m, CtrCore(at))
    <2>2. IsMachine(b)
      BY <1>14
    <2>3. "T" \in Registers /\ "T" # "out" /\ kv \in Seq(Registers) /\ Function(ft)
      BY ONLY <1>1, <1>3, <1>4
    <2>4. s3 = Set("T", ft, kv)
      BY ONLY <1>5
    <2>. QED BY ONLY <2>1, <2>2, <2>3, <2>4, TurnOf
  <1>16. Turn(d, p, "A", fx, ad) /\ s4 \in Instruction /\ IsMachine(p)
    <2>1. p = Do(d, s4)
      BY ONLY <1>6, <1>7, <1>9, <1>10, <1>11, e = Execute(m, CtrCore(at))
    <2>2. IsMachine(d)
      BY <1>15
    <2>3. "A" \in Registers /\ "A" # "out" /\ ad \in Seq(Registers) /\ Function(fx)
      BY ONLY <1>1, <1>3, <1>4
    <2>4. s4 = Set("A", fx, ad)
      BY ONLY <1>5
    <2>. QED BY ONLY <2>1, <2>2, <2>3, <2>4, TurnOf
  <1>17. Turn(p, q, "B", fx, bd) /\ s5 \in Instruction /\ IsMachine(q)
    <2>1. q = Do(p, s5)
      BY ONLY <1>6, <1>7, <1>9, <1>10, <1>11, e = Execute(m, CtrCore(at))
    <2>2. IsMachine(p)
      BY <1>16
    <2>3. "B" \in Registers /\ "B" # "out" /\ bd \in Seq(Registers) /\ Function(fx)
      BY ONLY <1>1, <1>3, <1>4
    <2>4. s5 = Set("B", fx, bd)
      BY ONLY <1>5
    <2>. QED BY ONLY <2>1, <2>2, <2>3, <2>4, TurnOf
  <1>18. Turn(q, r, "K", fc, ab) /\ s6 \in Instruction /\ IsMachine(r)
    <2>1. r = Do(q, s6)
      BY ONLY <1>6, <1>7, <1>9, <1>10, <1>11, e = Execute(m, CtrCore(at))
    <2>2. IsMachine(q)
      BY <1>17
    <2>3. "K" \in Registers /\ "K" # "out" /\ ab \in Seq(Registers) /\ Function(fc)
      BY ONLY <1>1, <1>3, <1>4
    <2>4. s6 = Set("K", fc, ab)
      BY ONLY <1>5
    <2>. QED BY ONLY <2>1, <2>2, <2>3, <2>4, TurnOf
  <1>19. Turn(r, e, "V", fx, td) /\ s7 \in Instruction /\ IsMachine(e)
    <2>1. e = Do(r, s7)
      BY ONLY <1>6, <1>7, <1>9, <1>10, <1>11, e = Execute(m, CtrCore(at))
    <2>2. IsMachine(r)
      BY <1>18
    <2>3. "V" \in Registers /\ "V" # "out" /\ td \in Seq(Registers) /\ Function(fx)
      BY ONLY <1>1, <1>3, <1>4
    <2>4. s7 = Set("V", fx, td)
      BY ONLY <1>5
    <2>. QED BY ONLY <2>1, <2>2, <2>3, <2>4, TurnOf
  <1>20. CtrCore(at) \in Seq(Instruction)
    <2>1. \A i \in 1..7 : g[i] \in Instruction
      BY <1>8, <1>13, <1>14, <1>15, <1>16, <1>17, <1>18, <1>19
    <2>2. g = [i \in 1..7 |-> g[i]]
      BY <1>7
    <2>. QED BY <1>6, <1>7, <2>1, <2>2
  <1>21. CtrMixTurns(d, p, q, r, e, fx, fc)
    BY <1>2, <1>16, <1>17, <1>18, <1>19 DEF CtrMixTurns
  <1>. QED BY <1>2, <1>13, <1>14, <1>15, <1>20, <1>21

\* After the three blocks.
CtrRekeyed(m, d, e) ==
  /\ CtrDraws(m, d) /\ CtrMixes(d, e)
LEMMA CtrRekeyedIs ==
  ASSUME NEW m, NEW d, NEW e, CtrRekeyed(m, d, e)
  PROVE  CtrRekeys(m, e) /\ Leads(m, d) /\ Leads(d, e)
  <1>1. "K" \in Registers /\ "A" \in Registers /\ "df" \in Registers
    BY DEF Registers
  <1>2. /\ Leads(m, d) /\ d.out = m.out /\ d.seeded = m.seeded /\ d.nonce = m.nonce
        /\ From(m, d, "K", "A") /\ From(m, d, "df", "df")
    BY DEF CtrRekeyed, CtrDraws
  <1>3. /\ Leads(d, e) /\ e.out = d.out /\ e.seeded = d.seeded /\ e.nonce = d.nonce
        /\ UsedBy(e.table, e.reg["K"], {}) /\ From(d, e, "A", "K") /\ From(d, e, "df", "K")
    BY DEF CtrRekeyed, CtrMixes
  <1>4. Leads(m, e)
    BY <1>2, <1>3, LeadsOn
  <1>5. From(m, e, "K", "K") /\ From(m, e, "df", "K")
    BY <1>1, <1>2, <1>3, FromOn
  <1>. QED BY <1>2, <1>3, <1>4, <1>5 DEF CtrRekeys

LEMMA CoreKeyed ==
  ASSUME NEW m, IsMachine(m), NEW at \in Nat, NEW e, e = Execute(m, CtrCore(at)),
         NEW W, UsedBy(m.table, m.reg["K"], W), <<"aes", at>> \notin W,
         <<"aes", at + 1>> \notin W, <<"aes", at + 2>> \notin W
  PROVE  CtrRekeys(m, e) /\ CtrRekeysHidden(m, e)
  <1>1. PICK fa, fb, ft, fx, fc : /\ fa = <<"aes", at>> /\ fb = <<"aes", at + 1>>
                                  /\ ft = <<"aes", at + 2>> /\ fx = F("xor") /\ fc = F("cat")
    OBVIOUS
  <1>2. /\ fa # fb /\ fa # ft /\ fb # ft /\ fa \notin W /\ fb \notin W /\ ft \notin W
        /\ ~ Opens(fa) /\ ~ Opens(fb) /\ ~ Opens(ft)
    <2>1. at + 1 \in Nat /\ at + 2 \in Nat /\ at # at + 1 /\ at # at + 2 /\ at + 1 # at + 2
      OBVIOUS
    <2>2. fa[2] = at /\ fb[2] = at + 1 /\ ft[2] = at + 2
      BY <1>1
    <2>. QED BY <1>1, <2>1, <2>2, CtrNamesAre DEF CtrNames, OneWay
  <1>3. PICK of : of = <<"K", "V">>
    OBVIOUS
  <1>4. PICK a, b, d, p, q, r :
          /\ Turn(m, a, "A", fa, of) /\ Turn(a, b, "B", fb, of)
          /\ Turn(b, d, "T", ft, of) /\ CtrMixTurns(d, p, q, r, e, fx, fc)
    BY <1>1, <1>3, CtrCoreTurns
  <1>5. Regs(of) = {"K", "V"}
    BY <1>3, CtrPairs
  <1>6. CtrDraws(m, d)
    BY <1>2, <1>4, <1>5, DrawSteps
  <1>7. CtrDrawsNew(m, d)
    BY <1>2, <1>4, <1>5, DrawNew
  <1>8. CtrMixFresh(d, p, q, r, fx, fc)
    BY <1>4, <1>6, <1>7, MixFreshByBlocks DEF CtrDraws, CtrDrawsNew
  <1>9. CtrMixes(d, e)
    BY <1>4, <1>8, CtrMixIs
  <1>10. CtrRekeys(m, e) /\ Leads(m, d) /\ Leads(d, e)
    BY <1>6, <1>9, CtrRekeyedIs DEF CtrRekeyed
  <1>11. PICK KV, D, ABT, N, R : /\ KV = {"K", "V"} /\ D = {"df"} /\ ABT = {"A", "B", "T"}
                                 /\ N = {} /\ R = {"A", "B", "T", "df"}
    OBVIOUS
  <1>12. Keeps(m, d, KV, D, ABT, D) /\ Keeps(m, d, KV, D, N, R)
    BY <1>7, <1>11 DEF CtrDrawsNew
  <1>13. Keeps(d, e, ABT, D, KV, D) /\ Keeps(d, e, N, R, N, Lasting)
    <2>1. ABT \subseteq Registers /\ D \subseteq {"df"}
      BY <1>11 DEF Registers
    <2>2. /\ \A X, S : /\ X \subseteq Registers /\ S \subseteq {"df"}
                       /\ "df" \in X \/ {"A", "B", "T"} \subseteq X
                       => Keeps(d, e, X, S, {"K", "V"}, S)
          /\ Keeps(d, e, {}, {"A", "B", "T", "df"}, {}, Lasting)
      BY <1>9 DEF CtrMixes
    <2>. QED BY <1>11, <2>1, <2>2
  <1>14. Keeps(m, e, KV, D, KV, D) /\ Keeps(m, e, KV, D, N, Lasting)
    BY <1>10, <1>12, <1>13, KeepsOn
  <1>. QED BY <1>10, <1>11, <1>14 DEF CtrRekeysHidden

LEMMA CoreSeeded ==
  ASSUME NEW m, IsMachine(m), NEW at \in Nat, NEW e, e = Execute(m, CtrCore(at)),
         UsedBy(m.table, m.reg["df"], {}), m.reg["K"] # m.reg["df"], m.reg["V"] # m.reg["df"]
  PROVE  CtrRekeys(m, e) /\ CtrRekeysFrom(m, e)
  <1>1. PICK fa, fb, ft, fx, fc : /\ fa = <<"aes", at>> /\ fb = <<"aes", at + 1>>
                                  /\ ft = <<"aes", at + 2>> /\ fx = F("xor") /\ fc = F("cat")
    OBVIOUS
  <1>2. fa # fb /\ fa # ft /\ fb # ft
    <2>1. at # at + 1 /\ at # at + 2 /\ at + 1 # at + 2
      OBVIOUS
    <2>2. fa[2] = at /\ fb[2] = at + 1 /\ ft[2] = at + 2
      BY <1>1
    <2>. QED BY <2>1, <2>2
  <1>3. PICK of : of = <<"K", "V">>
    OBVIOUS
  <1>4. PICK a, b, d, p, q, r :
          /\ Turn(m, a, "A", fa, of) /\ Turn(a, b, "B", fb, of)
          /\ Turn(b, d, "T", ft, of) /\ CtrMixTurns(d, p, q, r, e, fx, fc)
    BY <1>1, <1>3, CtrCoreTurns
  <1>5. Regs(of) = {"K", "V"}
    BY <1>3, CtrPairs
  <1>6. CtrDraws(m, d)
    BY <1>2, <1>4, <1>5, DrawSteps
  <1>7. PICK x : x = m.reg["df"]
    OBVIOUS
  <1>8. UsedBy(d.table, d.reg["df"], {})
    <2>1. "K" \in Registers /\ "V" \in Registers /\ "K" # "A" /\ "V" # "A" /\ "K" # "B"
          /\ "V" # "B"
      BY DEF Registers
    <2>2. a.reg["K"] = m.reg["K"] /\ a.reg["V"] = m.reg["V"]
      BY <1>4, <2>1, TurnIs
    <2>3. b.reg["K"] = m.reg["K"] /\ b.reg["V"] = m.reg["V"]
      BY <1>4, <2>1, <2>2, TurnIs
    <2>4. UsedBy(m.table, x, {})
      BY <1>7
    <2>5. UsedBy(a.table, x, {})
      BY <1>4, <1>5, <1>7, <2>4, UsedSame
    <2>6. UsedBy(b.table, x, {})
      BY <1>4, <1>5, <1>7, <2>2, <2>5, UsedSame
    <2>7. UsedBy(d.table, x, {})
      BY <1>4, <1>5, <1>7, <2>3, <2>6, UsedSame
    <2>. QED BY <1>6, <1>7, <2>7 DEF CtrDraws
  <1>9. CtrMixFresh(d, p, q, r, fx, fc)
    BY <1>4, <1>6, <1>8, MixFreshByInput DEF CtrDraws
  <1>10. CtrMixes(d, e)
    BY <1>4, <1>9, CtrMixIs
  <1>11. CtrRekeys(m, e) /\ Leads(m, d) /\ Leads(d, e)
    BY <1>6, <1>10, CtrRekeyedIs DEF CtrRekeyed
  <1>12. PICK D, R, N, KV : /\ D = {"df"} /\ R = Registers \ {"in", "df"} /\ N = {}
                            /\ KV = {"K", "V"}
    OBVIOUS
  <1>13. Keeps(m, d, D, R, D, N)
    BY <1>6, <1>12 DEF CtrDraws
  <1>14. Keeps(d, e, D, N, KV, N)
    <2>1. D \subseteq Registers /\ N \subseteq {"df"} /\ "df" \in D
      BY <1>12 DEF Registers
    <2>2. \A X, S : /\ X \subseteq Registers /\ S \subseteq {"df"}
                    /\ "df" \in X \/ {"A", "B", "T"} \subseteq X
                    => Keeps(d, e, X, S, {"K", "V"}, S)
      BY <1>10 DEF CtrMixes
    <2>. QED BY <1>12, <2>1, <2>2
  <1>15. Keeps(m, e, D, R, KV, N)
    BY <1>11, <1>13, <1>14, KeepsOn
  <1>. QED BY <1>11, <1>12, <1>15 DEF CtrRekeysFrom

\* The update: derive, the new key and V, clear.
CtrDerive(in, reseed) ==
  IF in # <<>> THEN <<Set("df", F("df"), in)>>
  ELSE IF reseed < 3 THEN <<Set("df", F("zero"), <<>>)>> ELSE <<>>
CtrClear(reseed) == IF reseed = 2 THEN <<>> ELSE <<Set("df", F("zero"), <<>>)>>

LEMMA CtrUpdateParts ==
  ASSUME NEW m, IsMachine(m), NEW in, NEW reseed, NEW at \in Nat,
         at = IF reseed = 0 THEN m.ctr + 1 ELSE m.ctr,
         CtrDerive(in, reseed) \in Seq(Instruction), CtrClear(reseed) \in Seq(Instruction),
         NEW d, d = Execute(m, CtrDerive(in, reseed)), NEW e, e = Execute(d, CtrCore(at)),
         NEW g, g = Execute(e, CtrClear(reseed))
  PROVE  CtrUpdate(m, in, reseed) = [g EXCEPT !.ctr = 1]
  <1>1. PICK p, q, r : p = CtrDerive(in, reseed) /\ q = CtrCore(at) /\ r = CtrClear(reseed)
    OBVIOUS
  <1>2. CtrUpdate(m, in, reseed) = [Execute(m, p \o q \o r) EXCEPT !.ctr = 1]
    <2>1. CtrUpdate(m, in, reseed) =
            [Execute(m, CtrDerive(in, reseed)
                          \o CtrCore(IF reseed = 0 THEN m.ctr + 1 ELSE m.ctr)
                          \o CtrClear(reseed)) EXCEPT !.ctr = 1]
      BY Zenon DEF CtrUpdate, CtrDerive, CtrCore, CtrClear
    <2>. QED BY <1>1, <2>1, Zenon
  <1>3. q \in Seq(Instruction)
    <2>1. PICK fa, fb, ft, fx, fc : /\ fa = <<"aes", at>> /\ fb = <<"aes", at + 1>>
                                    /\ ft = <<"aes", at + 2>> /\ fx = F("xor") /\ fc = F("cat")
      OBVIOUS
    <2>2. PICK y : y = Execute(m, CtrCore(at))
      OBVIOUS
    <2>. QED BY <1>1, <2>1, <2>2, CtrCoreTurns
  <1>4. p \in Seq(Instruction) /\ r \in Seq(Instruction) /\ p \o q \in Seq(Instruction)
    BY <1>1, <1>3
  <1>5. Execute(m, (p \o q) \o r) = Execute(Execute(m, p \o q), r)
    <2>1. ASSUME NEW u \in Seq(Instruction), NEW v \in Seq(Instruction)
          PROVE  Execute(m, u \o v) = Execute(Execute(m, u), v)
      BY ExecuteCat
    <2>. QED BY ONLY <1>4, <2>1, Zenon
  <1>6. Execute(m, p \o q) = Execute(Execute(m, p), q)
    BY <1>3, <1>4, ExecuteCat
  <1>. QED BY <1>1, <1>2, <1>5, <1>6

\* The derived input.
LEMMA CtrDeriveIs ==
  ASSUME NEW m, IsMachine(m), NEW in, IsInput(in), in # <<>>, NEW reseed,
         NEW d, d = Execute(m, CtrDerive(in, reseed))
  PROVE  /\ CtrDerive(in, reseed) \in Seq(Instruction)
         /\ Turn(m, d, "df", F("df"), in) /\ IsMachine(d)
  <1>1. PICK f, s : f = F("df") /\ s = Set("df", f, in)
    OBVIOUS
  <1>2. "df" \in Registers /\ "df" # "out" /\ in \in Seq(Registers) /\ Function(f)
    BY <1>1, CtrNamesAre DEF Registers, IsInput, CtrNames
  <1>3. CtrDerive(in, reseed) = <<s>>
    BY <1>1 DEF CtrDerive
  <1>4. d = Do(m, s)
    BY <1>3, ExecuteOne
  <1>5. Turn(m, d, "df", f, in) /\ s \in Instruction /\ IsMachine(d)
    BY <1>1, <1>2, <1>4, TurnOf
  <1>. QED BY <1>1, <1>3, <1>5

\* df is cleared.
LEMMA CtrClearIs ==
  ASSUME NEW m, IsMachine(m), NEW reseed, reseed # 2, NEW d, d = Execute(m, CtrClear(reseed))
  PROVE  /\ CtrClear(reseed) \in Seq(Instruction)
         /\ \E of : Turn(m, d, "df", F("zero"), of) /\ Regs(of) = {}
         /\ IsMachine(d)
  <1>1. PICK f, of, s : f = F("zero") /\ of = <<>> /\ s = Set("df", f, of)
    OBVIOUS
  <1>2. "df" \in Registers /\ "df" # "out" /\ of \in Seq(Registers) /\ Function(f) /\ Regs(of) = {}
    BY <1>1, CtrNamesAre DEF Registers, Regs, CtrNames
  <1>3. CtrClear(reseed) = <<s>>
    BY <1>1 DEF CtrClear
  <1>4. d = Do(m, s)
    BY <1>3, ExecuteOne
  <1>5. Turn(m, d, "df", f, of) /\ s \in Instruction /\ IsMachine(d)
    BY <1>1, <1>2, <1>4, TurnOf
  <1>. QED BY <1>1, <1>2, <1>3, <1>5

\* What may precede the blocks.
CtrPre(m, d, in) ==
  /\ Leads(m, d) /\ d.out = m.out /\ CtrReady(d) /\ d.ctr # 0 /\ d.seeded = m.seeded
  /\ From(m, d, "K", "K") /\ \A x \in Regs(in) : From(m, d, x, "K")
  /\ Keeps(m, d, {"K", "V"}, {"df"} \union Inputs, {"K", "V"}, {"df"})

\* The update at the end of a call.
CtrPost(m, e) ==
  /\ Leads(m, e) /\ e.out = m.out /\ CtrReady(e) /\ e.ctr # 0 /\ e.seeded = m.seeded
  /\ From(m, e, "K", "K")
  /\ Keeps(m, e, {"K", "V"}, {"df"}, {"K", "V"}, {"df"})
  /\ Keeps(m, e, {"K", "V"}, {"df"}, {}, Lasting)

\* The counter starts again.
LEMMA CtrRestart ==
  ASSUME NEW g, IsMachine(g), UsedBy(g.table, g.reg["K"], {}), NEW x, x = [g EXCEPT !.ctr = 1]
  PROVE  Same(g, x) /\ CtrReady(x) /\ x.ctr = 1 /\ x.seeded = g.seeded
  <1>1. Same(g, x) /\ x.ctr = 1 /\ x.seeded = g.seeded
    BY SameCounter
  <1>2. x.table = g.table /\ x.reg = g.reg
    BY <1>1 DEF Same
  <1>. QED BY <1>1, <1>2, UsedMore DEF CtrReady

LEMMA UpdateWith ==
  ASSUME NEW m, IsMachine(m), CtrReady(m), NEW in, IsInput(in), in # <<>>,
         NEW x, x = CtrUpdate(m, in, 2)
  PROVE  CtrPre(m, x, in)
  <1>1. PICK d : d = Execute(m, CtrDerive(in, 2))
    OBVIOUS
  <1>2. /\ CtrDerive(in, 2) \in Seq(Instruction)
        /\ Turn(m, d, "df", F("df"), in) /\ IsMachine(d)
    BY <1>1, CtrDeriveIs
  <1>3. PICK f : f = F("df")
    OBVIOUS
  <1>4. Turn(m, d, "df", f, in)
    BY <1>2, <1>3
  <1>5. PICK at \in Nat : at = m.ctr
    BY DEF IsMachine
  <1>6. PICK e : e = Execute(d, CtrCore(at))
    OBVIOUS
  <1>7. CtrRekeys(d, e) /\ CtrRekeysHidden(d, e)
    <2>1. PICK W, V : W = {<<"aes", k>> : k \in 0..(m.ctr - 1)} /\ V = W \union {f}
      OBVIOUS
    <2>2. UsedBy(m.table, m.reg["K"], W)
      BY <2>1 DEF CtrReady
    <2>3. "K" \in Registers /\ "K" # "df"
      BY DEF Registers
    <2>4. d.reg["K"] = m.reg["K"]
      BY <1>4, <2>3, TurnIs
    <2>5. PICK y : y = m.reg["K"]
      OBVIOUS
    <2>6. UsedBy(d.table, y, V)
      <3>1. W \subseteq V /\ f \in V
        BY <2>1
      <3>2. UsedBy(m.table, y, W)
        BY <2>2, <2>5
      <3>. QED BY <1>4, <3>1, <3>2, TurnUsed
    <2>7. <<"aes", at>> \notin V /\ <<"aes", at + 1>> \notin V /\ <<"aes", at + 2>> \notin V
      <3>1. f[1] = "df"
        BY <1>3 DEF F
      <3>2. \A j \in Nat : <<"aes", j>>[1] = "aes" /\ <<"aes", j>>[2] = j
        OBVIOUS
      <3>3. ASSUME NEW j \in Nat, at <= j PROVE <<"aes", j>> \notin V
        <4>1. <<"aes", j>> # f
          BY <3>1, <3>2
        <4>2. ASSUME NEW k \in 0..(m.ctr - 1) PROVE <<"aes", j>> # <<"aes", k>>
          BY <1>5, <3>2, <3>3
        <4>. QED BY <2>1, <4>1, <4>2
      <3>4. at + 1 \in Nat /\ at + 2 \in Nat /\ at <= at /\ at <= at + 1 /\ at <= at + 2
        OBVIOUS
      <3>. QED BY <3>3, <3>4
    <2>8. UsedBy(d.table, d.reg["K"], V)
      BY <2>4, <2>5, <2>6
    <2>. QED BY ONLY <1>2, <1>6, <2>7, <2>8, at \in Nat, CoreKeyed
  <1>8. CtrClear(2) = <<>> /\ CtrClear(2) \in Seq(Instruction)
    BY DEF CtrClear
  <1>9. /\ Leads(m, d) /\ d.out = m.out /\ d.seeded = m.seeded /\ From(m, d, "K", "K")
        /\ \A r \in Regs(in) : From(m, d, r, "df")
    <2>1. "K" \in Registers /\ "K" # "df"
      BY DEF Registers
    <2>. QED BY <1>4, <2>1, TurnIs
  <1>10. /\ Leads(d, e) /\ e.out = d.out /\ e.seeded = d.seeded
         /\ UsedBy(e.table, e.reg["K"], {}) /\ From(d, e, "K", "K") /\ From(d, e, "df", "K")
    BY <1>7 DEF CtrRekeys
  <1>11. Leads(m, e) /\ IsMachine(e)
    BY <1>9, <1>10, LeadsOn, LeadsTyped
  <1>12. From(m, e, "K", "K") /\ \A r \in Regs(in) : From(m, e, r, "K")
    <2>1. "K" \in Registers /\ "df" \in Registers
      BY DEF Registers
    <2>. QED BY <1>9, <1>10, <2>1, FromOn
  <1>13. PICK KV, D, R : KV = {"K", "V"} /\ D = {"df"} /\ R = D \union Inputs
    OBVIOUS
  <1>14. Keeps(m, d, KV, R, KV, D)
    <2>1. /\ KV \subseteq Registers /\ R \subseteq Registers /\ Regs(in) \subseteq R
          /\ KV \subseteq KV \ {"df"} /\ D \subseteq R \union {"df"}
      BY <1>13 DEF Registers, Inputs, IsInput
    <2>. QED BY <1>4, <2>1, TurnPasses
  <1>15. Keeps(d, e, KV, D, KV, D)
    BY <1>7, <1>13 DEF CtrRekeysHidden
  <1>16. Keeps(m, e, KV, R, KV, D)
    BY <1>9, <1>10, <1>14, <1>15, KeepsOn
  <1>17. x = [e EXCEPT !.ctr = 1]
    <2>1. at = IF 2 = 0 THEN m.ctr + 1 ELSE m.ctr
      BY <1>5
    <2>2. e = Execute(e, CtrClear(2))
      BY <1>8, ExecuteNone
    <2>. QED BY <1>1, <1>2, <1>6, <1>8, <2>1, <2>2, CtrUpdateParts
  <1>18. Same(e, x) /\ CtrReady(x) /\ x.ctr = 1 /\ x.seeded = e.seeded
    BY <1>10, <1>11, <1>17, CtrRestart
  <1>19. /\ Leads(m, x) /\ From(m, x, "K", "K") /\ (\A r \in Regs(in) : From(m, x, r, "K"))
         /\ Keeps(m, x, KV, R, KV, D) /\ x.out = m.out
    BY <1>9, <1>10, <1>11, <1>12, <1>16, <1>18, SameIs DEF Same
  <1>. QED BY <1>9, <1>10, <1>13, <1>18, <1>19 DEF CtrPre

\* df is cleared, and the counter starts again.
CtrClears(e, x) ==
  \E g, of : /\ Turn(e, g, "df", F("zero"), of) /\ Regs(of) = {}
             /\ UsedBy(e.table, e.reg["K"], {}) /\ x = [g EXCEPT !.ctr = 1]

LEMMA ClearsIs ==
  ASSUME NEW e, NEW x, CtrClears(e, x)
  PROVE  /\ Leads(e, x) /\ x.out = e.out /\ x.seeded = e.seeded /\ CtrReady(x) /\ x.ctr = 1
         /\ From(e, x, "K", "K") /\ IsMachine(x)
         /\ \A X, R : X \subseteq Registers \ {"df"} /\ R \subseteq Registers =>
              Keeps(e, x, X, R, X, R \union {"df"})
  <1>1. PICK g, of : /\ Turn(e, g, "df", F("zero"), of) /\ Regs(of) = {}
                     /\ UsedBy(e.table, e.reg["K"], {}) /\ x = [g EXCEPT !.ctr = 1]
    BY DEF CtrClears
  <1>2. PICK f : f = F("zero")
    OBVIOUS
  <1>3. Turn(e, g, "df", f, of)
    BY <1>1, <1>2
  <1>4. /\ Leads(e, g) /\ g.out = e.out /\ g.seeded = e.seeded /\ From(e, g, "K", "K")
        /\ g.reg["K"] = e.reg["K"]
    <2>1. "K" \in Registers /\ "K" # "df"
      BY DEF Registers
    <2>. QED BY <1>3, <2>1, TurnIs
  <1>5. IsMachine(g) /\ UsedBy(g.table, g.reg["K"], {})
    <2>1. \A y \in Regs(of) : e.reg[y] # e.reg["K"]
      BY <1>1
    <2>2. UsedBy(g.table, e.reg["K"], {})
      BY <1>1, <1>3, <2>1, UsedSame
    <2>. QED BY <1>4, <2>2, LeadsTyped
  <1>6. Same(g, x) /\ CtrReady(x) /\ x.ctr = 1 /\ x.seeded = g.seeded
    BY <1>1, <1>5, CtrRestart
  <1>7. ASSUME NEW X, NEW R, X \subseteq Registers \ {"df"}, R \subseteq Registers
        PROVE  Keeps(e, x, X, R, X, R \union {"df"})
    <2>1. PICK U : U = R \union {"df"}
      OBVIOUS
    <2>2. X \subseteq Registers /\ X \subseteq X \ {"df"} /\ Regs(of) \subseteq R
          /\ U \subseteq R \union {"df"}
      BY <1>1, <1>7, <2>1
    <2>3. Keeps(e, g, X, R, X, U)
      BY <1>3, <1>7, <2>2, TurnPasses
    <2>. QED BY <1>4, <1>6, <2>1, <2>3, SameIs
  <1>. QED BY <1>4, <1>6, <1>7, SameIs DEF Same

LEMMA UpdateLast ==
  ASSUME NEW m, IsMachine(m), CtrReady(m), NEW x, x = CtrUpdate(m, <<>>, 3)
  PROVE  CtrPost(m, x)
  <1>1. PICK at \in Nat : at = m.ctr
    BY DEF IsMachine
  <1>2. PICK e : e = Execute(m, CtrCore(at))
    OBVIOUS
  <1>3. CtrRekeys(m, e) /\ CtrRekeysHidden(m, e)
    <2>1. PICK W : W = {<<"aes", k>> : k \in 0..(m.ctr - 1)}
      OBVIOUS
    <2>2. UsedBy(m.table, m.reg["K"], W)
      BY <2>1 DEF CtrReady
    <2>3. \A j \in Nat : <<"aes", j>>[2] = j
      OBVIOUS
    <2>4. ASSUME NEW j \in Nat, at <= j PROVE <<"aes", j>> \notin W
      <3>1. ASSUME NEW k \in 0..(m.ctr - 1) PROVE <<"aes", j>> # <<"aes", k>>
        BY <1>1, <2>3, <2>4
      <3>. QED BY <2>1, <3>1
    <2>5. at + 1 \in Nat /\ at + 2 \in Nat /\ at <= at /\ at <= at + 1 /\ at <= at + 2
      OBVIOUS
    <2>6. <<"aes", at>> \notin W /\ <<"aes", at + 1>> \notin W /\ <<"aes", at + 2>> \notin W
      BY <2>4, <2>5
    <2>. QED BY ONLY <1>2, <2>2, <2>6, at \in Nat, IsMachine(m), CoreKeyed
  <1>4. /\ Leads(m, e) /\ e.out = m.out /\ e.seeded = m.seeded /\ IsMachine(e)
        /\ UsedBy(e.table, e.reg["K"], {}) /\ From(m, e, "K", "K")
    BY <1>3, LeadsTyped DEF CtrRekeys
  <1>5. CtrDerive(<<>>, 3) = <<>> /\ CtrDerive(<<>>, 3) \in Seq(Instruction)
    BY DEF CtrDerive
  <1>6. PICK g : g = Execute(e, CtrClear(3))
    OBVIOUS
  <1>7. CtrClear(3) \in Seq(Instruction) /\ \E of : Turn(e, g, "df", F("zero"), of) /\ Regs(of) = {}
    <2>1. 3 # 2
      OBVIOUS
    <2>. QED BY <1>4, <1>6, <2>1, CtrClearIs
  <1>8. x = [g EXCEPT !.ctr = 1]
    <2>1. at = IF 3 = 0 THEN m.ctr + 1 ELSE m.ctr
      BY <1>1
    <2>2. m = Execute(m, CtrDerive(<<>>, 3))
      BY <1>5, ExecuteNone
    <2>. QED BY <1>2, <1>5, <1>6, <1>7, <2>1, <2>2, CtrUpdateParts
  <1>9. CtrClears(e, x)
    BY <1>4, <1>7, <1>8 DEF CtrClears
  <1>10. /\ Leads(e, x) /\ x.out = e.out /\ x.seeded = e.seeded /\ CtrReady(x) /\ x.ctr = 1
         /\ From(e, x, "K", "K")
         /\ \A X, R : X \subseteq Registers \ {"df"} /\ R \subseteq Registers =>
              Keeps(e, x, X, R, X, R \union {"df"})
    BY <1>9, ClearsIs
  <1>11. Leads(m, x) /\ From(m, x, "K", "K")
    BY <1>4, <1>10, LeadsOn, FromOn DEF Registers
  <1>12. PICK KV, D, N : KV = {"K", "V"} /\ D = {"df"} /\ N = {}
    OBVIOUS
  <1>13. Keeps(m, e, KV, D, KV, D) /\ Keeps(m, e, KV, D, N, Lasting)
    BY <1>3, <1>12 DEF CtrRekeysHidden
  <1>14. Keeps(e, x, KV, D, KV, D) /\ Keeps(e, x, N, Lasting, N, Lasting)
    <2>1. /\ KV \subseteq Registers \ {"df"} /\ D \subseteq Registers /\ N \subseteq Registers \ {"df"}
          /\ Lasting \subseteq Registers /\ D \union {"df"} = D /\ Lasting \union {"df"} = Lasting
      BY <1>12 DEF Registers, Lasting
    <2>. QED BY <1>10, <2>1
  <1>15. Keeps(m, x, KV, D, KV, D) /\ Keeps(m, x, KV, D, N, Lasting)
    BY <1>4, <1>10, <1>13, <1>14, KeepsOn
  <1>. QED BY <1>4, <1>10, <1>11, <1>12, <1>15 DEF CtrPost

\* The blocks.
CtrRuns(m, e) ==
  /\ Leads(m, e) /\ CtrReady(e) /\ e.seeded = m.seeded
  /\ From(m, e, "K", "K") /\ OutsFrom(m, e, "K")
  /\ Keeps(m, e, {"K", "V"}, {"df"}, {"K", "V"}, {"df"})
  /\ Burns(m, e, {"K", "V"}, {"df"}, {"K", "V"}, {"df"})

CtrPuts(m, d, nm, n, of, x) ==
  /\ Output(m, d, nm, n, of) /\ Regs(of) = {"K", "V"} /\ IsMachine(d)
  /\ OutFresh(m, nm, n, of) /\ x = [d EXCEPT !.ctr = m.ctr + n] /\ d.ctr = m.ctr
  /\ \A i \in 1..n : nm[i] = <<"aes", m.ctr + i - 1>>

LEMMA CtrBlocksOut ==
  ASSUME NEW m, IsMachine(m), CtrReady(m), m.ctr # 0, NEW n \in Nat, NEW x, x = CtrBlocks(m, n)
  PROVE  \E nm, d, of : CtrPuts(m, d, nm, n, of, x)
  <1>1. PICK c \in Nat : c = m.ctr
    BY DEF IsMachine
  <1>2. PICK k \in Nat : c = k + 1
    <2>1. c - 1 \in Nat /\ c = (c - 1) + 1
      BY <1>1
    <2>. QED BY <2>1
  <1>3. PICK nm : nm = [i \in 1..n |-> <<"aes", c + i - 1>>]
    OBVIOUS
  <1>4. PICK of : of = <<"K", "V">>
    OBVIOUS
  <1>5. \A i \in 1..n : OneWay(nm[i]) /\ nm[i][2] = k + i /\ nm[i] = <<"aes", m.ctr + i - 1>>
    <2>1. ASSUME NEW i \in 1..n PROVE c + i - 1 \in Nat /\ c + i - 1 = k + i
      BY <1>2
    <2>. QED BY <1>1, <1>3, <2>1, CtrNamesAre DEF CtrNames
  <1>6. OutNames(nm, n)
    BY <1>5, Numbered
  <1>7. OutOf(of) /\ Regs(of) = {"K", "V"}
    <2>1. of \in Seq(Registers) /\ Len(of) = 2 /\ of[1] = "K" /\ of[2] = "V"
      BY <1>4, CtrPairs
    <2>2. \A j \in 1..Len(of) : of[j] # "out"
      BY <2>1
    <2>. QED BY <1>4, <2>1, <2>2, CtrPairs DEF OutOf
  <1>8. PICK p : p = [i \in 1..n |-> Set("out", nm[i], of)]
    OBVIOUS
  <1>9. PICK d : d = Execute(m, p)
    OBVIOUS
  <1>10. Output(m, d, nm, n, of) /\ IsMachine(d)
    BY <1>6, <1>7, <1>8, <1>9, OutputTo
  <1>11. OutFresh(m, nm, n, of)
    <2>1. PICK W : W = {<<"aes", j>> : j \in 0..(m.ctr - 1)}
      OBVIOUS
    <2>2. UsedBy(m.table, m.reg["K"], W) /\ "K" \in Regs(of)
      BY <1>7, <2>1 DEF CtrReady
    <2>3. ASSUME NEW i \in 1..n PROVE nm[i] \notin W
      <3>1. ASSUME NEW j \in 0..(m.ctr - 1) PROVE nm[i] # <<"aes", j>>
        <4>1. <<"aes", j>>[2] = j
          OBVIOUS
        <4>2. k + i # j
          BY <1>1, <1>2
        <4>. QED BY <1>5, <4>1, <4>2
      <3>. QED BY <2>1, <3>1
    <2>. QED BY <2>2, <2>3 DEF OutFresh
  <1>12. CtrBlocks(m, n) = [d EXCEPT !.ctr = @ + n]
    <2>1. p = [i \in 1..n |-> AesAt("out", c + i - 1)]
      BY <1>3, <1>4, <1>8 DEF AesAt
    <2>. QED BY <1>1, <1>9, <2>1 DEF CtrBlocks
  <1>13. d.ctr = m.ctr
    BY <1>10, <1>11, OutputIs
  <1>14. x = [d EXCEPT !.ctr = m.ctr + n]
    BY <1>12, <1>13
  <1>15. CtrPuts(m, d, nm, n, of, x)
    BY <1>5, <1>7, <1>10, <1>11, <1>13, <1>14 DEF CtrPuts
  <1>. QED BY <1>15

LEMMA CtrBlocksIs ==
  ASSUME NEW m, IsMachine(m), CtrReady(m), m.ctr # 0, NEW n \in Nat, NEW x, x = CtrBlocks(m, n)
  PROVE  CtrRuns(m, x)
  <1>0. PICK nm, d, of : CtrPuts(m, d, nm, n, of, x)
    BY CtrBlocksOut
  <1>1. /\ Output(m, d, nm, n, of) /\ Regs(of) = {"K", "V"} /\ IsMachine(d)
        /\ OutFresh(m, nm, n, of) /\ x = [d EXCEPT !.ctr = m.ctr + n] /\ d.ctr = m.ctr
        /\ \A i \in 1..n : nm[i] = <<"aes", m.ctr + i - 1>>
    BY <1>0 DEF CtrPuts
  <1>2. PICK c \in Nat : c = m.ctr
    BY DEF IsMachine
  <1>3. {"K", "V", "df"} \subseteq Registers \ {"out"} /\ "K" \in Registers /\ "K" # "out"
    BY DEF Registers
  <1>4. /\ Leads(m, d) /\ d.seeded = m.seeded /\ From(m, d, "K", "K") /\ OutsFrom(m, d, "K")
        /\ d.reg["K"] = m.reg["K"]
    BY <1>1, <1>3, OutputIs
  <1>5. PICK KV, D : KV = {"K", "V"} /\ D = {"df"}
    OBVIOUS
  <1>6. Keeps(m, d, KV, D, KV, D) /\ Burns(m, d, KV, D, KV, D)
    <2>1. KV \subseteq Registers \ {"out"} /\ D \subseteq Registers \ {"out"}
          /\ Regs(of) \intersect KV # {}
      BY <1>1, <1>3, <1>5
    <2>. QED BY <1>1, <2>1, OutputKeeps
  <1>7. Same(d, x) /\ x.seeded = d.seeded /\ x.ctr = c + n
    <2>1. PICK k \in Nat : k = c + n
      OBVIOUS
    <2>2. x = [d EXCEPT !.ctr = k] /\ IsMachine(d)
      BY <1>1, <1>2, <2>1
    <2>3. Same(d, x) /\ x.seeded = d.seeded /\ x.ctr = k
      BY ONLY <2>2, k \in Nat, SameCounter
    <2>. QED BY <2>1, <2>3
  <1>8. CtrReady(x)
    <2>1. PICK y, W, V : /\ y = m.reg["K"] /\ W = {<<"aes", j>> : j \in 0..(c - 1)}
                         /\ V = {<<"aes", j>> : j \in 0..(c + n - 1)}
      OBVIOUS
    <2>2. UsedBy(m.table, y, W)
      BY <1>2, <2>1 DEF CtrReady
    <2>3. W \subseteq V
      <3>1. \A j \in 0..(c - 1) : j \in 0..(c + n - 1)
        OBVIOUS
      <3>. QED BY <2>1, <3>1
    <2>4. \A i \in 1..n : nm[i] \in V
      <3>1. ASSUME NEW i \in 1..n PROVE nm[i] \in V
        <4>1. c + i - 1 \in 0..(c + n - 1)
          OBVIOUS
        <4>. QED BY <1>1, <1>2, <2>1, <4>1
      <3>. QED BY <3>1
    <2>5. UsedBy(d.table, y, V)
      BY <1>1, <2>2, <2>3, <2>4, OutputUsed
    <2>. QED BY <1>4, <1>7, <2>1, <2>5 DEF CtrReady, Same
  <1>. QED BY <1>4, <1>5, <1>6, <1>7, <1>8, SameIs DEF CtrRuns

LEMMA CtrSets ==
  /\ Key("ctr") = "K" /\ \A b : Secret("ctr", b) = {"K", "V"}
  /\ \A b : Public("ctr", b) = {"df"}
  /\ \A m : AtRest("ctr", m) <=> m.ctr # 0 /\ CtrReady(m)
  <1>1. /\ Key("ctr") = "K" /\ \A b : Secret("ctr", b) = {"K", "V"}
    BY DEF Key, Secret
  <1>2. \A b : Public("ctr", b) = {"df"}
    BY <1>1 DEF Public, Lasting
  <1>3. \A m : AtRest("ctr", m) <=> m.ctr # 0 /\ CtrReady(m)
    BY DEF AtRest, CtrReady
  <1>. QED BY <1>1, <1>2, <1>3

LEMMA CtrEmpty ==
  ASSUME NEW m, NEW d, NEW in, CtrPre(m, d, in)
  PROVE  Generation("ctr", m, d, in)
  <1>1. /\ Leads(m, d) /\ d.seeded = m.seeded /\ From(m, d, "K", "K")
        /\ AtRest("ctr", d) /\ \A x : OutsFrom(m, d, x)
    BY BurnsNothing, CtrSets DEF CtrPre
  <1>2. PICK KV, D, R : KV = {"K", "V"} /\ D = {"df"} /\ R = D \union Inputs
    OBVIOUS
  <1>3. Keeps(m, d, KV, R, KV, D) /\ Burns(m, d, KV, R, {}, Lasting)
    BY <1>2, BurnsNothing DEF CtrPre
  <1>4. \A m1, m2 : Idle("ctr", m1, m2)
    BY IdleElse
  <1>. QED BY <1>1, <1>2, <1>3, <1>4, CtrSets DEF Generation

LEMMA CtrCall ==
  ASSUME NEW m, NEW d, NEW g, NEW e, NEW in, CtrPre(m, d, in), CtrRuns(d, g), CtrPost(g, e)
  PROVE  Generation("ctr", m, e, in)
  <1>1. /\ Leads(m, d) /\ d.out = m.out /\ Leads(d, g) /\ Leads(m, g) /\ Leads(g, e)
        /\ Leads(m, e) /\ e.out = g.out /\ "K" \in Registers /\ e.seeded = m.seeded
    BY LeadsOn DEF CtrPre, CtrRuns, CtrPost, Registers
  <1>2. /\ From(m, g, "K", "K") /\ OutsFrom(m, g, "K")
        /\ \A x \in Regs(in) : OutsFrom(m, g, x) /\ From(m, g, x, "K")
    BY <1>1, FromOn, OutsFromOn, BurnsNothing DEF CtrPre, CtrRuns
  <1>3. /\ From(m, e, "K", "K") /\ OutsFrom(m, e, "K")
        /\ \A x \in Regs(in) : OutsFrom(m, e, x)
    BY <1>1, <1>2, FromOn, OutsFromOn, BurnsNothing DEF CtrPost
  <1>4. PICK D, KV, N, R : /\ D = {"df"} /\ KV = {"K", "V"} /\ N = {} /\ R = D \union Inputs
    OBVIOUS
  <1>5. Keeps(m, d, KV, R, KV, D) /\ Keeps(d, g, KV, D, KV, D) /\ Burns(d, g, KV, D, KV, D)
        /\ Keeps(g, e, KV, D, KV, D) /\ Keeps(g, e, KV, D, N, Lasting)
    BY <1>4 DEF CtrPre, CtrRuns, CtrPost
  <1>6. Keeps(m, g, KV, R, KV, D) /\ Burns(m, g, KV, R, KV, D)
    BY <1>1, <1>5, KeepsOn, BurnsAfter
  <1>7. Keeps(m, e, KV, R, KV, D)
    BY <1>1, <1>5, <1>6, KeepsOn
  <1>8. Burns(m, e, KV, R, N, Lasting)
    <2>1. Burns(g, e, KV, D, N, Lasting)
      BY <1>1, BurnsNothing
    <2>. QED BY <1>1, <1>5, <1>6, <2>1, BurnsOn
  <1>9. AtRest("ctr", e)
    BY CtrSets DEF CtrPost
  <1>10. \A m1, m2 : Idle("ctr", m1, m2)
    BY IdleElse
  <1>. QED BY <1>1, <1>3, <1>4, <1>7, <1>8, <1>9, <1>10, CtrSets DEF Generation

LEMMA CtrGenerateIs ==
  ASSUME NEW m, IsMachine(m), AtRest("ctr", m), NEW n \in Nat, NEW in, IsInput(in)
  PROVE  Generation("ctr", m, CtrDrbgGenerate(m, n, in), in)
  <1>1. m.ctr # 0 /\ CtrReady(m)
    BY CtrSets
  <1>2. PICK d : d = IF in = <<>> THEN m ELSE CtrUpdate(m, in, 2)
    OBVIOUS
  <1>3. CtrPre(m, d, in)
    <2>1. CASE in = <<>>
      <3>1. Regs(in) = {} /\ d = m
        BY <1>2, <2>1 DEF Regs
      <3>2. Leads(m, m) /\ From(m, m, "K", "K")
        BY LeadsItself, CountsItself DEF From
      <3>3. PICK KV, D, R : KV = {"K", "V"} /\ D = {"df"} /\ R = D \union Inputs
        OBVIOUS
      <3>4. KV \subseteq KV /\ D \subseteq R /\ R \subseteq R
        BY <3>3
      <3>5. Keeps(m, m, KV, R, KV, D)
        BY <3>4, KeepsItself, KeepsLess
      <3>. QED BY <1>1, <3>1, <3>2, <3>3, <3>5 DEF CtrPre
    <2>2. CASE in # <<>>
      BY <1>1, <1>2, <2>2, UpdateWith
    <2>. QED BY <2>1, <2>2
  <1>4. IsMachine(d) /\ CtrReady(d) /\ d.ctr # 0
    BY <1>3, LeadsTyped DEF CtrPre
  <1>5. PICK g : g = CtrBlocks(d, n)
    OBVIOUS
  <1>6. CtrRuns(d, g) /\ IsMachine(g) /\ CtrReady(g)
    BY <1>4, <1>5, CtrBlocksIs, LeadsTyped DEF CtrRuns
  <1>7. PICK e : e = CtrUpdate(g, <<>>, 3)
    OBVIOUS
  <1>8. CtrPost(g, e)
    BY <1>6, <1>7, UpdateLast
  <1>9. CtrDrbgGenerate(m, n, in) = IF n = 0 THEN d ELSE e
    <2>1. CtrDrbgGenerate(m, n, in) =
            IF n = 0 THEN (IF in = <<>> THEN m ELSE CtrUpdate(m, in, 2))
            ELSE CtrUpdate(CtrBlocks(IF in = <<>> THEN m ELSE CtrUpdate(m, in, 2), n), <<>>, 3)
      BY Zenon DEF CtrDrbgGenerate
    <2>. QED BY ONLY <1>2, <1>5, <1>7, <2>1, Zenon
  <1>. QED BY <1>3, <1>6, <1>8, <1>9, CtrEmpty, CtrCall

LEMMA CtrSeedIs ==
  ASSUME NEW m, IsMachine(m), NEW in, IsInput(in), "in" \in Regs(in),
         UsedBy(m.table, m.reg["in"], {})
  PROVE  Seeding("ctr", m, CtrSeed(m, in), in)
  <1>1. PICK re : re = IF m.seeded THEN 1 ELSE 0
    OBVIOUS
  <1>2. re # 2 /\ in # <<>>
    BY <1>1 DEF Regs
  <1>3. PICK at \in Nat : at = IF re = 0 THEN m.ctr + 1 ELSE m.ctr
    BY DEF IsMachine
  <1>4. PICK d : d = Execute(m, CtrDerive(in, re))
    OBVIOUS
  <1>5. CtrDerive(in, re) \in Seq(Instruction) /\ IsMachine(d) /\ Turn(m, d, "df", F("df"), in)
    BY <1>2, <1>4, CtrDeriveIs
  <1>6. PICK f : f = F("df")
    OBVIOUS
  <1>7. Turn(m, d, "df", f, in)
    BY <1>5, <1>6
  <1>8. "df" \in Registers /\ "K" \in Registers /\ "V" \in Registers /\ "K" # "df" /\ "V" # "df"
    BY DEF Registers
  <1>9. Fresh(m, f, in)
    BY FreshUnused
  <1>10. /\ Leads(m, d) /\ d.out = m.out /\ UsedBy(d.table, d.reg["df"], {})
         /\ d.reg["K"] # d.reg["df"] /\ d.reg["V"] # d.reg["df"]
         /\ From(m, d, "K", "K") /\ \A x \in Regs(in) : From(m, d, x, "df")
    BY <1>7, <1>8, <1>9, TurnIs, TurnFresh
  <1>11. PICK I, R, D, Z, KV, N : /\ I = {"in"} /\ R = Registers \ {"in"} /\ D = {"df"}
                                  /\ Z = Registers \ {"in", "df"} /\ KV = {"K", "V"} /\ N = {}
    OBVIOUS
  <1>12. Keeps(m, d, I, R, D, Z)
    <2>1. /\ I \subseteq Registers /\ R \subseteq Registers /\ "in" \in I
          /\ D \subseteq I \union {"df"} /\ Z \subseteq R \ {"df"}
      BY <1>11 DEF Registers
    <2>. QED BY <1>7, <1>9, <2>1, TurnHides
  <1>13. PICK e : e = Execute(d, CtrCore(at))
    OBVIOUS
  <1>14. CtrRekeys(d, e) /\ CtrRekeysFrom(d, e)
    BY <1>5, <1>10, <1>13, CoreSeeded
  <1>15. /\ Leads(d, e) /\ e.out = d.out /\ IsMachine(e)
         /\ UsedBy(e.table, e.reg["K"], {}) /\ From(d, e, "K", "K") /\ From(d, e, "df", "K")
         /\ Keeps(d, e, D, Z, KV, N)
    BY <1>11, <1>14, LeadsTyped DEF CtrRekeys, CtrRekeysFrom
  <1>16. PICK g : g = Execute(e, CtrClear(re))
    OBVIOUS
  <1>17. CtrClear(re) \in Seq(Instruction) /\ \E of : Turn(e, g, "df", F("zero"), of) /\ Regs(of) = {}
    BY <1>2, <1>15, <1>16, CtrClearIs
  <1>18. PICK x : x = CtrUpdate(m, in, re)
    OBVIOUS
  <1>19. x = [g EXCEPT !.ctr = 1]
    BY <1>3, <1>4, <1>5, <1>13, <1>16, <1>17, <1>18, CtrUpdateParts
  <1>20. CtrClears(e, x)
    BY <1>15, <1>17, <1>19 DEF CtrClears
  <1>21. /\ Leads(e, x) /\ x.out = e.out /\ CtrReady(x) /\ x.ctr = 1
         /\ From(e, x, "K", "K") /\ IsMachine(x)
         /\ \A X, S : X \subseteq Registers \ {"df"} /\ S \subseteq Registers =>
              Keeps(e, x, X, S, X, S \union {"df"})
    BY <1>20, ClearsIs
  <1>22. Keeps(e, x, KV, N, KV, D)
    <2>1. KV \subseteq Registers \ {"df"} /\ N \subseteq Registers /\ N \union {"df"} = D
      BY <1>11 DEF Registers
    <2>. QED BY <1>21, <2>1
  <1>23. Leads(m, e) /\ Leads(m, x) /\ x.out = m.out
    BY <1>10, <1>15, <1>21, LeadsOn
  <1>24. Keeps(m, x, I, R, KV, D)
    <2>1. Keeps(m, e, I, R, KV, N)
      BY <1>10, <1>12, <1>15, KeepsOn
    <2>. QED BY <1>21, <1>22, <1>23, <2>1, KeepsOn
  <1>25. From(m, x, "K", "K") /\ \A y \in Regs(in) : From(m, x, y, "K")
    <2>1. From(m, e, "K", "K") /\ \A y \in Regs(in) : From(m, e, y, "K")
      BY <1>8, <1>10, <1>15, FromOn
    <2>. QED BY <1>8, <1>21, <1>23, <2>1, FromOn
  <1>26. PICK w : w = [x EXCEPT !.seeded = TRUE]
    OBVIOUS
  <1>27. Same(x, w) /\ w.seeded /\ w.ctr = x.ctr
    BY <1>21, <1>26, SameSeeded
  <1>28. CtrSeed(m, in) = w
    BY <1>1, <1>18, <1>26 DEF CtrSeed
  <1>29. /\ Leads(m, w) /\ From(m, w, "K", "K") /\ (\A y \in Regs(in) : From(m, w, y, "K"))
         /\ Keeps(m, w, I, R, KV, D) /\ w.out = m.out
    BY <1>23, <1>24, <1>25, <1>27, SameIs DEF Same
  <1>30. w.ctr # 0 /\ CtrReady(w)
    BY <1>21, <1>27 DEF CtrReady, Same
  <1>31. \A m1, m2 : Idle("ctr", m1, m2)
    BY IdleElse
  <1>. QED BY <1>11, <1>27, <1>28, <1>29, <1>30, <1>31, CtrSets DEF Seeding

-----------------------------------------------------------------------------
(* The inputs of a call.                                                   *)

\* The next input of the caller goes into a register.
Entered(m, d, to, kind, n) ==
  /\ IsMachine(m) /\ n \in Nat /\ to \in Inputs /\ kind \in {"seed", "public"}
  /\ d = Store(m, to, Term(<<kind, n>>, <<>>))

LEMMA EnteredStored ==
  ASSUME NEW m, NEW d, NEW to, NEW kind, NEW n, Entered(m, d, to, kind, n)
  PROVE  \E id \in Nat : \E v : /\ Stored(m, d, to, v, id) /\ v.f[1] = kind /\ v.f[2] = n
                                /\ Args(v) = {} /\ to \in Registers /\ to \notin Lasting
                                /\ to # "out"
  <1>1. PICK f : f = <<kind, n>>
    OBVIOUS
  <1>2. f \in Names /\ f[1] = kind /\ f[2] = n
    <2>1. kind \in Words /\ n \in Nat
      BY DEF Entered, Words
    <2>. QED BY <1>1, <2>1, NameIs
  <1>3. PICK v : v = Term(f, <<>>)
    OBVIOUS
  <1>4. v \in AnyTerm /\ v.f = f /\ Args(v) = {}
    <2>1. v = [f |-> f, of |-> <<>>]
      BY <1>3 DEF Term
    <2>2. <<>> \in Seq(Nat)
      OBVIOUS
    <2>3. v \in AnyTerm
      BY <1>2, <2>1, <2>2 DEF AnyTerm
    <2>4. v.f = f /\ v.of = <<>>
      BY <2>1
    <2>5. DOMAIN v.of = {}
      BY <2>4
    <2>. QED BY <2>3, <2>4, <2>5 DEF Args
  <1>5. to \in Registers /\ to \notin Lasting /\ to # "out"
    BY DEF Entered, Inputs, Registers, Lasting
  <1>6. PICK id \in Nat : Stored(m, d, to, v, id)
    <2>1. IsMachine(m) /\ d = Store(m, to, v)
      BY <1>1, <1>3 DEF Entered
    <2>2. Args(v) \subseteq 1..Len(m.table)
      BY <1>4
    <2>. QED BY <1>4, <1>5, <2>1, <2>2, StoreIs
  <1>. QED BY <1>2, <1>4, <1>5, <1>6

LEMMA EnteredIs ==
  ASSUME NEW m, NEW d, NEW to, NEW kind, NEW n, Entered(m, d, to, kind, n)
  PROVE  /\ IsMachine(d) /\ Extends(m.table, d.table)
         /\ \A r \in Registers : r # to => d.reg[r] = m.reg[r]
         /\ d.seeded = m.seeded /\ d.ctr = m.ctr /\ d.nonce = m.nonce /\ d.out = m.out
         /\ \A x, W : UsedBy(m.table, x, W) => UsedBy(d.table, x, W)
         /\ InputsBefore(m.table, n) \/ InputsBefore(m.table, n + 1) => InputsBefore(d.table, n + 1)
         /\ to \in Registers /\ to \notin Lasting
  <1>1. PICK id, v : /\ id \in Nat /\ Stored(m, d, to, v, id) /\ v.f[1] = kind /\ v.f[2] = n
                     /\ Args(v) = {} /\ to \in Registers /\ to \notin Lasting
                     /\ to # "out"
    BY EnteredStored
  <1>2. IsMachine(m) /\ n \in Nat
    BY DEF Entered
  <1>3. \A x, W : UsedBy(m.table, x, W) => UsedBy(d.table, x, W)
    <2>1. \A x : x \notin Args(v)
      BY <1>1
    <2>. QED BY <1>1, <1>2, <2>1, UsedAfter
  <1>4. ASSUME InputsBefore(m.table, n) \/ InputsBefore(m.table, n + 1)
        PROVE  InputsBefore(d.table, n + 1)
    <2>1. 0..(n - 1) \subseteq 0..((n + 1) - 1) /\ n \in 0..((n + 1) - 1)
      BY <1>2
    <2>2. \A i \in 1..Len(m.table) : m.table[i].f[1] \in {"seed", "public"} =>
            m.table[i].f[2] \in 0..((n + 1) - 1)
      BY <1>1, <1>2, <1>4, <2>1, EntriesOf DEF InputsBefore
    <2>3. ASSUME NEW i \in DOMAIN d.table, d.table[i].f[1] \in {"seed", "public"}
          PROVE  d.table[i].f[2] \in 0..((n + 1) - 1)
      <3>1. \/ i \in 1..Len(m.table) /\ d.table[i] = m.table[i]
            \/ d.table[i] = v
        BY <1>1, <1>2, EntriesOf
      <3>2. CASE i \in 1..Len(m.table) /\ d.table[i] = m.table[i]
        BY <2>2, <2>3, <3>2
      <3>3. CASE d.table[i] = v
        BY <1>1, <2>1, <3>3
      <3>. QED BY <3>1, <3>2, <3>3
    <2>. QED BY <2>3 DEF InputsBefore
  <1>. QED BY <1>1, <1>2, <1>3, <1>4, EntriesOf DEF Stored

\* A value the caller knows, or a new one, tells nothing of older values.
LEMMA EnteredFree ==
  ASSUME NEW m, NEW d, NEW to, NEW kind, NEW n, Entered(m, d, to, kind, n),
         kind = "public" \/ InputsBefore(m.table, n), NEW P, Sealed(m.table, P)
  PROVE  Sealed(d.table, P) /\ d.reg[to] \notin P
  <1>1. PICK id, v : /\ id \in Nat /\ Stored(m, d, to, v, id) /\ v.f[1] = kind /\ v.f[2] = n
                     /\ Args(v) = {} /\ to \in Registers /\ to \notin Lasting
                     /\ to # "out"
    BY EnteredStored
  <1>2. IsMachine(m) /\ n \in Nat /\ kind \in {"seed", "public"}
    BY DEF Entered
  <1>3. d.reg[to] = id
    BY <1>1 DEF Stored
  <1>4. CASE kind = "public"
    <2>1. Apart(v, P) /\ v.f[1] # "seed"
      BY <1>1, <1>4 DEF Apart
    <2>. QED BY <1>1, <1>2, <1>3, <2>1, Shown
  <1>5. CASE InputsBefore(m.table, n)
    <2>1. IsNew(m.table, v)
      <3>1. n \notin 0..(n - 1)
        BY <1>2
      <3>. QED BY <1>1, <1>2, <1>5, <3>1 DEF InputsBefore, IsNew
    <2>2. id = Len(m.table) + 1
      BY <1>1, <1>2, <2>1, StoredNew
    <2>3. ~ Opens(v.f)
      BY <1>1, <1>2 DEF Opens
    <2>. QED BY <1>1, <1>2, <1>3, <2>2, <2>3, ShownNew
  <1>. QED BY <1>4, <1>5

\* A seed is new: nothing was made from it, and it may be hidden.
LEMMA EnteredSeed ==
  ASSUME NEW m, NEW d, NEW to, NEW n, Entered(m, d, to, "seed", n), InputsBefore(m.table, n)
  PROVE  /\ d.reg[to] = Len(m.table) + 1 /\ Len(m.table) \in Nat
         /\ UsedBy(d.table, d.reg[to], {})
         /\ Sealed(d.table, {d.reg[to]})
  <1>1. PICK id, v : /\ id \in Nat /\ Stored(m, d, to, v, id) /\ v.f[1] = "seed" /\ v.f[2] = n
                     /\ Args(v) = {} /\ to \in Registers /\ to \notin Lasting
                     /\ to # "out"
    BY EnteredStored
  <1>2. IsMachine(m) /\ n \in Nat
    BY DEF Entered
  <1>3. d.reg[to] = id
    BY <1>1 DEF Stored
  <1>4. IsNew(m.table, v)
    <2>1. n \notin 0..(n - 1)
      BY <1>2
    <2>. QED BY <1>1, <1>2, <2>1 DEF InputsBefore, IsNew
  <1>5. id = Len(m.table) + 1 /\ Len(m.table) \in Nat
    BY <1>1, <1>2, <1>4, StoredNew
  <1>6. UsedBy(d.table, id, {})
    BY <1>1, <1>2, <1>5, NewUnused
  <1>7. Sealed(d.table, {id})
    <2>1. PICK P, Q : P = {} /\ Q = P \union {id}
      OBVIOUS
    <2>2. Sealed(m.table, P)
      BY <1>2, <2>1, NothingSealed DEF IsMachine
    <2>3. v.f[1] = "seed" \/ ~ Apart(v, P)
      BY <1>1
    <2>4. Stored(m, d, to, v, id) /\ IsMachine(m) /\ id = Len(m.table) + 1 /\ Q = P \union {id}
      BY <1>1, <1>2, <1>5, <2>1
    <2>5. Sealed(d.table, Q)
      BY ONLY <2>2, <2>3, <2>4, Hidden
    <2>. QED BY <2>1, <2>5
  <1>. QED BY <1>3, <1>5, <1>6, <1>7

\* A machine as it is between calls, when n of them were made.
Resting(m, n) ==
  /\ IsMachine(m) /\ m.out = <<>> /\ InputsBefore(m.table, n)
  /\ \A r \in Registers \ Lasting : m.reg[r] = 1

LEMMA DoneIs ==
  ASSUME NEW d, IsMachine(d), NEW e, e = Done(d)
  PROVE  /\ IsMachine(e) /\ e.table = d.table /\ e.out = <<>>
         /\ e.seeded = d.seeded /\ e.ctr = d.ctr /\ e.nonce = d.nonce
         /\ \A r \in Lasting : e.reg[r] = d.reg[r]
         /\ \A r \in Registers \ Lasting : e.reg[r] = 1
  <1>1. PICK g : g = [r \in Registers |-> IF r \in {"K", "V", "df"} THEN d.reg[r] ELSE 1]
    OBVIOUS
  <1>2. e = [d EXCEPT !.reg = g, !.out = <<>>]
    BY <1>1 DEF Done
  <1>3. /\ e.table = d.table /\ e.out = <<>> /\ e.reg = g
        /\ e.seeded = d.seeded /\ e.ctr = d.ctr /\ e.nonce = d.nonce
        /\ e = [table |-> d.table, reg |-> g, seeded |-> d.seeded, ctr |-> d.ctr,
                nonce |-> d.nonce, out |-> <<>>]
    BY <1>2 DEF IsMachine
  <1>4. /\ \A r \in Lasting : g[r] = d.reg[r]
        /\ \A r \in Registers \ Lasting : g[r] = 1
    BY <1>1 DEF Lasting, Registers
  <1>5. g \in [Registers -> Nat] /\ \A r \in Registers : g[r] \in 1..Len(d.table)
    <2>1. 1 \in 1..Len(d.table) /\ 1 \in Nat
      BY TableIs DEF IsMachine
    <2>2. \A r \in Registers : d.reg[r] \in 1..Len(d.table) /\ d.reg[r] \in Nat
      BY DEF IsMachine
    <2>3. \A r \in Registers : g[r] \in 1..Len(d.table) /\ g[r] \in Nat
      BY <1>1, <2>1, <2>2
    <2>. QED BY <1>1, <2>3
  <1>6. IsMachine(e)
    <2>1. <<>> \in Seq(Nat)
      OBVIOUS
    <2>. QED BY <1>3, <1>5, <2>1 DEF IsMachine
  <1>. QED BY <1>3, <1>4, <1>6

Kinds == {"xof", "hash", "hmac", "ctr", "chacha"}

LEMMA AtRestOn ==
  ASSUME NEW g \in Kinds, NEW m, NEW d, AtRest(g, m),
         \A x, W : UsedBy(m.table, x, W) => UsedBy(d.table, x, W),
         \A r \in Lasting : d.reg[r] = m.reg[r], d.ctr = m.ctr
  PROVE  AtRest(g, d)
  <1>1. d.reg["K"] = m.reg["K"] /\ d.reg["V"] = m.reg["V"]
    BY DEF Lasting
  <1>2. CASE g = "xof"
    BY <1>1, <1>2 DEF AtRest
  <1>3. CASE g = "hash"
    BY <1>1, <1>3 DEF AtRest
  <1>4. CASE g = "hmac"
    BY <1>1, <1>4 DEF AtRest
  <1>5. CASE g = "ctr"
    BY <1>1, <1>5 DEF AtRest
  <1>6. CASE g = "chacha"
    BY <1>1, <1>6 DEF AtRest
  <1>. QED BY <1>2, <1>3, <1>4, <1>5, <1>6 DEF Kinds

-----------------------------------------------------------------------------
(* The generators.                                                         *)

LEMMA SeededIs ==
  ASSUME drbg \in Kinds, NEW m, IsMachine(m), NEW in, IsInput(in), "in" \in Regs(in),
         UsedBy(m.table, m.reg["in"], {}), drbg = "chacha" => in = <<"in">>
  PROVE  Seeding(drbg, m, Seeded(m, in), in)
  <1>1. CASE drbg = "xof"
    <2>1. Seeded(m, in) = XofSeed(m, in)
      BY <1>1 DEF Seeded
    <2>. QED BY <1>1, <2>1, XofSeedIs
  <1>2. CASE drbg = "hash"
    <2>1. Seeded(m, in) = HashSeed(m, in)
      BY <1>2 DEF Seeded
    <2>. QED BY <1>2, <2>1, HashSeedIs
  <1>3. CASE drbg = "hmac"
    <2>1. Seeded(m, in) = HmacSeed(m, in)
      BY <1>3 DEF Seeded
    <2>. QED BY <1>3, <2>1, HmacSeedIs
  <1>4. CASE drbg = "ctr"
    <2>1. Seeded(m, in) = CtrSeed(m, in)
      BY <1>4 DEF Seeded
    <2>. QED BY <1>4, <2>1, CtrSeedIs
  <1>5. CASE drbg = "chacha"
    <2>1. Seeded(m, in) = ChaChaSeed(m, in)
      BY <1>5 DEF Seeded
    <2>. QED BY <1>5, <2>1, ChaChaSeedIs
  <1>. QED BY <1>1, <1>2, <1>3, <1>4, <1>5 DEF Kinds

LEMMA GeneratesIs ==
  ASSUME drbg \in Kinds, NEW m, IsMachine(m), m.seeded, AtRest(drbg, m), NEW n \in Nat,
         NEW in, IsInput(in), drbg = "chacha" => in = <<>>
  PROVE  Generation(drbg, m, Generates(m, n, in), in)
  <1>1. CASE drbg = "xof"
    <2>1. Generates(m, n, in) = XofGenerate(m, n, in)
      BY <1>1 DEF Generates
    <2>. QED BY <1>1, <2>1, XofGenerateIs
  <1>2. CASE drbg = "hash"
    <2>1. Generates(m, n, in) = HashGenerate(m, n, in)
      BY <1>2 DEF Generates
    <2>. QED BY <1>2, <2>1, HashGenerateIs
  <1>3. CASE drbg = "hmac"
    <2>1. Generates(m, n, in) = HmacGenerate(m, n, in)
      BY <1>3 DEF Generates
    <2>. QED BY <1>3, <2>1, HmacGenerateIs
  <1>4. CASE drbg = "ctr"
    <2>1. Generates(m, n, in) = CtrDrbgGenerate(m, n, in)
      BY <1>4 DEF Generates
    <2>. QED BY <1>4, <2>1, CtrGenerateIs
  <1>5. CASE drbg = "chacha"
    <2>1. Generates(m, n, in) = ChaChaGenerate(m, n, in)
      BY <1>5 DEF Generates
    <2>. QED BY <1>5, <2>1, ChaChaGenerateIs
  <1>. QED BY <1>1, <1>2, <1>3, <1>4, <1>5 DEF Kinds

-----------------------------------------------------------------------------
(* From one call to the next.                                              *)

\* c is m with the inputs of call n in its registers.
Prepared(m, c, n) ==
  /\ IsMachine(m) /\ IsMachine(c) /\ Extends(m.table, c.table)
  /\ \A r \in Lasting : c.reg[r] = m.reg[r]
  /\ c.seeded = m.seeded /\ c.ctr = m.ctr /\ c.out = m.out /\ m.out = <<>>
  /\ \A x, W : UsedBy(m.table, x, W) => UsedBy(c.table, x, W)
  /\ InputsBefore(c.table, n + 1)
  /\ \A P : Sealed(m.table, P) =>
       Sealed(c.table, P) /\ \A r \in Registers \ Lasting : c.reg[r] \notin P

\* P hides the memory but none of O; or o, but not the others of O.
Held(g, m, b, O) == \E P : Colours(m, P, Secret(g, b), Public(g, b)) /\ \A o \in O : o \notin P
Gone(m, O, o) == \E P : /\ Colours(m, P, {}, Lasting) /\ o \in P
                        /\ \A x \in O : x # o => x \notin P

\* What goes into a call through the registers of in.
Fed(c, in) == {c.reg[r] : r \in Regs(in)}

\* c holds a new seed, which can be hidden.
Seedable(m, c, id) ==
  /\ id = c.reg["in"] /\ id \notin 1..Len(m.table) /\ id \in 1..Len(c.table)
  /\ Colours(c, {id}, {"in"}, Registers \ {"in"})

Known(g, m, s) ==
  /\ s \in SUBSET Nat
  /\ m.seeded => AtRest(g, m) /\ Counts(m.table, m.reg[Key(g)], s)
  /\ ~ m.seeded => s = {}

Kept(g, m, O) == /\ m.seeded => \A b \in BOOLEAN : Held(g, m, b, O)
                 /\ \A o \in O : Gone(m, O, o)

LEMMA OneShown ==
  ASSUME NEW T, IsTable(T), NEW P, Sealed(T, P) PROVE 1 \notin P
  BY TableIs DEF Sealed, Apart

LEMMA Areas ==
  /\ Lasting \subseteq Registers /\ Inputs \subseteq Registers \ Lasting
  /\ "in" \in Inputs /\ "opt" \in Inputs /\ "out" \in Registers \ Lasting
  /\ "K" \in Lasting /\ "V" \in Lasting
  BY DEF Lasting, Registers, Inputs

LEMMA SecretIs ==
  ASSUME NEW g \in Kinds, NEW b \in BOOLEAN
  PROVE  /\ Secret(g, b) \subseteq Lasting /\ Public(g, b) \subseteq Lasting
         /\ Key(g) \in Lasting
         /\ \A r \in Lasting : r \in Secret(g, b) \/ r \in Public(g, b)
  <1>1. Secret(g, b) \subseteq Lasting
    <2>1. CASE g = "xof"
      BY <2>1 DEF Secret, Lasting
    <2>2. CASE g = "hash"
      BY <2>2 DEF Secret, Lasting
    <2>3. CASE g = "hmac"
      BY <2>3 DEF Secret, Lasting
    <2>4. CASE g = "ctr"
      BY <2>4 DEF Secret, Lasting
    <2>5. CASE g = "chacha"
      BY <2>5 DEF Secret, Lasting
    <2>. QED BY <2>1, <2>2, <2>3, <2>4, <2>5 DEF Kinds
  <1>2. Key(g) \in Lasting
    BY DEF Key, Lasting
  <1>. QED BY <1>1, <1>2 DEF Public

LEMMA PreparedItself ==
  ASSUME NEW m, NEW n \in Nat, Resting(m, n)
  PROVE  Prepared(m, m, n)
  <1>1. IsMachine(m) /\ IsTable(m.table) /\ Extends(m.table, m.table)
    BY ExtendsItself DEF Resting, IsMachine
  <1>2. InputsBefore(m.table, n + 1)
    <2>1. \A k \in 0..(n - 1) : k \in 0..((n + 1) - 1)
      OBVIOUS
    <2>. QED BY <2>1 DEF Resting, InputsBefore
  <1>3. \A P : Sealed(m.table, P) => \A r \in Registers \ Lasting : m.reg[r] \notin P
    BY <1>1, OneShown DEF Resting
  <1>. QED BY <1>1, <1>2, <1>3 DEF Prepared, Resting

LEMMA PreparedOn ==
  ASSUME NEW m, NEW c, NEW n, NEW d, NEW to, NEW kind, Prepared(m, c, n),
         Entered(c, d, to, kind, n), kind = "public" \/ InputsBefore(c.table, n)
  PROVE  Prepared(m, d, n)
  <1>1. /\ IsMachine(d) /\ Extends(c.table, d.table)
        /\ \A r \in Registers : r # to => d.reg[r] = c.reg[r]
        /\ d.seeded = c.seeded /\ d.ctr = c.ctr /\ d.out = c.out
        /\ \A x, W : UsedBy(c.table, x, W) => UsedBy(d.table, x, W)
        /\ InputsBefore(d.table, n + 1) /\ to \in Registers /\ to \notin Lasting
    <2>1. InputsBefore(c.table, n + 1)
      BY DEF Prepared
    <2>. QED BY <2>1, EnteredIs
  <1>2. Extends(m.table, d.table)
    BY <1>1, ExtendsOn DEF Prepared, IsMachine
  <1>3. \A r \in Lasting : d.reg[r] = m.reg[r]
    BY <1>1, Areas DEF Prepared
  <1>4. ASSUME NEW P, Sealed(m.table, P)
        PROVE  Sealed(d.table, P) /\ \A r \in Registers \ Lasting : d.reg[r] \notin P
    <2>1. Sealed(c.table, P) /\ \A r \in Registers \ Lasting : c.reg[r] \notin P
      BY <1>4 DEF Prepared
    <2>2. Sealed(d.table, P) /\ d.reg[to] \notin P
      BY <2>1, EnteredFree
    <2>. QED BY <1>1, <2>1, <2>2
  <1>. QED BY <1>1, <1>2, <1>3, <1>4 DEF Prepared

\* What is hidden without touching the memory stays so, and what is put out is
\* something else.
LEMMA StaysGone ==
  ASSUME NEW m, NEW c, NEW n, Prepared(m, c, n), NEW d, Leads(c, d), NEW e, e = Done(d),
         NEW P, Colours(m, P, {}, Lasting)
  PROVE  Colours(e, P, {}, Lasting) /\ \A k \in NewOut(c, d) : d.out[k] \notin P
  <1>1. Sealed(c.table, P) /\ \A r \in Registers \ Lasting : c.reg[r] \notin P
    BY DEF Prepared, Colours
  <1>2. \A r \in Lasting : c.reg[r] \notin P
    BY DEF Prepared, Colours
  <1>3. Free(c, P)
    <2>1. c.out = <<>>
      BY DEF Prepared
    <2>2. DOMAIN c.out = {}
      BY <2>1
    <2>. QED BY <1>1, <1>2, <2>2 DEF Free
  <1>4. Free(d, P)
    BY <1>3 DEF Leads, Fits
  <1>5. IsMachine(d) /\ \A k \in NewOut(c, d) : k \in DOMAIN d.out
    <2>1. IsMachine(d) /\ Len(c.out) \in Nat /\ Len(d.out) \in Nat
      BY LeadsTyped
    <2>2. DOMAIN d.out = 1..Len(d.out)
      BY <2>1 DEF IsMachine
    <2>3. \A k \in NewOut(c, d) : k \in 1..Len(d.out)
      BY <2>1 DEF NewOut
    <2>. QED BY <2>1, <2>2, <2>3
  <1>6. e.table = d.table /\ \A r \in Lasting : e.reg[r] = d.reg[r]
    BY <1>5, DoneIs
  <1>. QED BY <1>4, <1>5, <1>6, Areas DEF Free, Colours

LEMMA PreparedColours ==
  ASSUME NEW g \in Kinds, NEW b \in BOOLEAN, NEW m, NEW c, NEW n, Prepared(m, c, n), NEW P,
         Colours(m, P, Secret(g, b), Public(g, b))
  PROVE  Colours(c, P, Secret(g, b), Public(g, b) \union Inputs)
  <1>1. Sealed(c.table, P) /\ \A r \in Registers \ Lasting : c.reg[r] \notin P
    BY DEF Prepared, Colours
  <1>2. \A r \in Lasting : c.reg[r] = m.reg[r]
    BY DEF Prepared
  <1>3. \A r \in Secret(g, b) : c.reg[r] \in P
    BY <1>2, SecretIs DEF Colours
  <1>4. \A r \in Public(g, b) : c.reg[r] \notin P
    BY <1>2, SecretIs DEF Colours
  <1>5. \A r \in Inputs : c.reg[r] \notin P
    BY <1>1, Areas
  <1>. QED BY <1>1, <1>3, <1>4, <1>5 DEF Colours

\* The outputs of a call.
Among(o, k) == {o[i] : i \in 1..k}
NewIds(d) == Among(d.out, Len(d.out))

LEMMA DoneColours ==
  ASSUME NEW d, IsMachine(d), NEW e, e = Done(d), NEW P, NEW X, NEW R,
         X \subseteq Lasting, R \subseteq Lasting, Colours(d, P, X, R)
  PROVE  Colours(e, P, X, R)
  <1>1. e.table = d.table /\ \A r \in Lasting : e.reg[r] = d.reg[r]
    BY DoneIs
  <1>. QED BY <1>1 DEF Colours

LEMMA PreparedOuts ==
  ASSUME NEW m, NEW c, NEW n, Prepared(m, c, n), NEW d, Leads(c, d)
  PROVE  /\ NewOut(c, d) = 1..Len(d.out) /\ Len(d.out) \in Nat
         /\ DOMAIN d.out = 1..Len(d.out)
         /\ \A k \in NewOut(c, d) : d.out[k] \in 1..Len(d.table) /\ d.out[k] > Len(m.table)
         /\ Len(m.table) \in Nat /\ Extends(m.table, d.table)
         /\ \A i \in 1..Len(m.table) : i \in 1..Len(c.table) /\ i \in 1..Len(d.table)
  <1>1. c.out = <<>>
    BY DEF Prepared
  <1>2. Len(c.out) = 0
    BY <1>1
  <1>3. IsMachine(d) /\ IsMachine(c) /\ IsMachine(m)
    BY LeadsTyped DEF Prepared
  <1>4. Len(m.table) \in Nat /\ Len(c.table) \in Nat /\ Len(d.table) \in Nat
        /\ IsTable(m.table) /\ IsTable(c.table) /\ IsTable(d.table)
    BY <1>3, TableIs DEF IsMachine
  <1>5. Len(m.table) <= Len(c.table) /\ Len(c.table) <= Len(d.table)
    BY LeadsTyped DEF Prepared, Extends
  <1>6. Len(d.out) \in Nat /\ DOMAIN d.out = 1..Len(d.out)
    BY <1>3 DEF IsMachine
  <1>7. NewOut(c, d) = 1..Len(d.out)
    BY <1>2, <1>6 DEF NewOut
  <1>8. \A k \in NewOut(c, d) : d.out[k] \in 1..Len(d.table) /\ d.out[k] > Len(c.table)
    BY DEF Leads, Outs
  <1>9. \A k \in NewOut(c, d) : d.out[k] > Len(m.table)
    BY <1>4, <1>5, <1>8
  <1>10. Extends(m.table, d.table)
    BY <1>4, LeadsTyped, ExtendsOn DEF Prepared
  <1>. QED BY <1>4, <1>5, <1>6, <1>7, <1>8, <1>9, <1>10

\* The outputs tell neither the memory after a call nor one another.
LEMMA GenerationHides ==
  ASSUME NEW g \in Kinds, NEW m, NEW c, NEW n, Prepared(m, c, n), NEW in, NEW d,
         Generation(g, c, d, in), NEW e, e = Done(d),
         NEW O, O \subseteq 1..Len(m.table), m.seeded, Kept(g, m, O),
         NEW N, N = O \union NewIds(d)
  PROVE  Kept(g, e, N)
  <1>0. (\A b \in BOOLEAN : Held(g, m, b, O)) /\ \A o \in O : Gone(m, O, o)
    BY DEF Kept
  <1>1. /\ Leads(c, d) /\ IsMachine(d)
        /\ \A b \in BOOLEAN : Keeps(c, d, Secret(g, b), Public(g, b) \union Inputs,
                                    Secret(g, b), Public(g, b))
        /\ Burns(c, d, Secret(g, FALSE), Public(g, FALSE) \union Inputs, {}, Lasting)
    BY LeadsTyped DEF Generation
  <1>2. /\ NewOut(c, d) = 1..Len(d.out)
        /\ \A k \in NewOut(c, d) : d.out[k] > Len(m.table)
        /\ Len(m.table) \in Nat
        /\ \A o \in O : o \in 1..Len(m.table) /\ o \in 1..Len(c.table)
    BY <1>1, PreparedOuts
  <1>3. ASSUME NEW b \in BOOLEAN PROVE Held(g, e, b, N)
    <2>1. PICK P : Colours(m, P, Secret(g, b), Public(g, b)) /\ \A o \in O : o \notin P
      BY <1>0, <1>3 DEF Held
    <2>2. Colours(c, P, Secret(g, b), Public(g, b) \union Inputs)
      BY <1>3, <2>1, PreparedColours
    <2>3. PICK Q : Colours(d, Q, Secret(g, b), Public(g, b)) /\ Agrees(c, P, Q) /\ AllShown(c, d, Q)
      BY <1>1, <1>3, <2>2 DEF Keeps
    <2>4. Colours(e, Q, Secret(g, b), Public(g, b))
      BY <1>1, <1>3, <2>3, SecretIs, DoneColours
    <2>5. \A o \in O : o \notin Q
      BY <1>2, <2>1, <2>3 DEF Agrees
    <2>6. \A o \in NewIds(d) : o \notin Q
      BY <1>2, <2>3 DEF AllShown, NewIds, Among
    <2>. QED BY <2>4, <2>5, <2>6 DEF Held
  <1>4. ASSUME NEW o \in O PROVE Gone(e, N, o)
    <2>1. PICK P : Colours(m, P, {}, Lasting) /\ o \in P /\ \A x \in O : x # o => x \notin P
      BY <1>0, <1>4 DEF Gone
    <2>2. Colours(e, P, {}, Lasting) /\ \A k \in NewOut(c, d) : d.out[k] \notin P
      BY <1>1, <2>1, StaysGone
    <2>3. \A x \in NewIds(d) : x \notin P
      BY <1>2, <2>2 DEF NewIds, Among
    <2>. QED BY <2>1, <2>2, <2>3 DEF Gone
  <1>5. ASSUME NEW o \in NewIds(d) PROVE Gone(e, N, o)
    <2>1. PICK k \in NewOut(c, d) : o = d.out[k]
      BY <1>2, <1>5 DEF NewIds, Among
    <2>2. PICK P : Colours(m, P, Secret(g, FALSE), Public(g, FALSE)) /\ \A x \in O : x \notin P
      BY <1>0 DEF Held
    <2>3. Colours(c, P, Secret(g, FALSE), Public(g, FALSE) \union Inputs)
      BY <2>2, PreparedColours
    <2>4. PICK Q : Colours(d, Q, {}, Lasting) /\ Agrees(c, P, Q) /\ OneHidden(c, d, Q, k)
      BY <1>1, <2>1, <2>3 DEF Burns
    <2>5. Colours(e, Q, {}, Lasting)
      BY <1>1, <2>4, DoneColours
    <2>6. o \in Q
      BY <2>1, <2>4 DEF OneHidden
    <2>7. \A x \in O : x \notin Q
      BY <1>2, <2>2, <2>4 DEF Agrees
    <2>8. ASSUME NEW x \in NewIds(d), x # o PROVE x \notin Q
      <3>1. PICK j \in NewOut(c, d) : x = d.out[j]
        BY <1>2, <2>8 DEF NewIds, Among
      <3>2. j # k
        BY <2>1, <2>8, <3>1
      <3>. QED BY <2>4, <3>1, <3>2 DEF OneHidden
    <2>. QED BY <2>5, <2>6, <2>7, <2>8 DEF Gone
  <1>. QED BY <1>3, <1>4, <1>5 DEF Kept

\* After seeding, the outputs of before tell nothing of the memory.
LEMMA SeedingHides ==
  ASSUME NEW g \in Kinds, NEW m, NEW c, NEW n, Prepared(m, c, n), NEW in, NEW d,
         Seeding(g, c, d, in), NEW e, e = Done(d), NEW id, Seedable(m, c, id),
         NEW O, O \subseteq 1..Len(m.table), Kept(g, m, O)
  PROVE  Kept(g, e, O)
  <1>0. /\ id \notin 1..Len(m.table) /\ id \in 1..Len(c.table)
        /\ Colours(c, {id}, {"in"}, Registers \ {"in"})
        /\ \A o \in O : Gone(m, O, o)
    BY DEF Kept, Seedable
  <1>1. /\ Leads(c, d) /\ IsMachine(d)
        /\ \A b \in BOOLEAN : Keeps(c, d, {"in"}, Registers \ {"in"}, Secret(g, b), Public(g, b))
    BY LeadsTyped DEF Seeding
  <1>2. \A o \in O : o \in 1..Len(c.table) /\ o # id
    BY <1>0, <1>1, PreparedOuts
  <1>3. ASSUME NEW b \in BOOLEAN PROVE Held(g, e, b, O)
    <2>1. PICK Q : Colours(d, Q, Secret(g, b), Public(g, b)) /\ Agrees(c, {id}, Q)
      BY <1>0, <1>1, <1>3 DEF Keeps
    <2>2. Colours(e, Q, Secret(g, b), Public(g, b))
      BY <1>1, <1>3, <2>1, SecretIs, DoneColours
    <2>3. \A o \in O : o \notin Q
      BY <1>2, <2>1 DEF Agrees
    <2>. QED BY <2>2, <2>3 DEF Held
  <1>4. ASSUME NEW o \in O PROVE Gone(e, O, o)
    <2>1. PICK P : Colours(m, P, {}, Lasting) /\ o \in P /\ \A x \in O : x # o => x \notin P
      BY <1>0, <1>4 DEF Gone
    <2>2. Colours(e, P, {}, Lasting)
      BY <1>1, <2>1, StaysGone
    <2>. QED BY <2>1, <2>2 DEF Gone
  <1>. QED BY <1>3, <1>4 DEF Kept

-----------------------------------------------------------------------------
(* What was put out: different values, each made from all it has to be.    *)

Entry == [id : Nat, needs : SUBSET Nat]

History(T, p) ==
  /\ p \in Seq(Entry)
  /\ \A i \in DOMAIN p : p[i].id \in 1..Len(T) /\ Counts(T, p[i].id, p[i].needs)
  /\ \A i, j \in DOMAIN p : p[i].id = p[j].id => i = j

Ids(p) == {p[i].id : i \in DOMAIN p}

LEMMA HistoryLater ==
  ASSUME NEW T, NEW U, IsTable(T), IsTable(U), Extends(T, U), NEW p, History(T, p)
  PROVE  History(U, p)
  <1>1. \A i \in 1..Len(T) : i \in 1..Len(U)
    BY TableIs DEF Extends
  <1>2. ASSUME NEW i \in DOMAIN p PROVE p[i].id \in 1..Len(U) /\ Counts(U, p[i].id, p[i].needs)
    <2>1. p[i].id \in 1..Len(T) /\ Counts(T, p[i].id, p[i].needs)
      BY <1>2 DEF History
    <2>. QED BY <1>1, <2>1, CountsLater
  <1>. QED BY <1>2 DEF History

LEMMA CatIs ==
  ASSUME NEW S, NEW p \in Seq(S), NEW r \in Seq(S), NEW n \in Nat, n = Len(p),
         NEW k \in Nat, k = Len(r), NEW q, q = p \o r
  PROVE  /\ q \in Seq(S) /\ DOMAIN q = 1..(n + k)
         /\ \A i \in 1..n : q[i] = p[i]
         /\ \A i \in 1..k : q[n + i] = r[i]
  <1>1. q \in Seq(S) /\ Len(q) = n + k
    OBVIOUS
  <1>2. \A i \in 1..n : q[i] = p[i]
    OBVIOUS
  <1>3. \A i \in 1..k : q[n + i] = r[i]
    OBVIOUS
  <1>. QED BY <1>1, <1>2, <1>3

\* q is p with the k values of o added, which all need N.
Adds(p, q, o, k, N) ==
  /\ o \in Seq(Nat) /\ k \in Nat /\ k = Len(o)
  /\ q = p \o [i \in DOMAIN o |-> [id |-> o[i], needs |-> N]]

\* They were not in T, and differ.
Brings(T, U, o, k, N) ==
  /\ \A i \in 1..k : o[i] \in 1..Len(U) /\ o[i] > Len(T) /\ Counts(U, o[i], N)
  /\ \A i, j \in 1..k : o[i] = o[j] => i = j

LEMMA HistoryOn ==
  ASSUME NEW T, NEW U, IsTable(T), IsTable(U), Extends(T, U), NEW p, History(T, p),
         NEW o, NEW k, NEW N \in SUBSET Nat, NEW q, Adds(p, q, o, k, N), Brings(T, U, o, k, N)
  PROVE  History(U, q) /\ Ids(q) = Ids(p) \union Among(o, k)
  <1>0. /\ o \in Seq(Nat) /\ k \in Nat /\ k = Len(o)
        /\ \A i \in 1..k : o[i] \in 1..Len(U) /\ o[i] > Len(T) /\ Counts(U, o[i], N)
        /\ \A i, j \in 1..k : o[i] = o[j] => i = j
        /\ q = p \o [i \in DOMAIN o |-> [id |-> o[i], needs |-> N]]
    BY DEF Adds, Brings
  <1>1. History(U, p)
    BY HistoryLater
  <1>2. PICK new : new = [i \in 1..k |-> [id |-> o[i], needs |-> N]]
    OBVIOUS
  <1>3. new \in Seq(Entry) /\ Len(new) = k /\ \A i \in 1..k : new[i].id = o[i] /\ new[i].needs = N
    <2>1. \A i \in 1..k : [id |-> o[i], needs |-> N] \in Entry
      <3>1. \A i \in 1..k : o[i] \in Nat
        BY <1>0
      <3>. QED BY <3>1 DEF Entry
    <2>2. new \in [1..k -> Entry]
      BY <1>2, <2>1
    <2>3. \A i \in 1..k : new[i].id = o[i] /\ new[i].needs = N
      BY <1>2
    <2>4. k \in Nat
      BY <1>0
    <2>5. new \in Seq(Entry) /\ Len(new) = k
      BY ONLY <2>2, <2>4
    <2>. QED BY <2>3, <2>5
  <1>4. q = p \o new
    <2>1. DOMAIN o = 1..k
      BY <1>0
    <2>. QED BY <1>0, <1>2, <2>1
  <1>5. PICK n \in Nat : n = Len(p)
    BY DEF History
  <1>6. p \in Seq(Entry) /\ DOMAIN p = 1..n
    BY <1>5 DEF History
  <1>7. /\ q \in Seq(Entry) /\ DOMAIN q = 1..(n + k)
        /\ \A i \in 1..n : q[i] = p[i]
        /\ \A i \in 1..k : q[n + i] = new[i]
    <2>1. new \in Seq(Entry)
      BY <1>3
    <2>2. k = Len(new) /\ k \in Nat
      BY <1>0, <1>3
    <2>3. p \in Seq(Entry)
      BY <1>6
    <2>4. n = Len(p) /\ n \in Nat
      BY <1>5
    <2>. QED BY ONLY <1>4, <2>1, <2>2, <2>3, <2>4, CatIs
  <1>8. \A i \in DOMAIN q : \/ i \in 1..n /\ q[i] = p[i]
                            \/ i - n \in 1..k /\ q[i].id = o[i - n] /\ q[i].needs = N
    <2>. SUFFICES ASSUME NEW i \in DOMAIN q, i \notin 1..n
                  PROVE  i - n \in 1..k /\ q[i].id = o[i - n] /\ q[i].needs = N
      BY <1>7
    <2>1. i \in Int /\ i - n \in 1..k /\ i = n + (i - n)
      BY <1>0, <1>5, <1>7
    <2>2. q[i] = new[i - n]
      BY <1>7, <2>1
    <2>. QED BY <1>3, <2>1, <2>2
  <1>9. \A i \in DOMAIN q : q[i].id \in 1..Len(U) /\ Counts(U, q[i].id, q[i].needs)
    <2>1. \A i \in 1..n : p[i].id \in 1..Len(U) /\ Counts(U, p[i].id, p[i].needs)
      BY <1>1, <1>6 DEF History
    <2>. QED BY <1>0, <1>8, <2>1
  <1>10. \A i \in 1..n : p[i].id \in 1..Len(T)
    BY <1>6 DEF History
  <1>11. ASSUME NEW i \in DOMAIN q, NEW j \in DOMAIN q, q[i].id = q[j].id PROVE i = j
    <2>1. CASE i \in 1..n /\ j \in 1..n
      <3>1. p[i].id = p[j].id
        BY <1>7, <1>11, <2>1
      <3>. QED BY <1>6, <2>1, <3>1 DEF History
    <2>2. CASE i \in 1..n /\ j \notin 1..n
      <3>1. q[i].id \in 1..Len(T) /\ q[j].id > Len(T) /\ Len(T) \in Nat
        BY <1>0, <1>7, <1>8, <1>10, <2>2, TableIs
      <3>. QED BY <1>11, <3>1
    <2>3. CASE i \notin 1..n /\ j \in 1..n
      <3>1. q[j].id \in 1..Len(T) /\ q[i].id > Len(T) /\ Len(T) \in Nat
        BY <1>0, <1>7, <1>8, <1>10, <2>3, TableIs
      <3>. QED BY <1>11, <3>1
    <2>4. CASE i \notin 1..n /\ j \notin 1..n
      <3>1. /\ i - n \in 1..k /\ q[i].id = o[i - n]
            /\ j - n \in 1..k /\ q[j].id = o[j - n]
        BY <1>8, <2>4
      <3>2. i - n = j - n
        BY <1>0, <1>11, <3>1
      <3>. QED BY <1>7, <3>2
    <2>. QED BY <2>1, <2>2, <2>3, <2>4
  <1>12. Ids(q) = Ids(p) \union Among(o, k)
    <2>1. ASSUME NEW x \in Ids(q) PROVE x \in Ids(p) \union Among(o, k)
      <3>1. PICK i \in DOMAIN q : x = q[i].id
        BY <2>1 DEF Ids
      <3>2. CASE i \in 1..n /\ q[i] = p[i]
        BY <1>6, <3>1, <3>2 DEF Ids
      <3>3. CASE i - n \in 1..k /\ q[i].id = o[i - n]
        BY <3>1, <3>3 DEF Among
      <3>. QED BY <1>8, <3>1, <3>2, <3>3
    <2>2. ASSUME NEW x \in Ids(p) PROVE x \in Ids(q)
      <3>1. PICK i \in 1..n : x = p[i].id
        BY <1>6, <2>2 DEF Ids
      <3>2. i \in 1..(n + k)
        BY ONLY <1>0, <1>5, <3>1
      <3>3. i \in DOMAIN q /\ q[i] = p[i]
        BY <1>7, <3>2
      <3>. QED BY <3>1, <3>3 DEF Ids
    <2>3. ASSUME NEW i \in 1..k PROVE o[i] \in Ids(q)
      <3>1. n + i \in 1..(n + k)
        BY ONLY <1>0, <1>5, <2>3
      <3>2. n + i \in DOMAIN q /\ q[n + i] = new[i]
        BY <1>7, <3>1
      <3>. QED BY <1>3, <3>2 DEF Ids
    <2>. QED BY <2>1, <2>2, <2>3 DEF Among
  <1>. QED BY <1>7, <1>9, <1>11, <1>12 DEF History

Takes(p, q, d) == Ids(q) = Ids(p) \union NewIds(d)

\* The key of a seeded generator was made from all of s.
LEMMA GenerationCounts ==
  ASSUME NEW g \in Kinds, NEW m, NEW c, NEW n, Prepared(m, c, n), NEW in, IsInput(in), NEW d,
         Generation(g, c, d, in), NEW e, e = Done(d), NEW s, Known(g, m, s), m.seeded, NEW p, History(m.table, p),
         NEW q, Adds(p, q, d.out, Len(d.out), s \union Fed(c, in))
  PROVE  /\ Counts(e.table, e.reg[Key(g)], s)
         /\ History(e.table, q) /\ Takes(p, q, d)
  <1>0. s \in SUBSET Nat /\ Counts(m.table, m.reg[Key(g)], s)
    BY DEF Known
  <1>. DEFINE N == s \union Fed(c, in)
  <1>1. /\ Leads(c, d) /\ IsMachine(c) /\ IsMachine(d) /\ IsMachine(m)
        /\ From(c, d, Key(g), Key(g)) /\ OutsFrom(c, d, Key(g))
        /\ \A x \in Regs(in) : OutsFrom(c, d, x)
    BY LeadsTyped DEF Generation, Prepared
  <1>2. IsTable(m.table) /\ IsTable(c.table) /\ IsTable(d.table)
    BY <1>1 DEF IsMachine
  <1>3. Extends(m.table, c.table) /\ Extends(c.table, d.table)
    BY <1>1, LeadsTyped DEF Prepared
  <1>4. e.table = d.table /\ e.reg[Key(g)] = d.reg[Key(g)]
    BY <1>1, DoneIs DEF Key, Lasting
  <1>5. PICK x : x = c.reg[Key(g)]
    OBVIOUS
  <1>6. x = m.reg[Key(g)] /\ x \in 1..Len(m.table) /\ x \in 1..Len(c.table) /\ x \in 1..Len(d.table)
    <2>1. x = m.reg[Key(g)]
      BY <1>5 DEF Prepared, Key, Lasting
    <2>2. m.reg[Key(g)] \in 1..Len(m.table)
      BY <1>1 DEF IsMachine, Key, Registers
    <2>. QED BY <1>1, <2>1, <2>2, PreparedOuts
  <1>7. Counts(d.table, x, s)
    <2>1. Counts(m.table, x, s)
      BY <1>0, <1>6
    <2>2. Counts(c.table, x, s)
      BY <1>2, <1>3, <1>6, <2>1, CountsLater
    <2>. QED BY <1>2, <1>3, <1>6, <2>2, CountsLater
  <1>8. Counts(d.table, d.reg[Key(g)], s)
    <2>1. Counts(d.table, d.reg[Key(g)], {x})
      BY <1>1, <1>5 DEF From
    <2>. QED BY <1>7, <2>1, CountsThrough
  <1>9. ASSUME NEW k \in NewOut(c, d) PROVE Counts(d.table, d.out[k], N)
    <2>1. Counts(d.table, d.out[k], {x})
      BY <1>1, <1>5 DEF OutsFrom
    <2>2. Counts(d.table, d.out[k], s)
      BY <1>7, <2>1, CountsThrough
    <2>3. \A r \in Regs(in) : Counts(d.table, d.out[k], {c.reg[r]})
      BY <1>1 DEF OutsFrom
    <2>4. Counts(d.table, d.out[k], {c.reg[r] : r \in Regs(in)})
      BY <2>3 DEF Counts
    <2>. QED BY <2>2, <2>4, CountsBoth DEF Fed
  <1>10. /\ NewOut(c, d) = 1..Len(d.out) /\ Len(d.out) \in Nat
         /\ \A k \in NewOut(c, d) : d.out[k] \in 1..Len(d.table) /\ d.out[k] > Len(m.table)
         /\ Extends(m.table, d.table)
    BY <1>1, PreparedOuts
  <1>11. \A k, j \in NewOut(c, d) : d.out[k] = d.out[j] => k = j
    BY <1>1 DEF Leads, Outs
  <1>12. d.out \in Seq(Nat)
    BY <1>1 DEF IsMachine
  <1>13. N \in SUBSET Nat
    <2>1. \A r \in Regs(in) : c.reg[r] \in Nat
      BY <1>1 DEF IsInput, IsMachine, Registers
    <2>. QED BY <1>0, <2>1 DEF Fed
  <1>. HIDE DEF N
  <1>14. History(d.table, q) /\ Ids(q) = Ids(p) \union Among(d.out, Len(d.out))
    <2>1. Brings(m.table, d.table, d.out, Len(d.out), N)
      BY <1>9, <1>10, <1>11 DEF Brings
    <2>2. IsTable(m.table) /\ IsTable(d.table) /\ Extends(m.table, d.table)
      BY <1>2, <1>10
    <2>3. PICK o, k, T, U : o = d.out /\ k = Len(d.out) /\ T = m.table /\ U = d.table
      OBVIOUS
    <2>4. History(T, p)
      BY <2>3
    <2>5. Adds(p, q, o, k, N)
      BY <2>3 DEF N
    <2>6. Brings(T, U, o, k, N)
      BY <2>1, <2>3
    <2>7. IsTable(T) /\ IsTable(U) /\ Extends(T, U)
      BY <2>2, <2>3
    <2>8. History(U, q) /\ Ids(q) = Ids(p) \union Among(o, k)
      BY ONLY <1>13, <2>4, <2>5, <2>6, <2>7, HistoryOn
    <2>. QED BY <2>3, <2>8
  <1>. QED BY <1>4, <1>8, <1>14 DEF NewIds, Takes

LEMMA SeedingCounts ==
  ASSUME NEW g \in Kinds, NEW m, NEW c, NEW n, Prepared(m, c, n), NEW in, NEW d,
         Seeding(g, c, d, in), NEW e, e = Done(d), NEW s, Known(g, m, s),
         NEW p, History(m.table, p), NEW N, N = s \union Fed(c, in)
  PROVE  Counts(e.table, e.reg[Key(g)], N) /\ History(e.table, p)
  <1>0. /\ m.seeded \in BOOLEAN
        /\ ~ m.seeded => s = {}
        /\ m.seeded => Counts(m.table, m.reg[Key(g)], s)
    BY DEF Known, Prepared, IsMachine
  <1>1. /\ Leads(c, d) /\ IsMachine(c) /\ IsMachine(d) /\ IsMachine(m)
        /\ c.seeded => From(c, d, Key(g), Key(g))
        /\ \A x \in Regs(in) : From(c, d, x, Key(g))
    BY LeadsTyped DEF Seeding, Prepared
  <1>2. IsTable(m.table) /\ IsTable(c.table) /\ IsTable(d.table)
    BY <1>1 DEF IsMachine
  <1>3. Extends(m.table, c.table) /\ Extends(c.table, d.table) /\ Extends(m.table, d.table)
    BY <1>1, LeadsTyped, PreparedOuts DEF Prepared
  <1>4. e.table = d.table /\ e.reg[Key(g)] = d.reg[Key(g)]
    BY <1>1, DoneIs DEF Key, Lasting
  <1>5. PICK y : y = d.reg[Key(g)]
    OBVIOUS
  <1>6. Counts(d.table, y, {c.reg[r] : r \in Regs(in)})
    <2>1. \A r \in Regs(in) : Counts(d.table, y, {c.reg[r]})
      BY <1>1, <1>5 DEF From
    <2>. QED BY <2>1 DEF Counts
  <1>7. Counts(d.table, y, s)
    <2>1. CASE m.seeded
      <3>1. PICK x : x = c.reg[Key(g)]
        OBVIOUS
      <3>2. x = m.reg[Key(g)] /\ x \in 1..Len(m.table) /\ x \in 1..Len(c.table)
        <4>1. x = m.reg[Key(g)]
          BY <3>1 DEF Prepared, Key, Lasting
        <4>2. m.reg[Key(g)] \in 1..Len(m.table)
          BY <1>1 DEF IsMachine, Key, Registers
        <4>. QED BY <1>1, <4>1, <4>2, PreparedOuts
      <3>3. Counts(m.table, x, s)
        BY <1>0, <2>1, <3>2
      <3>4. Counts(c.table, x, s)
        BY <1>2, <1>3, <3>2, <3>3, CountsLater
      <3>5. Counts(d.table, x, s)
        BY <1>2, <1>3, <3>2, <3>4, CountsLater
      <3>6. Counts(d.table, y, {x})
        BY <1>1, <1>5, <2>1, <3>1 DEF From, Prepared
      <3>. QED BY <3>5, <3>6, CountsThrough
    <2>2. CASE ~ m.seeded
      <3>1. s = {}
        BY <1>0, <2>2
      <3>. QED BY <3>1 DEF Counts
    <2>. QED BY <2>1, <2>2
  <1>8. History(d.table, p)
    BY <1>2, <1>3, HistoryLater
  <1>. QED BY <1>4, <1>5, <1>6, <1>7, <1>8, CountsBoth DEF Fed

-----------------------------------------------------------------------------
(* The invariant, over the memory m, the history p and s and n calls.      *)

Unused(g, m) == (g = "xof" => m.reg["K"] = 1) /\ (g = "chacha" => m.reg["V"] = 1)

Sound(g, m, p, s, n) ==
  /\ Resting(m, n) /\ History(m.table, p) /\ Known(g, m, s) /\ Unused(g, m)
  /\ Kept(g, m, Ids(p))

LEMMA IdsIn ==
  ASSUME NEW T, NEW p, History(T, p) PROVE Ids(p) \subseteq 1..Len(T)
  BY DEF History, Ids

\* When a call returns.
LEMMA RestsAgain ==
  ASSUME NEW g \in Kinds, NEW m, NEW c, NEW n \in Nat, Prepared(m, c, n), NEW d, Leads(c, d),
         NEW e, e = Done(d), Idle(g, c, d), Unused(g, m)
  PROVE  /\ Resting(e, n + 1) /\ Unused(g, e) /\ e.seeded = d.seeded
         /\ AtRest(g, d) => AtRest(g, e)
  <1>1. IsMachine(d) /\ IsMachine(c)
    BY LeadsTyped
  <1>2. /\ IsMachine(e) /\ e.table = d.table /\ e.out = <<>>
        /\ e.seeded = d.seeded /\ e.ctr = d.ctr
        /\ \A r \in Lasting : e.reg[r] = d.reg[r]
        /\ \A r \in Registers \ Lasting : e.reg[r] = 1
    BY <1>1, DoneIs
  <1>3. InputsBefore(e.table, n + 1)
    BY <1>2 DEF Prepared, Leads, Fits
  <1>4. Unused(g, e)
    <2>1. c.reg["K"] = m.reg["K"] /\ c.reg["V"] = m.reg["V"]
      BY Areas DEF Prepared
    <2>2. e.reg["K"] = d.reg["K"] /\ e.reg["V"] = d.reg["V"]
      BY <1>2, Areas
    <2>. QED BY <2>1, <2>2 DEF Unused, Idle
  <1>5. AtRest(g, d) => AtRest(g, e)
    BY <1>2, AtRestOn
  <1>. QED BY <1>2, <1>3, <1>4, <1>5 DEF Resting

LEMMA SoundGeneration ==
  ASSUME NEW g \in Kinds, NEW m, NEW p, NEW s, NEW n \in Nat, Sound(g, m, p, s, n), m.seeded,
         NEW c, Prepared(m, c, n), NEW in, IsInput(in), NEW d, Generation(g, c, d, in),
         NEW q, Adds(p, q, d.out, Len(d.out), s \union Fed(c, in))
  PROVE  Sound(g, Done(d), q, s, n + 1)
  <1>1. PICK e : e = Done(d)
    OBVIOUS
  <1>2. Leads(c, d) /\ AtRest(g, d) /\ Idle(g, c, d) /\ d.seeded = c.seeded
    BY DEF Generation
  <1>3. /\ Resting(e, n + 1) /\ Unused(g, e) /\ e.seeded = d.seeded /\ AtRest(g, e)
    BY <1>1, <1>2, RestsAgain DEF Sound
  <1>4. e.seeded = m.seeded
    BY <1>2, <1>3 DEF Prepared
  <1>5. Known(g, m, s) /\ History(m.table, p) /\ s \in SUBSET Nat
    BY DEF Sound, Known
  <1>6. Counts(e.table, e.reg[Key(g)], s) /\ History(e.table, q) /\ Ids(q) = Ids(p) \union NewIds(d)
    <2>1. Known(g, m, s)
      BY <1>5
    <2>2. History(m.table, p)
      BY <1>5
    <2>3. Adds(p, q, d.out, Len(d.out), s \union Fed(c, in))
      OBVIOUS
    <2>4. Prepared(m, c, n) /\ IsInput(in) /\ Generation(g, c, d, in) /\ m.seeded /\ g \in Kinds
      OBVIOUS
    <2>5. \A x : x = Done(d) => Counts(x.table, x.reg[Key(g)], s)
      BY ONLY <2>1, <2>2, <2>3, <2>4, GenerationCounts, Zenon
    <2>6. \A x : x = Done(d) => History(x.table, q) /\ Takes(p, q, d)
      BY ONLY <2>1, <2>2, <2>3, <2>4, GenerationCounts, Zenon
    <2>. QED BY <1>1, <2>5, <2>6 DEF Takes
  <1>7. Known(g, e, s)
    BY <1>3, <1>4, <1>5, <1>6 DEF Known
  <1>8. Kept(g, e, Ids(q))
    <2>1. Ids(p) \subseteq 1..Len(m.table)
      BY <1>5, IdsIn
    <2>2. Kept(g, m, Ids(p))
      BY DEF Sound
    <2>. QED BY <1>1, <1>6, <2>1, <2>2, GenerationHides
  <1>. QED BY <1>1, <1>3, <1>6, <1>7, <1>8 DEF Sound

LEMMA SoundSeeding ==
  ASSUME NEW g \in Kinds, NEW m, NEW p, NEW s, NEW n \in Nat, Sound(g, m, p, s, n),
         NEW c, Prepared(m, c, n), NEW in, NEW d, Seeding(g, c, d, in),
         NEW id, Seedable(m, c, id),
         NEW N, N = s \union Fed(c, in), N \in SUBSET Nat
  PROVE  Sound(g, Done(d), p, N, n + 1)
  <1>1. PICK e : e = Done(d)
    OBVIOUS
  <1>2. Leads(c, d) /\ AtRest(g, d) /\ Idle(g, c, d) /\ d.seeded
    BY DEF Seeding
  <1>3. /\ Resting(e, n + 1) /\ Unused(g, e) /\ e.seeded /\ AtRest(g, e)
    BY <1>1, <1>2, RestsAgain DEF Sound
  <1>4. Known(g, m, s) /\ History(m.table, p)
    BY DEF Sound
  <1>5. Counts(e.table, e.reg[Key(g)], N) /\ History(e.table, p)
    BY <1>1, <1>4, SeedingCounts
  <1>6. Known(g, e, N)
    BY <1>3, <1>5 DEF Known
  <1>7. Kept(g, e, Ids(p))
    <2>1. Ids(p) \subseteq 1..Len(m.table)
      BY <1>4, IdsIn
    <2>2. Kept(g, m, Ids(p))
      BY DEF Sound
    <2>. QED BY <1>1, <2>1, <2>2, SeedingHides
  <1>. QED BY <1>1, <1>3, <1>5, <1>6, <1>7 DEF Sound

\* lc_rng_zero.
LEMMA SoundZero ==
  ASSUME NEW g \in Kinds, NEW m, NEW p, NEW s, NEW n \in Nat, Sound(g, m, p, s, n),
         NEW e, e = [Blank EXCEPT !.table = m.table]
  PROVE  Sound(g, e, p, {}, n + 1)
  <1>1. IsMachine(m) /\ IsTable(m.table) /\ m.table \in Seq(AnyTerm)
    BY TableIs DEF Sound, Resting, IsMachine
  <1>2. PICK z : z = [r \in Registers |-> 1]
    OBVIOUS
  <1>3. /\ e = [table |-> m.table, reg |-> z, seeded |-> FALSE, ctr |-> 0, nonce |-> 0,
                out |-> <<>>]
        /\ e.table = m.table /\ e.reg = z /\ e.seeded = FALSE /\ e.out = <<>>
    BY <1>2 DEF Blank
  <1>4. \A r \in Registers : e.reg[r] = 1
    BY <1>2, <1>3
  <1>5. IsMachine(e)
    <2>1. z \in [Registers -> Nat]
      BY <1>2
    <2>2. \A r \in Registers : e.reg[r] \in 1..Len(e.table)
      BY <1>1, <1>3, <1>4, TableIs
    <2>3. <<>> \in Seq(Nat) /\ FALSE \in BOOLEAN /\ 0 \in Nat
      OBVIOUS
    <2>4. PICK T : T = m.table
      OBVIOUS
    <2>5. T \in Seq(AnyTerm)
      BY <1>1, <2>4
    <2>6. e = [table |-> T, reg |-> z, seeded |-> FALSE, ctr |-> 0, nonce |-> 0,
               out |-> <<>>]
      BY <1>3, <2>4
    <2>7. e \in [table : Seq(AnyTerm), reg : [Registers -> Nat], seeded : BOOLEAN,
                 ctr : Nat, nonce : Nat, out : Seq(Nat)]
      BY ONLY <2>1, <2>3, <2>5, <2>6
    <2>8. IsTable(e.table)
      BY <1>1, <1>3
    <2>. QED BY <2>2, <2>7, <2>8 DEF IsMachine
  <1>6. Resting(e, n + 1)
    <2>1. InputsBefore(e.table, n + 1)
      <3>1. \A k \in 0..(n - 1) : k \in 0..((n + 1) - 1)
        OBVIOUS
      <3>2. InputsBefore(m.table, n)
        BY DEF Sound, Resting
      <3>. QED BY <1>3, <3>1, <3>2 DEF InputsBefore
    <2>. QED BY <1>3, <1>4, <1>5, <2>1 DEF Resting
  <1>7. History(e.table, p)
    BY <1>3 DEF Sound
  <1>8. Known(g, e, {})
    BY <1>3 DEF Known
  <1>9. Unused(g, e)
    <2>1. "K" \in Registers /\ "V" \in Registers
      BY DEF Registers
    <2>. QED BY <1>4, <2>1 DEF Unused
  <1>10. Kept(g, e, Ids(p))
    <2>1. ASSUME NEW o \in Ids(p) PROVE Gone(e, Ids(p), o)
      <3>1. PICK P : /\ Colours(m, P, {}, Lasting) /\ o \in P
                     /\ \A x \in Ids(p) : x # o => x \notin P
        BY <2>1 DEF Sound, Kept, Gone
      <3>2. 1 \notin P
        BY <1>1, <3>1, OneShown DEF Colours
      <3>3. Colours(e, P, {}, Lasting)
        BY <1>3, <1>4, <3>1, <3>2, Areas DEF Colours
      <3>. QED BY <3>1, <3>3 DEF Gone
    <2>. QED BY <1>3, <2>1 DEF Kept
  <1>. QED BY <1>6, <1>7, <1>8, <1>9, <1>10 DEF Sound

-----------------------------------------------------------------------------
(* The calls.                                                              *)

LEMMA RegsAre ==
  /\ IsInput(<<>>) /\ Regs(<<>>) = {}
  /\ IsInput(<<"in">>) /\ Regs(<<"in">>) = {"in"}
  /\ IsInput(<<"opt">>) /\ Regs(<<"opt">>) = {"opt"}
  /\ IsInput(<<"in", "opt">>) /\ Regs(<<"in", "opt">>) = {"in", "opt"}
  <1>1. "in" \in Registers /\ "opt" \in Registers
    BY DEF Registers
  <1>2. Regs(<<>>) = {}
    <2>1. DOMAIN <<>> = {}
      OBVIOUS
    <2>. QED BY <2>1 DEF Regs
  <1>3. Regs(<<"in">>) = {"in"} /\ Regs(<<"opt">>) = {"opt"}
    BY DEF Regs
  <1>4. Regs(<<"in", "opt">>) = {"in", "opt"}
    <2>1. DOMAIN <<"in", "opt">> = {1, 2}
      OBVIOUS
    <2>2. <<"in", "opt">>[1] = "in" /\ <<"in", "opt">>[2] = "opt"
      OBVIOUS
    <2>. QED BY <2>1, <2>2 DEF Regs
  <1>5. <<>> \in Seq(Registers) /\ <<"in">> \in Seq(Registers) /\ <<"opt">> \in Seq(Registers)
    BY <1>1
  <1>6. <<"in", "opt">> \in Seq(Registers)
    BY <1>1, Pairs
  <1>. QED BY <1>2, <1>3, <1>4, <1>5, <1>6 DEF IsInput

\* A seed, and perhaps a personalization string, were entered.
SeedReady(m, c, n) ==
  /\ Prepared(m, c, n) /\ Seedable(m, c, c.reg["in"]) /\ UsedBy(c.table, c.reg["in"], {})
  /\ c.reg["in"] # 1

LEMMA EnteredNotOne ==
  ASSUME NEW m, NEW d, NEW to, NEW kind, NEW n, Entered(m, d, to, kind, n)
  PROVE  d.reg[to] # 1 /\ d.reg[to] \in Nat
  <1>1. PICK id, v : /\ id \in Nat /\ Stored(m, d, to, v, id) /\ v.f[1] = kind /\ v.f[2] = n
                     /\ Args(v) = {} /\ to \in Registers /\ to \notin Lasting
                     /\ to # "out"
    BY EnteredStored
  <1>2. kind # "zero"
    BY DEF Entered
  <1>3. d.reg[to] = id /\ d.table[id] = v /\ IsTable(d.table)
    BY <1>1 DEF Stored, IsMachine
  <1>4. d.table[1].f[1] = "zero"
    BY <1>3, TableIs
  <1>. QED BY <1>1, <1>2, <1>3, <1>4

LEMMA SeedEntered ==
  ASSUME NEW m, NEW n \in Nat, Resting(m, n), NEW c, Entered(m, c, "in", "seed", n)
  PROVE  SeedReady(m, c, n) /\ c.reg["opt"] = 1
  <1>1. Prepared(m, c, n)
    <2>1. InputsBefore(m.table, n)
      BY DEF Resting
    <2>. QED BY <2>1, PreparedItself, PreparedOn
  <1>2. PICK id : id = c.reg["in"]
    OBVIOUS
  <1>3. /\ id = Len(m.table) + 1 /\ Len(m.table) \in Nat
        /\ UsedBy(c.table, id, {}) /\ Sealed(c.table, {id})
    BY <1>2, EnteredSeed DEF Resting
  <1>4. IsMachine(c) /\ \A r \in Registers : r # "in" => c.reg[r] = m.reg[r]
    BY EnteredIs
  <1>5. id \in 1..Len(c.table)
    BY <1>2, <1>4 DEF IsMachine, Registers
  <1>6. id \notin 1..Len(m.table)
    BY <1>3
  <1>7. \A r \in Registers \ {"in"} : c.reg[r] \notin {id}
    <2>1. \A r \in Registers : m.reg[r] \in 1..Len(m.table)
      BY DEF Resting, IsMachine
    <2>. QED BY <1>4, <1>6, <2>1
  <1>8. Seedable(m, c, id)
    BY <1>2, <1>3, <1>5, <1>6, <1>7 DEF Seedable, Colours
  <1>9. c.reg["opt"] = 1
    <2>1. m.reg["opt"] = 1
      BY Areas DEF Resting
    <2>. QED BY <1>4, <2>1 DEF Registers
  <1>. QED BY <1>1, <1>2, <1>3, <1>8, <1>9, EnteredNotOne DEF SeedReady

LEMMA SeedOptEntered ==
  ASSUME NEW m, NEW n \in Nat, NEW c, SeedReady(m, c, n), NEW d, Entered(c, d, "opt", "public", n)
  PROVE  SeedReady(m, d, n) /\ d.reg["opt"] # 1
  <1>1. Prepared(m, d, n)
    BY PreparedOn DEF SeedReady
  <1>2. PICK id : id = c.reg["in"]
    OBVIOUS
  <1>3. /\ IsMachine(d) /\ Extends(c.table, d.table)
        /\ \A r \in Registers : r # "opt" => d.reg[r] = c.reg[r]
        /\ UsedBy(d.table, id, {})
    BY <1>2, EnteredIs DEF SeedReady
  <1>4. d.reg["in"] = id
    BY <1>2, <1>3 DEF Registers
  <1>5. /\ id \notin 1..Len(m.table) /\ id # 1
        /\ Sealed(c.table, {id}) /\ \A r \in Registers \ {"in"} : c.reg[r] \notin {id}
    BY <1>2 DEF SeedReady, Seedable, Colours
  <1>6. Sealed(d.table, {id}) /\ d.reg["opt"] \notin {id}
    BY <1>5, EnteredFree
  <1>7. \A r \in Registers \ {"in"} : d.reg[r] \notin {id}
    BY <1>3, <1>5, <1>6
  <1>8. id \in 1..Len(d.table)
    BY <1>3, <1>4 DEF IsMachine, Registers
  <1>9. Seedable(m, d, id)
    BY <1>4, <1>5, <1>6, <1>7, <1>8 DEF Seedable, Colours
  <1>. QED BY <1>1, <1>3, <1>4, <1>5, <1>9, EnteredNotOne DEF SeedReady

-----------------------------------------------------------------------------
(* The invariant of the specification.                                     *)

DrbgInv ==
  /\ drbg \in Kinds /\ drbgCalls \in Nat
  /\ Sound(drbg, machine, putOut, seeds, drbgCalls)

\* Between calls every generator can be coloured as the properties need it.
LEMMA DrbgInitInv ==
  ASSUME DrbgInit PROVE DrbgInv
  <1>1. /\ drbg \in Kinds /\ machine = Blank /\ putOut = <<>> /\ seeds = {} /\ drbgCalls = 0
    BY DrbgAssumption DEF DrbgInit, Kinds
  <1>2. PICK z : z = [r \in Registers |-> 1]
    OBVIOUS
  <1>3. PICK T : T = <<Term(F("zero"), <<>>)>>
    OBVIOUS
  <1>4. /\ Blank = [table |-> T, reg |-> z, seeded |-> FALSE, ctr |-> 0, nonce |-> 0,
                    out |-> <<>>]
        /\ Blank.table = T /\ Blank.reg = z /\ Blank.seeded = FALSE /\ Blank.out = <<>>
    BY <1>2, <1>3 DEF Blank
  <1>5. T \in Seq(AnyTerm) /\ Len(T) = 1 /\ T[1] = Term(F("zero"), <<>>) /\ DOMAIN T = {1}
    <2>1. "zero" \in Words
      BY DEF Words
    <2>2. F("zero") \in Names
      BY <2>1, FIs
    <2>3. <<>> \in Seq(Nat)
      OBVIOUS
    <2>4. PICK v : v = Term(F("zero"), <<>>)
      OBVIOUS
    <2>5. v \in AnyTerm
      BY <2>2, <2>3, <2>4 DEF Term, AnyTerm
    <2>6. T = <<v>>
      BY <1>3, <2>4
    <2>. QED BY <2>4, <2>5, <2>6
  <1>6. T[1].f[1] = "zero" /\ Args(T[1]) = {}
    <2>1. T[1].f = <<"zero", 0>> /\ T[1].of = <<>>
      BY <1>5 DEF Term, F
    <2>. QED BY <2>1 DEF Args
  <1>7. IsTable(T)
    BY <1>5, <1>6 DEF IsTable
  <1>8. \A r \in Registers : Blank.reg[r] = 1
    BY <1>2, <1>4
  <1>9. IsMachine(Blank)
    <2>1. z \in [Registers -> Nat]
      BY <1>2
    <2>2. <<>> \in Seq(Nat) /\ FALSE \in BOOLEAN /\ 0 \in Nat
      OBVIOUS
    <2>3. T \in Seq(AnyTerm)
      BY <1>5
    <2>4. Blank = [table |-> T, reg |-> z, seeded |-> FALSE, ctr |-> 0, nonce |-> 0,
                   out |-> <<>>]
      BY <1>4
    <2>5. Blank \in [table : Seq(AnyTerm), reg : [Registers -> Nat], seeded : BOOLEAN,
                     ctr : Nat, nonce : Nat, out : Seq(Nat)]
      BY ONLY <2>1, <2>2, <2>3, <2>4
    <2>6. \A r \in Registers : Blank.reg[r] \in 1..Len(Blank.table)
      BY <1>4, <1>5, <1>8
    <2>. QED BY <1>4, <1>7, <2>5, <2>6 DEF IsMachine
  <1>10. InputsBefore(Blank.table, 0)
    BY <1>4, <1>5, <1>6 DEF InputsBefore
  <1>11. Resting(Blank, 0)
    BY <1>4, <1>8, <1>9, <1>10 DEF Resting
  <1>12. History(Blank.table, <<>>) /\ Ids(<<>>) = {}
    <2>1. DOMAIN <<>> = {} /\ <<>> \in Seq(Entry)
      OBVIOUS
    <2>. QED BY <2>1 DEF History, Ids
  <1>13. Known(drbg, Blank, {})
    BY <1>4 DEF Known
  <1>14. Unused(drbg, Blank)
    BY <1>8 DEF Unused, Registers
  <1>15. Kept(drbg, Blank, {})
    BY <1>4 DEF Kept
  <1>. QED BY <1>1, <1>11, <1>12, <1>13, <1>14, <1>15 DEF DrbgInv, Sound

LEMMA InputIs ==
  ASSUME drbgCalls \in Nat, NEW m, IsMachine(m), NEW to \in Inputs, NEW kind \in {"seed", "public"}
  PROVE  Entered(m, Input(m, to, kind), to, kind, drbgCalls)
  BY DEF Entered, Input

LEMMA DrbgSeedInv ==
  ASSUME DrbgInv, NEW pers \in BOOLEAN, DrbgSeed(pers) PROVE DrbgInv'
  <1>. DEFINE m == machine
              n == drbgCalls
              c1 == Input(m, "in", "seed")
              c == IF pers THEN Input(c1, "opt", "public") ELSE c1
              in == IF pers THEN <<"in", "opt">> ELSE <<"in">>
              d == Seeded(c, in)
              id == c.reg["in"]
  <1>1. /\ drbg \in Kinds /\ n \in Nat /\ Sound(drbg, m, putOut, seeds, n) /\ Resting(m, n)
        /\ IsMachine(m)
    BY DEF DrbgInv, Sound, Resting
  <1>2. /\ pers => drbg # "chacha"
        /\ machine' = Done(d)
        /\ seeds' = seeds \union ({c.reg["in"], c.reg["opt"]} \ {1})
        /\ drbgCalls' = n + 1 /\ drbg' = drbg /\ putOut' = putOut
    BY DEF DrbgSeed
  <1>3. SeedReady(m, c1, n) /\ c1.reg["opt"] = 1 /\ IsMachine(c1)
    <2>1. Entered(m, c1, "in", "seed", n)
      BY <1>1, Areas, InputIs
    <2>. HIDE DEF c1
    <2>. QED BY <1>1, <2>1, SeedEntered, EnteredIs
  <1>4. SeedReady(m, c, n) /\ (pers => c.reg["opt"] # 1) /\ (~ pers => c.reg["opt"] = 1)
    <2>1. CASE ~ pers
      BY <1>3, <2>1
    <2>2. CASE pers
      <3>. HIDE DEF c1
      <3>1. c = Input(c1, "opt", "public")
        BY <2>2
      <3>2. Entered(c1, c, "opt", "public", n)
        BY <1>1, <1>3, <3>1, Areas, InputIs
      <3>. HIDE DEF c
      <3>. QED BY <1>1, <1>3, <2>2, <3>2, SeedOptEntered
    <2>. QED BY <2>1, <2>2
  <1>. HIDE DEF c, c1
  <1>5. /\ IsInput(in) /\ "in" \in Regs(in) /\ Regs(in) = IF pers THEN {"in", "opt"} ELSE {"in"}
        /\ drbg = "chacha" => in = <<"in">>
    BY <1>2, RegsAre
  <1>. HIDE DEF in
  <1>6. Prepared(m, c, n) /\ Seedable(m, c, id) /\ UsedBy(c.table, id, {}) /\ id # 1 /\ IsMachine(c)
    BY <1>4 DEF SeedReady, Prepared
  <1>7. Seeding(drbg, c, d, in)
    BY <1>1, <1>5, <1>6, SeededIs
  <1>. HIDE DEF d
  <1>8. seeds' = seeds \union Fed(c, in)
    <2>1. CASE pers
      <3>1. Fed(c, in) = {c.reg["in"], c.reg["opt"]}
        BY <1>5, <2>1 DEF Fed
      <3>. QED BY <1>2, <1>4, <1>6, <2>1, <3>1
    <2>2. CASE ~ pers
      <3>1. Fed(c, in) = {c.reg["in"]}
        BY <1>5, <2>2 DEF Fed
      <3>. QED BY <1>2, <1>4, <1>6, <2>2, <3>1
    <2>. QED BY <2>1, <2>2
  <1>9. seeds' \in SUBSET Nat
    <2>1. seeds \in SUBSET Nat
      BY <1>1 DEF Sound, Known
    <2>2. \A r \in Regs(in) : c.reg[r] \in Nat
      BY <1>5, <1>6 DEF IsMachine, IsInput, Registers
    <2>. QED BY <1>8, <2>1, <2>2 DEF Fed
  <1>10. Sound(drbg, Done(d), putOut, seeds', n + 1)
    <2>1. PICK N : N = seeds'
      OBVIOUS
    <2>2. N = seeds \union Fed(c, in) /\ N \in SUBSET Nat
      BY <1>8, <1>9, <2>1
    <2>3. Sound(drbg, Done(d), putOut, N, n + 1)
      BY <1>1, <1>6, <1>7, <2>2, SoundSeeding
    <2>. QED BY <2>1, <2>3
  <1>. QED BY <1>1, <1>2, <1>10 DEF DrbgInv

LEMMA DrbgGenerateInv ==
  ASSUME DrbgInv, NEW k \in DrbgRequests, NEW addtl \in BOOLEAN, DrbgGenerate(k, addtl)
  PROVE  DrbgInv'
  <1>. DEFINE m == machine
              n == drbgCalls
              c == IF addtl THEN Input(m, "opt", "public") ELSE m
              in == IF addtl THEN <<"opt">> ELSE <<>>
              d == Generates(c, k, in)
  <1>1. /\ drbg \in Kinds /\ n \in Nat /\ Sound(drbg, m, putOut, seeds, n) /\ Resting(m, n)
        /\ IsMachine(m) /\ k \in Nat
    BY DrbgAssumption DEF DrbgInv, Sound, Resting
  <1>2. /\ addtl => drbg # "chacha"
        /\ m.seeded
        /\ machine' = Done(d)
        /\ putOut' = putOut \o [i \in DOMAIN d.out |->
                       [id |-> d.out[i], needs |-> seeds \union ({c.reg["opt"]} \ {1})]]
        /\ drbgCalls' = n + 1 /\ drbg' = drbg /\ seeds' = seeds
    BY DEF DrbgGenerate
  <1>3. Prepared(m, c, n) /\ (addtl => c.reg["opt"] # 1) /\ (~ addtl => c.reg["opt"] = 1)
    <2>1. CASE ~ addtl
      <3>1. m.reg["opt"] = 1
        BY <1>1, Areas DEF Resting
      <3>. QED BY <1>1, <2>1, <3>1, PreparedItself
    <2>2. CASE addtl
      <3>1. c = Input(m, "opt", "public")
        BY <2>2
      <3>2. Entered(m, c, "opt", "public", n)
        BY <1>1, <3>1, Areas, InputIs
      <3>. HIDE DEF c
      <3>3. Prepared(m, c, n)
        BY <1>1, <3>2, PreparedItself, PreparedOn
      <3>. QED BY <2>2, <3>2, <3>3, EnteredNotOne
    <2>. QED BY <2>1, <2>2
  <1>. HIDE DEF c
  <1>4. /\ IsInput(in) /\ Regs(in) = IF addtl THEN {"opt"} ELSE {}
        /\ drbg = "chacha" => in = <<>>
    BY <1>2, RegsAre
  <1>. HIDE DEF in
  <1>5. IsMachine(c) /\ c.seeded /\ AtRest(drbg, c)
    <2>1. AtRest(drbg, m)
      BY <1>1, <1>2 DEF Sound, Known
    <2>2. AtRest(drbg, c)
      BY <1>1, <1>3, <2>1, AtRestOn DEF Prepared
    <2>. QED BY <1>2, <1>3, <2>2 DEF Prepared
  <1>6. Generation(drbg, c, d, in)
    BY <1>1, <1>4, <1>5, GeneratesIs
  <1>. HIDE DEF d
  <1>7. Fed(c, in) = {c.reg["opt"]} \ {1}
    <2>1. CASE addtl
      BY <1>3, <1>4, <2>1 DEF Fed
    <2>2. CASE ~ addtl
      BY <1>3, <1>4, <2>2 DEF Fed
    <2>. QED BY <2>1, <2>2
  <1>8. PICK q : q = putOut'
    OBVIOUS
  <1>9. Adds(putOut, q, d.out, Len(d.out), seeds \union Fed(c, in))
    <2>1. d.out \in Seq(Nat) /\ Len(d.out) \in Nat
      <3>1. IsMachine(d)
        BY <1>6, LeadsTyped DEF Generation
      <3>. QED BY <3>1 DEF IsMachine
    <2>. QED BY <1>2, <1>7, <1>8, <2>1 DEF Adds
  <1>10. Sound(drbg, Done(d), q, seeds, n + 1)
    BY <1>1, <1>2, <1>3, <1>4, <1>6, <1>9, SoundGeneration
  <1>. QED BY <1>1, <1>2, <1>8, <1>10 DEF DrbgInv

LEMMA DrbgZeroInv ==
  ASSUME DrbgInv, DrbgZero PROVE DrbgInv'
  <1>1. /\ drbg \in Kinds /\ drbgCalls \in Nat
        /\ Sound(drbg, machine, putOut, seeds, drbgCalls)
    BY DEF DrbgInv
  <1>2. /\ machine' = [Blank EXCEPT !.table = machine.table] /\ seeds' = {}
        /\ drbgCalls' = drbgCalls + 1 /\ drbg' = drbg /\ putOut' = putOut
    BY DEF DrbgZero
  <1>3. \A e : e = [Blank EXCEPT !.table = machine.table] =>
          Sound(drbg, e, putOut, {}, drbgCalls + 1)
    BY <1>1, SoundZero
  <1>. QED BY <1>1, <1>2, <1>3 DEF DrbgInv

\* The invariant holds through every sequence of lc_rng_seed, lc_rng_generate
\* and lc_rng_zero of any of the five generators.
THEOREM DrbgKeeps == DrbgSpec => []DrbgInv
  <1>1. DrbgInit => DrbgInv
    BY DrbgInitInv
  <1>2. DrbgInv /\ [DrbgNext]_drbgVars => DrbgInv'
    <2>1. CASE UNCHANGED drbgVars
      <3>1. DrbgInv => DrbgInv'
        BY <2>1 DEF DrbgInv, drbgVars
      <3>. QED BY <3>1
    <2>2. ASSUME DrbgInv, NEW pers \in BOOLEAN, DrbgSeed(pers) PROVE DrbgInv'
      BY <2>2, DrbgSeedInv
    <2>3. ASSUME DrbgInv, NEW n \in DrbgRequests, NEW addtl \in BOOLEAN, DrbgGenerate(n, addtl)
          PROVE  DrbgInv'
      BY <2>3, DrbgGenerateInv
    <2>4. ASSUME DrbgInv, DrbgZero PROVE DrbgInv'
      BY <2>4, DrbgZeroInv
    <2>. QED BY <2>1, <2>2, <2>3, <2>4 DEF DrbgNext
  <1>. QED BY <1>1, <1>2, PTL DEF DrbgSpec

-----------------------------------------------------------------------------
(* What a value was made from.                                             *)

OriginAt(T, ids, f, i) == IF i > Len(T) THEN ids
                          ELSE IF i \in f[i + 1] THEN f[i + 1] \union Args(T[i]) ELSE f[i + 1]

IsOrigin(T, ids, L, f) == f = [i \in 1..(L + 1) |-> OriginAt(T, ids, f, i)]

LEMMA OriginTurns ==
  ASSUME NEW T, NEW ids, NEW L \in Nat, L = Len(T)
  PROVE  \E f : IsOrigin(T, ids, L, f)
  <1>. DEFINE IsLoop(f, k) == f = [i \in k..(L + 1) |-> OriginAt(T, ids, f, i)]
              S == {j \in Nat : j <= L => \E f : IsLoop(f, L + 1 - j)}
  <1>1. 0 \in S
    <2>. DEFINE f == [i \in (L + 1)..(L + 1) |-> ids]
    <2>1. \A i \in (L + 1)..(L + 1) : i > Len(T)
      OBVIOUS
    <2>2. \A i \in (L + 1)..(L + 1) : OriginAt(T, ids, f, i) = ids
      BY <2>1 DEF OriginAt
    <2>. HIDE DEF f
    <2>3. f = [i \in (L + 1)..(L + 1) |-> OriginAt(T, ids, f, i)]
      BY <2>2 DEF f
    <2>4. L + 1 - 0 = L + 1
      OBVIOUS
    <2>. QED BY <2>3, <2>4
  <1>2. ASSUME NEW j \in Nat, j \in S PROVE j + 1 \in S
    <2>. SUFFICES ASSUME j + 1 <= L PROVE \E f : IsLoop(f, L + 1 - (j + 1))
      OBVIOUS
    <2>1. PICK k \in Nat : k = L + 1 - j
      OBVIOUS
    <2>2. k >= 2 /\ k <= L + 1 /\ L + 1 - (j + 1) = k - 1
      BY <2>1
    <2>3. PICK f : IsLoop(f, k)
      BY <1>2, <2>1
    <2>. DEFINE g == [i \in (k - 1)..(L + 1) |->
                        IF i = k - 1 THEN OriginAt(T, ids, f, k - 1) ELSE f[i]]
    <2>4. \A i \in (k - 1)..(L + 1) : i = k - 1 \/ (i \in k..(L + 1) /\ i # k - 1)
      BY <2>2
    <2>5. \A i \in (k - 1)..(L + 1) : i <= L => i + 1 \in k..(L + 1) /\ i + 1 # k - 1
                                                /\ i + 1 \in (k - 1)..(L + 1)
      BY <2>2
    <2>6. \A i \in (k - 1)..(L + 1) : i <= L => g[i + 1] = f[i + 1]
      BY <2>5
    <2>7. \A i \in (k - 1)..(L + 1) : OriginAt(T, ids, g, i) = OriginAt(T, ids, f, i)
      <3>. HIDE DEF g
      <3>1. \A i \in (k - 1)..(L + 1) : i > Len(T) \/ i <= L
        BY <2>2
      <3>. QED BY <2>6, <3>1 DEF OriginAt
    <2>8. \A i \in k..(L + 1) : f[i] = OriginAt(T, ids, f, i)
      BY <2>3
    <2>9. \A i \in (k - 1)..(L + 1) : g[i] = OriginAt(T, ids, f, i)
      BY <2>4, <2>8
    <2>10. g = [i \in (k - 1)..(L + 1) |-> OriginAt(T, ids, g, i)]
      <3>1. g = [i \in (k - 1)..(L + 1) |-> g[i]]
        OBVIOUS
      <3>. HIDE DEF g
      <3>2. \A i \in (k - 1)..(L + 1) : g[i] = OriginAt(T, ids, g, i)
        BY <2>7, <2>9
      <3>. QED BY <3>1, <3>2
    <2>. HIDE DEF g
    <2>. QED BY <2>2, <2>10
  <1>3. L \in S
    <2>. HIDE DEF S
    <2>. QED BY <1>1, <1>2, SetInduction
  <1>. QED BY <1>3 DEF IsOrigin

LEMMA OriginCloses ==
  ASSUME NEW T, IsTable(T), NEW ids, ids \subseteq 1..Len(T), NEW L \in Nat, L = Len(T), NEW f,
         IsOrigin(T, ids, L, f)
  PROVE  ArgClosed(T, f[1]) /\ ids \subseteq f[1]
  <1>. DEFINE Good(k) == /\ ids \subseteq f[k] /\ f[k] \subseteq 1..L
                         /\ \A x \in f[k] : x >= k => Args(T[x]) \subseteq f[k]
              S == {j \in Nat : j <= L => Good(L + 1 - j)}
  <1>0. \A i \in 1..(L + 1) : f[i] = OriginAt(T, ids, f, i)
    BY DEF IsOrigin
  <1>1. 0 \in S
    <2>1. f[L + 1] = ids
      <3>1. L + 1 \in 1..(L + 1) /\ L + 1 > Len(T)
        OBVIOUS
      <3>. QED BY <1>0, <3>1 DEF OriginAt
    <2>2. \A x \in ids : ~ (x >= L + 1)
      OBVIOUS
    <2>3. L + 1 - 0 = L + 1
      OBVIOUS
    <2>. QED BY <2>1, <2>2, <2>3
  <1>2. ASSUME NEW j \in Nat, j \in S PROVE j + 1 \in S
    <2>. SUFFICES ASSUME j + 1 <= L PROVE Good(L + 1 - (j + 1))
      <3>. HIDE DEF Good
      <3>. QED OBVIOUS
    <2>1. PICK k \in Nat : k = L - j
      <3>1. L - j \in Nat
        OBVIOUS
      <3>. QED BY <3>1
    <2>2. k >= 1 /\ k <= L /\ L + 1 - (j + 1) = k /\ L + 1 - j = k + 1
      BY <2>1
    <2>3. Good(k + 1)
      <3>. HIDE DEF Good
      <3>1. j <= L
        BY <2>2
      <3>. QED BY <1>2, <2>2, <3>1
    <2>4. f[k] = IF k \in f[k + 1] THEN f[k + 1] \union Args(T[k]) ELSE f[k + 1]
      <3>1. k \in 1..(L + 1) /\ ~ (k > Len(T))
        BY <2>2
      <3>. QED BY <1>0, <3>1 DEF OriginAt
    <2>5. \A x \in Args(T[k]) : x \in 1..L /\ x < k
      BY <2>2, TableIs
    <2>6. ids \subseteq f[k] /\ f[k] \subseteq 1..L /\ f[k + 1] \subseteq f[k]
      BY <2>3, <2>4, <2>5
    <2>7. ASSUME NEW x \in f[k], x >= k PROVE Args(T[x]) \subseteq f[k]
      <3>1. x \in f[k + 1]
        BY <2>2, <2>4, <2>5, <2>6, <2>7
      <3>2. CASE x = k
        BY <2>4, <3>1, <3>2
      <3>3. CASE x # k
        <4>1. x >= k + 1
          <5>1. x \in Nat
            BY <2>6, <2>7
          <5>. QED BY ONLY <5>1, <2>2, <2>7, <3>3
        <4>. QED BY <2>3, <2>6, <3>1, <4>1
      <3>. QED BY <3>2, <3>3
    <2>. QED BY <2>2, <2>6, <2>7
  <1>3. L \in S
    <2>. HIDE DEF S
    <2>. QED BY <1>1, <1>2, SetInduction
  <1>4. Good(1)
    <2>. HIDE DEF Good
    <2>1. L + 1 - L = 1 /\ L <= L
      OBVIOUS
    <2>. QED BY <1>3, <2>1
  <1>5. \A x \in f[1] : x >= 1
    BY <1>4
  <1>. QED BY <1>4, <1>5 DEF ArgClosed

LEMMA OriginIs ==
  ASSUME IsTable(machine.table), NEW ids, ids \subseteq 1..Len(machine.table)
  PROVE  ArgClosed(machine.table, Origin(ids)) /\ ids \subseteq Origin(ids)
  <1>. DEFINE Is(f) == IsOrigin(machine.table, ids, Len(machine.table), f)
  <1>1. PICK L \in Nat : L = Len(machine.table)
    BY TableIs
  <1>2. \E f : Is(f)
    BY <1>1, OriginTurns
  <1>3. Origin(ids) = (CHOOSE f : Is(f))[1]
    BY Zenon DEF Origin, OriginAt, IsOrigin
  <1>4. PICK f : Is(f) /\ Origin(ids) = f[1]
    <2>1. Is(CHOOSE f : Is(f))
      BY <1>2, Zenon
    <2>. QED BY <1>3, <2>1, Zenon
  <1>5. PICK T : T = machine.table
    OBVIOUS
  <1>6. IsTable(T) /\ ids \subseteq 1..Len(T) /\ L = Len(T) /\ IsOrigin(T, ids, L, f)
    BY <1>1, <1>4, <1>5
  <1>7. ArgClosed(T, f[1]) /\ ids \subseteq f[1]
    BY ONLY <1>1, <1>6, OriginCloses
  <1>. QED BY <1>4, <1>5, <1>7

-----------------------------------------------------------------------------
(* What can be computed.                                                   *)

LEMMA LearnedHas ==
  ASSUME IsTable(machine.table), NEW S, NEW x
  PROVE  x \in Learned(S) <=>
           \/ x \in S
           \/ /\ x \in 1..Len(machine.table) /\ machine.table[x].f[1] # "seed"
              /\ Args(machine.table[x]) \subseteq S
           \/ \E k \in S : Invertible(machine.table[k], S) /\ x \in Args(machine.table[k])
  <1>1. DOMAIN machine.table = 1..Len(machine.table)
    BY TableIs
  <1>. QED BY <1>1, Zenon DEF Learned

LEMMA LearnedIs ==
  ASSUME IsTable(machine.table), NEW D, D = 1..Len(machine.table), NEW S \in SUBSET D
  PROVE  Learned(S) \in SUBSET D /\ S \subseteq Learned(S)
  <1>1. ASSUME NEW x \in Learned(S) PROVE x \in D
    <2>1. CASE \E k \in S : x \in Args(machine.table[k])
      BY <2>1, TableIs
    <2>. QED BY <1>1, <2>1, LearnedHas
  <1>2. ASSUME NEW x \in S PROVE x \in Learned(S)
    BY <1>2, LearnedHas
  <1>. QED BY <1>1, <1>2

LEMMA LearnedMore ==
  ASSUME IsTable(machine.table), NEW S, NEW C, S \subseteq C
  PROVE  Learned(S) \subseteq Learned(C)
  <1>. SUFFICES ASSUME NEW x \in Learned(S) PROVE x \in Learned(C)
    OBVIOUS
  <1>1. \A k \in S : Invertible(machine.table[k], S) => Invertible(machine.table[k], C)
    BY DEF Invertible
  <1>2. CASE x \in S
    BY <1>2, LearnedHas
  <1>3. CASE /\ x \in 1..Len(machine.table) /\ machine.table[x].f[1] # "seed"
             /\ Args(machine.table[x]) \subseteq S
    <2>1. Args(machine.table[x]) \subseteq C
      BY <1>3
    <2>. QED BY <1>3, <2>1, LearnedHas
  <1>4. CASE \E k \in S : Invertible(machine.table[k], S) /\ x \in Args(machine.table[k])
    <2>1. \E k \in C : Invertible(machine.table[k], C) /\ x \in Args(machine.table[k])
      BY <1>1, <1>4
    <2>. QED BY <2>1, LearnedHas
  <1>. QED BY <1>2, <1>3, <1>4, LearnedHas

\* One round tells nothing of what is sealed.
LEMMA LearnedSealed ==
  ASSUME IsTable(machine.table), NEW P, Sealed(machine.table, P), NEW D,
         D = 1..Len(machine.table), NEW S \in SUBSET D, \A x \in S : x \notin P
  PROVE  \A x \in Learned(S) : x \notin P
  <1>. SUFFICES ASSUME NEW x \in Learned(S), x \in P PROVE FALSE
    OBVIOUS
  <1>1. CASE /\ machine.table[x].f[1] # "seed" /\ Args(machine.table[x]) \subseteq S
    <2>1. ~ Apart(machine.table[x], P)
      BY <1>1 DEF Sealed
    <2>2. Apart(machine.table[x], P)
      BY <1>1 DEF Apart
    <2>. QED BY <2>1, <2>2
  <1>2. CASE \E k \in S : Invertible(machine.table[k], S) /\ x \in Args(machine.table[k])
    <2>1. PICK k \in S : Invertible(machine.table[k], S) /\ x \in Args(machine.table[k])
      BY <1>2
    <2>2. PICK t : t = machine.table[k]
      OBVIOUS
    <2>3. Opens(t.f)
      BY <2>1, <2>2 DEF Invertible, Opens
    <2>4. ~ Apart(t, P)
      BY <2>1, <2>2 DEF Apart
    <2>5. k \notin P /\ k \in 1..Len(machine.table)
      OBVIOUS
    <2>6. t.f[1] = "xor" /\ Args(t) \subseteq P
      BY <2>2, <2>3, <2>4, <2>5 DEF Sealed
    <2>7. Args(t) \intersect S # {}
      BY <2>1, <2>2, <2>6 DEF Invertible
    <2>. QED BY <2>6, <2>7
  <1>. QED BY <1>1, <1>2, LearnedHas

IsComputed(f, D) == f = [S \in SUBSET D |-> IF Learned(S) = S THEN S ELSE f[Learned(S)]]

LEMMA ComputedTurns ==
  ASSUME IsTable(machine.table), NEW D, D = 1..Len(machine.table)
  PROVE  \E f : IsComputed(f, D)
  <1>. DEFINE Closed == {C \in SUBSET D : Learned(C) = C}
              f == [S \in SUBSET D |-> {x \in D : \A C \in Closed : S \subseteq C => x \in C}]
  <1>1. \A C \in Closed : C \in SUBSET D /\ Learned(C) = C
    OBVIOUS
  <1>2. \A S \in SUBSET D : Learned(S) = S => S \in Closed
    OBVIOUS
  <1>. HIDE DEF Closed
  <1>3. \A S \in SUBSET D : \A x : x \in f[S] <=> x \in D /\ \A C \in Closed : S \subseteq C => x \in C
    OBVIOUS
  <1>4. f = [S \in SUBSET D |-> f[S]] /\ \A S \in SUBSET D : f[S] \subseteq D
    OBVIOUS
  <1>. HIDE DEF f
  <1>5. ASSUME NEW S \in SUBSET D PROVE f[S] = IF Learned(S) = S THEN S ELSE f[Learned(S)]
    <2>1. /\ Learned(S) \in SUBSET D /\ S \subseteq Learned(S)
          /\ \A C \in SUBSET D : S \subseteq C => Learned(S) \subseteq Learned(C)
      <3>1. Learned(S) \in SUBSET D /\ S \subseteq Learned(S)
        BY LearnedIs
      <3>2. \A C \in SUBSET D : S \subseteq C => Learned(S) \subseteq Learned(C)
        BY LearnedMore
      <3>. QED BY <3>1, <3>2
    <2>2. CASE Learned(S) = S
      <3>1. \A x : x \in f[S] <=> x \in S
        BY <1>2, <1>3, <2>2
      <3>. QED BY <2>2, <3>1
    <2>3. CASE Learned(S) # S
      <3>1. \A C \in Closed : S \subseteq C <=> Learned(S) \subseteq C
        <4>. SUFFICES ASSUME NEW C \in Closed PROVE S \subseteq C <=> Learned(S) \subseteq C
          OBVIOUS
        <4>1. S \subseteq C => Learned(S) \subseteq C
          BY <1>1, <2>1
        <4>. QED BY <2>1, <4>1
      <3>2. \A x : x \in f[S] <=> x \in f[Learned(S)]
        BY <1>3, <2>1, <3>1
      <3>. QED BY <2>3, <3>2
    <2>. QED BY <2>2, <2>3
  <1>6. f = [S \in SUBSET D |-> IF Learned(S) = S THEN S ELSE f[Learned(S)]]
    BY <1>4, <1>5
  <1>. QED BY <1>6 DEF IsComputed

\* Every round adds something, until nothing is left to add.
LEMMA ComputedSealed ==
  ASSUME IsTable(machine.table), NEW P, Sealed(machine.table, P), NEW D,
         D = 1..Len(machine.table), NEW f, IsComputed(f, D),
         NEW from \in SUBSET D, \A x \in from : x \notin P
  PROVE  \A x \in f[from] : x \notin P
  <1>. DEFINE Good(S) == \A x \in f[S] : x \notin P
              Least(n) == \A S \in SUBSET D :
                            Cardinality(D \ S) <= n /\ (\A x \in S : x \notin P) => Good(S)
              R == {n \in Nat : Least(n)}
  <1>1. IsFiniteSet(D)
    <2>1. Len(machine.table) \in Nat
      BY TableIs
    <2>. QED BY <2>1, FS_Interval
  <1>2. \A S \in SUBSET D : f[S] = IF Learned(S) = S THEN S ELSE f[Learned(S)]
    BY DEF IsComputed
  <1>3. ASSUME NEW S \in SUBSET D
        PROVE  /\ IsFiniteSet(D \ S) /\ Cardinality(D \ S) \in Nat
               /\ Learned(S) \in SUBSET D
               /\ Learned(S) # S => Cardinality(D \ Learned(S)) < Cardinality(D \ S)
    <2>1. Learned(S) \in SUBSET D /\ S \subseteq Learned(S)
      BY LearnedIs
    <2>2. IsFiniteSet(D \ S) /\ Cardinality(D \ S) \in Nat
      BY <1>1, FS_Difference, FS_CardinalityType
    <2>3. CASE Learned(S) # S
      <3>1. PICK x \in Learned(S) : x \notin S
        BY <2>1, <2>3
      <3>2. PICK A, B : A = D \ S /\ B = D \ Learned(S)
        OBVIOUS
      <3>3. B \subseteq A /\ B # A
        BY <2>1, <3>1, <3>2
      <3>4. IsFiniteSet(A) /\ Cardinality(A) \in Nat
        BY <2>2, <3>2
      <3>5. IsFiniteSet(B) /\ Cardinality(B) <= Cardinality(A)
            /\ (Cardinality(B) = Cardinality(A) => A = B)
        BY <3>3, <3>4, FS_Subset
      <3>6. Cardinality(B) \in Nat
        BY <3>5, FS_CardinalityType
      <3>7. Cardinality(B) < Cardinality(A)
        BY <3>3, <3>4, <3>5, <3>6
      <3>. QED BY <2>1, <2>2, <3>2, <3>7
    <2>. QED BY <2>1, <2>2, <2>3
  <1>4. 0 \in R
    <2>. SUFFICES ASSUME NEW S \in SUBSET D, Cardinality(D \ S) <= 0, \A x \in S : x \notin P
                  PROVE  Good(S)
      OBVIOUS
    <2>1. Learned(S) = S
      <3>1. CASE Learned(S) # S
        <4>1. Learned(S) \in SUBSET D /\ Cardinality(D \ Learned(S)) < Cardinality(D \ S)
          BY <1>3, <3>1
        <4>2. Cardinality(D \ Learned(S)) \in Nat /\ Cardinality(D \ S) \in Nat
          BY <1>3, <4>1
        <4>. QED BY <4>1, <4>2
      <3>. QED BY <3>1
    <2>. QED BY <1>2, <2>1
  <1>5. ASSUME NEW n \in Nat, n \in R PROVE n + 1 \in R
    <2>. SUFFICES ASSUME NEW S \in SUBSET D, Cardinality(D \ S) <= n + 1, \A x \in S : x \notin P
                  PROVE  Good(S)
      OBVIOUS
    <2>1. CASE Learned(S) = S
      BY <1>2, <2>1
    <2>2. CASE Learned(S) # S
      <3>1. Learned(S) \in SUBSET D /\ Cardinality(D \ Learned(S)) < Cardinality(D \ S)
        BY <1>3, <2>2
      <3>2. Cardinality(D \ Learned(S)) \in Nat /\ Cardinality(D \ S) \in Nat
        BY <1>3, <3>1
      <3>3. Cardinality(D \ Learned(S)) <= n
        BY <3>1, <3>2
      <3>4. \A x \in Learned(S) : x \notin P
        BY LearnedSealed
      <3>5. Good(Learned(S))
        BY <1>5, <3>1, <3>3, <3>4
      <3>6. f[S] = f[Learned(S)]
        BY <1>2, <2>2
      <3>. QED BY <3>5, <3>6
    <2>. QED BY <2>1, <2>2
  <1>6. PICK n \in Nat : n = Cardinality(D \ from)
    BY <1>3
  <1>7. n \in R
    <2>. HIDE DEF R
    <2>. QED BY <1>4, <1>5, SetInduction
  <1>8. Least(n)
    BY <1>7
  <1>9. n <= n
    BY <1>6
  <1>. QED BY <1>6, <1>8, <1>9

LEMMA ComputableSealed ==
  ASSUME IsTable(machine.table), NEW P, Sealed(machine.table, P),
         NEW from, from \subseteq 1..Len(machine.table), \A x \in from : x \notin P
  PROVE  \A x \in Computable(from) : x \notin P
  <1>. DEFINE Is(f) == IsComputed(f, DOMAIN machine.table)
  <1>1. PICK D : D = 1..Len(machine.table) /\ D = DOMAIN machine.table
    BY TableIs
  <1>2. \E f : Is(f)
    BY <1>1, ComputedTurns
  <1>3. Computable(from) = (CHOOSE f : Is(f))[from]
    BY Zenon DEF Computable, IsComputed
  <1>4. PICK f : Is(f) /\ Computable(from) = f[from]
    <2>1. Is(CHOOSE f : Is(f))
      BY <1>2, Zenon
    <2>. QED BY <1>3, <2>1, Zenon
  <1>5. IsComputed(f, D) /\ from \in SUBSET D
    BY <1>1, <1>4
  <1>6. \A x \in f[from] : x \notin P
    BY <1>1, <1>5, ComputedSealed
  <1>. QED BY <1>4, <1>6

-----------------------------------------------------------------------------
(* The properties.                                                         *)

LEMMA InvIs ==
  ASSUME DrbgInv
  PROVE  /\ IsMachine(machine) /\ IsTable(machine.table) /\ History(machine.table, putOut)
         /\ Outputs = Ids(putOut) /\ Outputs \subseteq 1..Len(machine.table)
         /\ \A r \in Lasting : machine.reg[r] \in 1..Len(machine.table)
         /\ Unused(drbg, machine) /\ Kept(drbg, machine, Outputs) /\ drbg \in Kinds
  <1>1. /\ IsMachine(machine) /\ History(machine.table, putOut)
        /\ Unused(drbg, machine) /\ Kept(drbg, machine, Ids(putOut)) /\ drbg \in Kinds
    BY DEF DrbgInv, Sound, Resting
  <1>2. Outputs = Ids(putOut)
    BY DEF Outputs, Ids
  <1>3. IsTable(machine.table) /\ \A r \in Registers : machine.reg[r] \in 1..Len(machine.table)
    BY <1>1 DEF IsMachine
  <1>4. \A r \in Lasting : machine.reg[r] \in 1..Len(machine.table)
    BY <1>3, Areas
  <1>. QED BY <1>1, <1>2, <1>3, <1>4, IdsIn

LEMMA InvNeverRepeats ==
  ASSUME DrbgInv PROVE NeverRepeats
  BY InvIs DEF NeverRepeats, History

LEMMA InvInputsCount ==
  ASSUME DrbgInv PROVE InputsCount
  <1>. SUFFICES ASSUME NEW i \in DOMAIN putOut
                PROVE  putOut[i].needs \subseteq Origin({putOut[i].id})
    BY DEF InputsCount
  <1>1. PICK x : x = putOut[i].id
    OBVIOUS
  <1>2. IsTable(machine.table) /\ x \in 1..Len(machine.table)
        /\ Counts(machine.table, x, putOut[i].needs)
    BY <1>1, InvIs DEF History
  <1>3. ArgClosed(machine.table, Origin({x})) /\ x \in Origin({x})
    <2>1. PICK ids : ids = {x}
      OBVIOUS
    <2>2. ids \subseteq 1..Len(machine.table)
      BY <1>2, <2>1
    <2>3. ArgClosed(machine.table, Origin(ids)) /\ ids \subseteq Origin(ids)
      BY <1>2, <2>2, OriginIs
    <2>. QED BY <2>1, <2>3
  <1>4. putOut[i].needs \subseteq Origin({x})
    BY <1>2, <1>3 DEF Counts
  <1>. QED BY <1>1, <1>4

LEMMA InvPastIsGone ==
  ASSUME DrbgInv PROVE PastIsGone
  <1>. SUFFICES ASSUME NEW o \in Outputs
                PROVE  o \notin Computable(Memory \union (Outputs \ {o}))
    BY DEF PastIsGone
  <1>1. PICK P : /\ Colours(machine, P, {}, Lasting) /\ o \in P
                 /\ \A x \in Outputs : x # o => x \notin P
    BY InvIs DEF Kept, Gone
  <1>2. PICK from : from = Memory \union (Outputs \ {o})
    OBVIOUS
  <1>3. \A x \in Memory : x \in 1..Len(machine.table) /\ x \notin P
    <2>1. "K" \in Lasting /\ "V" \in Lasting /\ "df" \in Lasting
      BY DEF Lasting
    <2>. QED BY <1>1, <2>1, InvIs DEF Memory, Colours
  <1>4. from \subseteq 1..Len(machine.table) /\ \A x \in from : x \notin P
    BY <1>1, <1>2, <1>3, InvIs
  <1>5. IsTable(machine.table) /\ Sealed(machine.table, P)
    BY <1>1, InvIs DEF Colours
  <1>6. \A x \in Computable(from) : x \notin P
    BY <1>4, <1>5, ComputableSealed
  <1>. QED BY <1>1, <1>2, <1>6

LEMMA InvFutureIsHidden ==
  ASSUME DrbgInv PROVE FutureIsHidden
  <1>. SUFFICES ASSUME machine.seeded, NEW r \in {"K", "V"}, machine.reg[r] \in Computable(Outputs)
                PROVE  machine.reg[r] = 1
    BY DEF FutureIsHidden
  <1>1. drbg \in Kinds /\ Unused(drbg, machine) /\ \A b \in BOOLEAN : Held(drbg, machine, b, Outputs)
    BY InvIs DEF Kept
  <1>2. ASSUME NEW b \in BOOLEAN PROVE r \notin Secret(drbg, b)
    <2>1. PICK P : /\ Colours(machine, P, Secret(drbg, b), Public(drbg, b))
                   /\ \A o \in Outputs : o \notin P
      BY <1>1, <1>2 DEF Held
    <2>2. \A x \in Computable(Outputs) : x \notin P
      BY <2>1, InvIs, ComputableSealed DEF Colours
    <2>. QED BY <2>1, <2>2 DEF Colours
  <1>3. r \notin Secret(drbg, TRUE)
    BY <1>2
  <1>4. CASE drbg = "xof"
    BY <1>1, <1>3, <1>4 DEF Secret, Unused
  <1>5. CASE drbg = "hash"
    BY <1>3, <1>5 DEF Secret
  <1>6. CASE drbg = "hmac"
    BY <1>3, <1>6 DEF Secret
  <1>7. CASE drbg = "ctr"
    BY <1>3, <1>7 DEF Secret
  <1>8. CASE drbg = "chacha"
    BY <1>1, <1>3, <1>8 DEF Secret, Unused
  <1>. QED BY <1>1, <1>4, <1>5, <1>6, <1>7, <1>8 DEF Kinds

\* No block of output is ever put out twice, across calls, reseeds and
\* re-instantiations of any of the five generators (lc_rng_generate,
\* lc_rng_seed, lc_rng_zero).
THEOREM DrbgNeverRepeats == DrbgSpec => []NeverRepeats
  <1>1. DrbgInv => NeverRepeats
    BY InvNeverRepeats
  <1>. QED BY <1>1, DrbgKeeps, PTL

\* Every block depends on every seed and personalization string since the
\* instantiation and on the additional input of its own call.
THEOREM DrbgInputsCount == DrbgSpec => []InputsCount
  <1>1. DrbgInv => InputsCount
    BY InvInputsCount
  <1>. QED BY <1>1, DrbgKeeps, PTL

\* Backtracking resistance: once a call has returned, nothing that was put out
\* can be computed from the memory and all the other outputs.
THEOREM DrbgPastIsGone == DrbgSpec => []PastIsGone
  <1>1. DrbgInv => PastIsGone
    BY InvPastIsGone
  <1>. QED BY <1>1, DrbgKeeps, PTL

\* The outputs do not tell the memory of a seeded generator.
THEOREM DrbgFutureIsHidden == DrbgSpec => []FutureIsHidden
  <1>1. DrbgInv => FutureIsHidden
    BY InvFutureIsHidden
  <1>. QED BY <1>1, DrbgKeeps, PTL
=============================================================================
