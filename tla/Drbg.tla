--------------------------------- MODULE Drbg ---------------------------------
(***************************************************************************)
(* The deterministic random number generators (drng/src): XDRBG (xdrbg.c;  *)
(* cshake_drng.c and kmac_drng.c do the same with other primitives),       *)
(* Hash_DRBG (hash_drbg.c), HMAC_DRBG (hmac_drbg.c), CTR_DRBG              *)
(* (ctr_drbg.c) and the ChaCha20 DRNG (chacha20_drng.c): what a caller may *)
(* do with one of them, in any order, and what can be computed from what.  *)
(*                                                                         *)
(* A generator is a straight-line program over named registers.  Values    *)
(* are symbolic: a table holds each value computed so far as the name of a *)
(* function and the indices of its arguments; a register is an index.      *)
(* Functions are one-way but for "xor".                                    *)
(***************************************************************************)
EXTENDS Integers, Sequences

CONSTANTS
  Drbgs,         \* a subset of {"xof", "hash", "hmac", "ctr", "chacha"}
  DrbgRequests,  \* lengths of requests, in blocks (ChaCha20: words)
  ChunkSize,     \* XDRBG: blocks squeezed from one XOF state
  KeyWords,      \* words of a ChaCha20 key; a block has twice as many
  DrbgMax        \* bound: number of calls

ASSUME DrbgAssumption ==
  /\ Drbgs \subseteq {"xof", "hash", "hmac", "ctr", "chacha"}
  /\ DrbgRequests \subseteq Nat /\ ChunkSize \in Nat \ {0}
  /\ KeyWords \in Nat \ {0} /\ DrbgMax \in Nat

VARIABLES
  drbg,          \* the generator
  machine,       \* its memory, and the values computed so far
  putOut,        \* history: the values put out, each with the inputs of the
                 \* caller it has to depend on
  seeds,         \* history: the seeds and personalizations since zero
  drbgCalls      \* number of calls so far

drbgVars == <<drbg, machine, putOut, seeds, drbgCalls>>

-----------------------------------------------------------------------------
(* The machine.                                                            *)

Registers == {"K", "V", "df",          \* the state of the generator
              "in", "opt",             \* the inputs of a call
              "T", "A", "B", "out"}    \* scratch memory, zeroized

Term(f, of) == [f |-> f, of |-> of]
F(name) == <<name, 0>>

\* The value 1 is a constant that everybody knows.
Blank == [table |-> <<Term(F("zero"), <<>>)>>,
          reg   |-> [r \in Registers |-> 1],
          seeded |-> FALSE,
          ctr   |-> 0,     \* reseed_ctr; offset of V; counter of the block
          nonce |-> 0,
          out   |-> <<>>]

\* Register to takes the value of f on the registers of.
Set(to, f, of) == [to |-> to, f |-> f, of |-> of]

Store(m, to, v) ==
  LET known == {i \in DOMAIN m.table : m.table[i] = v}
      id == IF known = {} THEN Len(m.table) + 1
            ELSE CHOOSE i \in known : TRUE
  IN [m EXCEPT !.table = IF known = {} THEN Append(@, v) ELSE @,
               !.reg[to] = id,
               !.out = IF to = "out" THEN Append(@, id) ELSE @]

Do(m, s) == Store(m, s.to, Term(s.f, [j \in DOMAIN s.of |-> m.reg[s.of[j]]]))

Execute(m, program) ==
  LET after[i \in 0..Len(program)] ==
        IF i = 0 THEN m ELSE Do(after[i - 1], program[i])
  IN after[Len(program)]

\* One program after the other.
Repeat(m, programs) ==
  LET after[i \in 0..Len(programs)] ==
        IF i = 0 THEN m ELSE Execute(after[i - 1], programs[i])
  IN after[Len(programs)]

-----------------------------------------------------------------------------
(* XDRBG.  The first output of an XOF state replaces V (fast key erasure). *)

MutForgetsV(m, in) ==
  [Execute(m, <<Set("T", F("instantiate"), in), Set("V", F("first"), <<"T">>)>>)
   EXCEPT !.seeded = TRUE]

XofSeed(m, in) ==
  [Execute(m, << IF m.seeded THEN Set("T", F("reseed"), <<"V">> \o in)
                 ELSE Set("T", F("instantiate"), in),
                 Set("V", F("first"), <<"T">>) >>) EXCEPT !.seeded = TRUE]

XofGenerate(m, n, in) ==
  LET chunk(c) ==
        LET todo == IF c * ChunkSize <= n THEN ChunkSize ELSE n % ChunkSize
        IN << Set("T", F("generate"), <<"V">> \o in),
              Set("V", F("first"), <<"T">>) >>
           \o [i \in 1..todo |-> Set("out", <<"rest", i>>, <<"T">>)]
  IN Repeat(m, [c \in 1..((n + ChunkSize - 1) \div ChunkSize) |-> chunk(c)])

-----------------------------------------------------------------------------
(* Hash_DRBG.  K is the constant C of the code.                            *)

HashSeed(m, in) ==
  [Execute(m, << Set("V", F("df"), IF m.seeded THEN <<"V">> \o in ELSE in),
                 Set("K", F("df0"), <<"V">>) >>)
   EXCEPT !.seeded = TRUE, !.ctr = 0]

\* The outputs are hashes of V, V + 1 and so on; V then moves by its hash, the
\* constant and the counter.
MutStays(ctr) == <<>>

HashMoves(ctr) == <<Set("V", <<"next", ctr>>, <<"V", "K">>)>>

HashGenerate(m, n, in) ==
  LET ctr == m.ctr + 1
      addtl == IF in = <<>> THEN <<>> ELSE <<Set("V", F("add"), <<"V">> \o in)>>
      hashgen == [i \in 1..n |-> Set("out", <<"hash", i>>, <<"V">>)]
      moves == IF n = 0 THEN <<>> ELSE HashMoves(ctr)
  IN [Execute(m, addtl \o hashgen \o moves) EXCEPT !.ctr = ctr]

-----------------------------------------------------------------------------
(* HMAC_DRBG.  K is C of the code.                                         *)

\* drbg_hmac_update; the second round only with input.
HmacRound(prefix, in) ==
  << Set("K", <<"hmac", prefix>>, <<"K", "V">> \o in),
     Set("V", F("hmac-V"), <<"K", "V">>) >>

HmacUpdates(m, in) ==
  (IF m.seeded THEN <<>> ELSE <<Set("V", F("ones"), <<>>)>>)
    \o HmacRound(0, in)
    \o (IF in = <<>> THEN <<>> ELSE HmacRound(1, in))

HmacSeed(m, in) == [Execute(m, HmacUpdates(m, in)) EXCEPT !.seeded = TRUE]

HmacGenerate(m, n, in) ==
  LET block == << Set("V", F("hmac-V"), <<"K", "V">>),
                  Set("out", F("copy"), <<"V">>) >>
      d == IF in = <<>> THEN m ELSE Execute(m, HmacUpdates(m, in))
  IN IF n = 0 THEN d
     ELSE Execute(Repeat(d, [i \in 1..n |-> block]), HmacUpdates(m, in))

-----------------------------------------------------------------------------
(* CTR_DRBG.  V of the code is the register V plus ctr; a key takes two    *)
(* blocks.  df holds the derived input from one update to the next.        *)

AesAt(to, at) == Set(to, <<"aes", at>>, <<"K", "V">>)

\* drbg_ctr_update: with "reseed" 3 the input derived before is used, with 2
\* it is kept.
CtrUpdate(m, in, reseed) ==
  LET at == IF reseed = 0 THEN m.ctr + 1 ELSE m.ctr
      derive == IF in # <<>> THEN <<Set("df", F("df"), in)>>
                ELSE IF reseed < 3 THEN <<Set("df", F("zero"), <<>>)>> ELSE <<>>
      clear == IF reseed = 2 THEN <<>> ELSE <<Set("df", F("zero"), <<>>)>>
  IN [Execute(m, derive
        \o << AesAt("A", at), AesAt("B", at + 1), AesAt("T", at + 2),
              Set("A", F("xor"), <<"A", "df">>), Set("B", F("xor"), <<"B", "df">>),
              Set("K", F("cat"), <<"A", "B">>), Set("V", F("xor"), <<"T", "df">>) >>
        \o clear)
      EXCEPT !.ctr = 1]

CtrSeed(m, in) ==
  [CtrUpdate(m, in, IF m.seeded THEN 1 ELSE 0) EXCEPT !.seeded = TRUE]

\* The blocks put out, and V as the cipher leaves it.
MutNoGetIv(m, n) ==
  Execute(m, [i \in 1..n |-> AesAt("out", m.ctr + i - 1)])

CtrBlocks(m, n) ==
  [Execute(m, [i \in 1..n |-> AesAt("out", m.ctr + i - 1)])
   EXCEPT !.ctr = @ + n]

CtrDrbgGenerate(m, n, in) ==
  LET d == IF in = <<>> THEN m ELSE CtrUpdate(m, in, 2)
  IN IF n = 0 THEN d ELSE CtrUpdate(CtrBlocks(d, n), <<>>, 3)

-----------------------------------------------------------------------------
(* ChaCha20.  T is the last block computed, K the key.                     *)

BlockOf(m) == Set("T", <<"block", m.nonce, m.ctr>>, <<"K">>)
Computed(m) == [Execute(m, <<BlockOf(m)>>) EXCEPT !.ctr = @ + 1]

\* lc_cc20_drng_update: the key is changed by words of the last block that
\* were not put out, or by a new block if too few are left.
MutTakesAny(used) == FALSE

TooFewLeft(used) == used > KeyWords

ChaChaUpdate(m, used) ==
  LET d == IF TooFewLeft(used) THEN Computed(m) ELSE m
      from == IF TooFewLeft(used) THEN 0 ELSE used % (2 * KeyWords)
      word(j) == <<Set("A", <<"word", from + j>>, <<"T">>),
                   Set("K", F("xor"), <<"K", "A">>)>>
  IN [Repeat(d, [j \in 1..KeyWords |-> word(j)]) EXCEPT !.nonce = @ + 1]

ChaChaSeed(m, in) ==
  [ChaChaUpdate(Execute(m, <<Set("K", F("xor"), <<"K", "in">>)>>), 2 * KeyWords)
   EXCEPT !.seeded = TRUE]

ChaChaGenerate(m, n, in) ==
  LET size == 2 * KeyWords
      words(d, k) ==
        Execute(d, [j \in 1..k |-> Set("out", <<"word", j>>, <<"T">>)])
      full[b \in 0..(n \div size)] ==
        IF b = 0 THEN m ELSE words(Computed(full[b - 1]), size)
      rest == n % size
  IN IF rest = 0 THEN ChaChaUpdate(full[n \div size], size)
     ELSE ChaChaUpdate(words(Computed(full[n \div size]), rest), rest)

-----------------------------------------------------------------------------
(* The dispatch of rng_api.c.  Inputs of the caller are new values.        *)

Seeded(m, in) == CASE drbg = "xof"    -> XofSeed(m, in)
                   [] drbg = "hash"   -> HashSeed(m, in)
                   [] drbg = "hmac"   -> HmacSeed(m, in)
                   [] drbg = "ctr"    -> CtrSeed(m, in)
                   [] drbg = "chacha" -> ChaChaSeed(m, in)

Generates(m, n, in) == CASE drbg = "xof"    -> XofGenerate(m, n, in)
                         [] drbg = "hash"   -> HashGenerate(m, n, in)
                         [] drbg = "hmac"   -> HmacGenerate(m, n, in)
                         [] drbg = "ctr"    -> CtrDrbgGenerate(m, n, in)
                         [] drbg = "chacha" -> ChaChaGenerate(m, n, in)

DrbgInit ==
  /\ drbg \in Drbgs
  /\ machine = Blank
  /\ putOut = <<>> /\ seeds = {} /\ drbgCalls = 0

\* The input of a call: a seed is secret, an additional input is not.
Input(m, to, kind) == Store(m, to, Term(<<kind, drbgCalls>>, <<>>))

\* Scratch memory is zeroized when a call returns.
Done(m) ==
  [m EXCEPT !.reg = [r \in Registers |->
                       IF r \in {"K", "V", "df"} THEN @[r] ELSE 1],
            !.out = <<>>]

\* lc_rng_seed, with or without a personalization string; ChaCha20 refuses one.
DrbgSeed(pers) ==
  LET m == Input(machine, "in", "seed")
      d == IF pers THEN Input(m, "opt", "public") ELSE m
  IN /\ drbgCalls < DrbgMax
     /\ pers => drbg # "chacha"
     /\ machine' = Done(Seeded(d, IF pers THEN <<"in", "opt">> ELSE <<"in">>))
     /\ seeds' = seeds \union ({d.reg["in"], d.reg["opt"]} \ {1})
     /\ drbgCalls' = drbgCalls + 1
     /\ UNCHANGED <<drbg, putOut>>

\* lc_rng_generate on a seeded generator.
DrbgGenerate(n, addtl) ==
  LET d == IF addtl THEN Input(machine, "opt", "public") ELSE machine
      r == Generates(d, n, IF addtl THEN <<"opt">> ELSE <<>>)
      needs == seeds \union ({d.reg["opt"]} \ {1})
  IN /\ drbgCalls < DrbgMax
     /\ machine.seeded
     /\ addtl => drbg # "chacha"
     /\ machine' = Done(r)
     /\ putOut' = putOut \o [i \in DOMAIN r.out |-> [id |-> r.out[i],
                                                    needs |-> needs]]
     /\ drbgCalls' = drbgCalls + 1
     /\ UNCHANGED <<drbg, seeds>>

\* lc_rng_zero; what was computed before is still known to the callers.
DrbgZero ==
  /\ drbgCalls < DrbgMax
  /\ machine' = [Blank EXCEPT !.table = machine.table]
  /\ seeds' = {}
  /\ drbgCalls' = drbgCalls + 1
  /\ UNCHANGED <<drbg, putOut>>

DrbgNext ==
  \/ \E pers \in BOOLEAN : DrbgSeed(pers)
  \/ \E n \in DrbgRequests, addtl \in BOOLEAN : DrbgGenerate(n, addtl)
  \/ DrbgZero

DrbgSpec == DrbgInit /\ [][DrbgNext]_drbgVars

-----------------------------------------------------------------------------
(* What can be computed.                                                   *)

Args(t) == {t.of[j] : j \in DOMAIN t.of}

\* One round: a value from its arguments, the arguments from what can be taken
\* apart.
Invertible(t, known) ==
  \/ t.f[1] \in {"cat", "copy"}
  \/ t.f[1] = "xor" /\ Args(t) \intersect known # {}

Learned(known) ==
  LET table == machine.table
  IN known
     \union {i \in DOMAIN table :
               table[i].f[1] # "seed" /\ Args(table[i]) \subseteq known}
     \union UNION {Args(table[i]) :
                     i \in {k \in known : Invertible(table[k], known)}}

Computable(from) ==
  LET known[S \in SUBSET DOMAIN machine.table] ==
        IF Learned(S) = S THEN S ELSE known[Learned(S)]
  IN known[from]

Memory == {machine.reg["K"], machine.reg["V"], machine.reg["df"]}
Outputs == {putOut[i].id : i \in DOMAIN putOut}

\* The values a value was made from.  Arguments are older than their value, so
\* that one pass through the table finds all of them.
Origin(ids) ==
  LET table == machine.table
      origin[i \in 1..Len(table) + 1] ==     \* entries from i on are expanded
        IF i > Len(table) THEN ids
        ELSE LET S == origin[i + 1]
             IN IF i \in S THEN S \union Args(table[i]) ELSE S
  IN origin[1]

-----------------------------------------------------------------------------
(* Properties.                                                             *)

\* Backtracking resistance (xdrbg.c:118-123, chacha20_drng.c:95-100): once a
\* call has returned, nothing that was put out before can be computed from the
\* state and all the other outputs.
PastIsGone ==
  \A o \in Outputs : o \notin Computable(Memory \union (Outputs \ {o}))

\* The outputs do not tell the state: no part of it can be computed from them.
FutureIsHidden ==
  machine.seeded =>
    {machine.reg["K"], machine.reg["V"]} \intersect Computable(Outputs) \subseteq {1}

\* No block of output is ever put out again, in this call or a later one,
\* across reseeds and re-instantiations.
NeverRepeats ==
  \A i, j \in DOMAIN putOut : putOut[i].id = putOut[j].id => i = j

\* Every block of output depends on every seed and personalization string since
\* the instantiation, and on the additional input of its own call.
InputsCount ==
  \A i \in DOMAIN putOut : putOut[i].needs \subseteq Origin({putOut[i].id})
=============================================================================
