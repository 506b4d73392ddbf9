-------------------------------- MODULE KyberKex -------------------------------
(***************************************************************************)
(* The authenticated key exchanges on top of ML-KEM                        *)
(* (ml-kem/src/kyber_kex.c behind the typed API of kyber_api.c): UAKE and  *)
(* AKE between parties with static keys, over a network that loses,        *)
(* repeats, reorders and crosses messages, with retries of the initiator   *)
(* and failures of the random number generator in the middle of a call.    *)
(*                                                                         *)
(* ML-KEM is ideal: a ciphertext is its public key and the coin of the     *)
(* encapsulation, its shared secret names both.  Decapsulating with a      *)
(* wrong key of the right type succeeds and yields the rejection secret.   *)
(***************************************************************************)
EXTENDS Integers, FiniteSets

CONSTANTS
  Party,         \* parties, each with a static key
  TypeOf,        \* kyber_type of the static key of each: positive integers
  Nonces,        \* kdf_nonce
  MaxDraws,      \* bound: calls that draw random values
  MaxDone        \* bound: secrets of initiators

ASSUME KexAssumption ==
  /\ TypeOf \in [Party -> Nat \ {0}]
  /\ MaxDraws \in Nat /\ MaxDone \in Nat

VARIABLES
  protocol,      \* "uake" or "ake"
  mem,           \* what each initiator keeps between its calls
  inits,         \* initiator's messages that were sent: [pk, ct]
  answers,       \* responder's messages that were sent: [ct1, ct2]
  draws,         \* number of calls that drew random values
  initDone,      \* history: secrets of initiators, each with its exchange
  respDone       \* history: likewise of responders

kexVars == <<protocol, mem, inits, answers, draws, initDone, respDone>>

-----------------------------------------------------------------------------
(* ML-KEM.  A key stands for both of its halves.                           *)

Static(p) == [type |-> TypeOf[p], of |-> p]
Ephemeral(t) == [type |-> t, of |-> draws]
Unset == [type |-> 0, of |-> -1]

\* lc_kyber_enc: the ciphertext gets the tag of the public key.
Enc(pk, coin) == [type |-> pk.type, to |-> pk, coin |-> coin]
Ss(pk, coin) == <<"ss", pk, coin>>

\* _lc_kyber_dec with implicit rejection.
Dec(ct, sk) == IF ct.to = sk THEN Ss(sk, ct.coin) ELSE <<"reject", sk, ct>>

\* kyber_kdf3 and kyber_kdf4.
MutNoEphemeral(ss1, ss2, nonce) == <<"3-way", ss2, nonce>>

Kdf3(ss1, ss2, nonce) == <<"3-way", ss1, ss2, nonce>>

Kdf4(ss1, ss2, ss3, nonce) == <<"4-way", ss1, ss2, ss3, nonce>>

\* mem: the tag of all four objects, pk_e_i (for sk_e too), ct_e_i and tk; and
\* whom the caller means to talk to.
KexInit ==
  /\ protocol \in {"uake", "ake"}
  /\ mem = [i \in Party |-> [tag |-> 0, key |-> Unset, ct |-> Enc(Unset, 0),
                              tk |-> <<"unset">>, peer |-> i]]
  /\ inits = {} /\ answers = {} /\ draws = 0
  /\ initDone = {} /\ respDone = {}

-----------------------------------------------------------------------------
(* The initiator.                                                          *)

\* lc_kex_uake_initiator_init, lc_kex_ake_initiator_init; perhaps once more.
InitiatorInit(i, r) ==
  LET key == Ephemeral(TypeOf[r])
      ct == Enc(Static(r), draws)
  IN /\ draws < MaxDraws
     /\ mem' = [mem EXCEPT ![i] = [tag |-> TypeOf[r], key |-> key, ct |-> ct,
                                   tk |-> Ss(Static(r), draws), peer |-> r]]
     /\ inits' = inits \union {[key |-> key, ct |-> ct]}
     /\ draws' = draws + 1
     /\ UNCHANGED <<protocol, answers, initDone, respDone>>

\* It fails for want of random numbers: the tags are set already, later the
\* key pair is made too.  Nothing is sent, but an earlier message may still be
\* answered.
InitiatorInitFails(i, r, later) ==
  /\ draws < MaxDraws
  /\ mem' = [mem EXCEPT
       ![i].tag = TypeOf[r],
       ![i].key = IF later THEN Ephemeral(TypeOf[r]) ELSE @]
  /\ draws' = draws + 1
  /\ UNCHANGED <<protocol, inits, answers, initDone, respDone>>

MutOrder(i, ct1, ct2, nonce) ==
  LET m == mem[i]
  IN IF protocol = "uake" THEN Kdf3(Dec(ct1, m.key), m.tk, nonce)
     ELSE Kdf4(Dec(ct1, m.key), m.tk, Dec(ct2, Static(i)), nonce)

InitiatorSecret(i, ct1, ct2, nonce) ==
  LET m == mem[i]
  IN IF protocol = "uake" THEN Kdf3(Dec(ct1, m.key), m.tk, nonce)
     ELSE Kdf4(Dec(ct1, m.key), Dec(ct2, Static(i)), m.tk, nonce)

\* lc_kex_uake_initiator_ss, lc_kex_ake_initiator_ss: for any answer, late or
\* repeated, and in AKE two halves of answers.  The tags have to agree, and a
\* key left under another tag is no consistent one (kyber_kem_iv_sk).
InitiatorSs(i, a1, a2, nonce) ==
  LET m == mem[i]
      ct1 == a1.ct1
      ct2 == a2.ct2
  IN /\ Cardinality(initDone) < MaxDone
     /\ ct1.type = m.tag /\ m.key.type = m.tag
     /\ IF protocol = "ake" THEN ct2.type = m.tag /\ TypeOf[i] = m.tag
        ELSE a1 = a2
     /\ initDone' = initDone \union
          {[by |-> i, peer |-> m.peer, key |-> m.key, ct |-> m.ct, ct1 |-> ct1,
            ct2 |-> ct2, nonce |-> nonce,
            secret |-> InitiatorSecret(i, ct1, ct2, nonce)]}
     /\ UNCHANGED <<protocol, mem, inits, answers, draws, respDone>>

-----------------------------------------------------------------------------
(* The responder keeps nothing.                                            *)

ResponderSecret(r, i, key, ct, nonce) ==
  IF protocol = "uake" THEN Kdf3(Ss(key, draws), Dec(ct, Static(r)), nonce)
  ELSE Kdf4(Ss(key, draws), Ss(Static(i), draws), Dec(ct, Static(r)), nonce)

\* lc_kex_uake_responder_ss, lc_kex_ake_responder_ss: the halves of the input
\* may come from two messages, meant for others, answered before or not the
\* latest.  In AKE the caller says who the initiator is.
ResponderSs(r, i, m1, m2, nonce) ==
  LET key == m1.key
      ct == m2.ct
      answer == [ct1 |-> Enc(key, draws), ct2 |-> Enc(Static(i), draws)]
  IN /\ draws < MaxDraws
     /\ key.type = ct.type /\ key.type = TypeOf[r]
     /\ IF protocol = "ake" THEN key.type = TypeOf[i] ELSE i = r
     /\ answers' = answers \union {answer}
     /\ respDone' = respDone \union
          {[by |-> r, peer |-> i, key |-> key, ct |-> ct, ct1 |-> answer.ct1,
            ct2 |-> answer.ct2, nonce |-> nonce,
            secret |-> ResponderSecret(r, i, key, ct, nonce)]}
     /\ draws' = draws + 1
     /\ UNCHANGED <<protocol, mem, inits, initDone>>

KexNext ==
  \/ \E i, r \in Party : InitiatorInit(i, r)
  \/ \E i, r \in Party, later \in BOOLEAN : InitiatorInitFails(i, r, later)
  \/ \E i \in Party, a1, a2 \in answers, nonce \in Nonces :
       InitiatorSs(i, a1, a2, nonce)
  \/ \E r, i \in Party, m1, m2 \in inits, nonce \in Nonces :
       ResponderSs(r, i, m1, m2, nonce)

KexSpec == KexInit /\ [][KexNext]_kexVars

-----------------------------------------------------------------------------
(* Properties.                                                             *)

\* Have the two calls seen the same exchange?
SameExchange(a, b) ==
  /\ a.peer = b.by
  /\ a.key = b.key /\ a.ct = b.ct /\ a.ct1 = b.ct1 /\ a.nonce = b.nonce
  /\ protocol = "ake" => a.ct2 = b.ct2 /\ b.peer = a.by

\* An initiator and a responder share a secret if and only if they took part
\* in the same exchange and each is the one the other meant: whatever was
\* lost, repeated, crossed, started again or failed half way.
SecretsMatchExactly ==
  \A a \in initDone, b \in respDone :
    a.secret = b.secret <=> SameExchange(a, b)

\* Each call of the responder makes a secret of its own, be its input one that
\* it has answered before.
SecretsFresh ==
  \A b, c \in respDone : b.secret = c.secret => b = c
=============================================================================
