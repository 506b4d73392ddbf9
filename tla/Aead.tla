--------------------------------- MODULE Aead ---------------------------------
(***************************************************************************)
(* Authenticated encryption over streams (aead/src): AES-GCM (gcm.c),      *)
(* ChaCha20-Poly1305 (chacha20poly1305.c) and Ascon (ascon.c).  One context *)
(* seals a message, perhaps after others were given up half way, and is    *)
(* then set up again to open what arrives, cut into other pieces and       *)
(* perhaps changed on its way.                                             *)
(*                                                                         *)
(* R is the block size of AES and Poly1305, the length of a ChaCha20 block *)
(* and the rate of Ascon.  An atom is a tuple that begins with a string.   *)
(* A byte of key stream is known by its block and its position; a byte of  *)
(* ciphertext is a record [past, at, xor] of these and of the atoms that   *)
(* were XORed to it.                                                       *)
(***************************************************************************)
EXTENDS Sponge, FiniteSets

CONSTANTS
  Aeads,         \* a subset of {"gcm", "chacha", "ascon"}
  Chunks,        \* lengths of the pieces
  Starts,        \* GCM: initial counters (1 for an IV of 12 bytes)
  CtrMod,        \* GCM: number of counter values, 2^32
  MaxAad,        \* bound: length of the additional data
  MaxData,       \* bound: length of the message
  MaxIvs         \* bound: number of setkey calls for sealing

ASSUME AeadAssumption ==
  /\ RateAssumption
  /\ Aeads \subseteq {"gcm", "chacha", "ascon"} /\ Chunks \subseteq Nat
  /\ CtrMod \in Nat \ {0, 1} /\ Starts \subseteq 0..CtrMod - 1
  /\ MaxAad \in Nat /\ MaxData \in Nat /\ MaxIvs \in Nat \ {0}

VARIABLES
  aead,          \* the algorithm
  cryptor,       \* ctx->aead_state
  stage,         \* where the caller is: seal-aad, seal, wire, open-aad, open,
                 \* done
  iv,            \* <<number, initial counter>>
  sealed,        \* history: [aad, pt] given to the sealing calls
  wire,          \* what arrives: [aad, ct, tag]
  tampered,      \* history: is it not what was sealed?
  opened,        \* [aad, pt]: what the opening calls took and put out
  verdict,       \* of dec_final: "none", "ok" or "EBADMSG"
  refused,       \* history: was an update refused for the length?
  regular        \* history: are the calls those of the one-shot functions,
                 \* but for the pieces?

aeadVars == <<aead, cryptor, stage, iv, sealed, wire, tampered, opened, verdict,
              refused, regular>>

-----------------------------------------------------------------------------
(* Bytes.                                                                  *)

Plain(i) == <<"pt", i>>
Cover(past, at, p) == [past |-> past, at |-> at, xor |-> {p}]
Nought == [past |-> <<>>, at |-> 0, xor |-> {}]

\* The ciphertext byte b without the key stream byte at of past.
Uncover(past, at, b) ==
  IF b.past = past /\ b.at = at /\ Cardinality(b.xor) = 1
  THEN CHOOSE p \in b.xor : TRUE
  ELSE <<"garbage", b, at>>

Authentic(b) == <<"ct", b>>       \* a ciphertext byte as input of a MAC
Zeros(n) == [i \in 1..n |-> <<"zero">>]

\* A call that handles the bytes of in one by one; step yields [ctx, out].
Bytewise(step(_, _), c, in) ==
  LET after[i \in 0..Len(in)] ==
        IF i = 0 THEN [ctx |-> c, out |-> <<>>]
        ELSE LET r == step(after[i - 1].ctx, in[i])
             IN [ctx |-> r.ctx, out |-> Append(after[i - 1].out, r.out)]
  IN after[Len(in)]

-----------------------------------------------------------------------------
(* GCM.  The hash state buf is that of a sponge with gcm_mult as the       *)
(* permutation.  y is the last counter block, ectr the one last encrypted. *)

GcmFresh == [buf |-> EmptyState, y |-> <<0, 0>>, base |-> <<0, 0>>, aad_len |-> 0,
             len |-> 0, rem_aad_inserted |-> FALSE]

\* gcm_setiv.
GcmSetIv(c, v) == [buf |-> EmptyState, y |-> v, base |-> v, aad_len |-> 0,
                   len |-> 0, rem_aad_inserted |-> FALSE]

GcmHashed(c, at, b) ==
  LET s == Xor(c.buf, at, <<b>>) IN IF at + 1 = R THEN Permute(s) ELSE s

GcmAadByte(c, b) ==
  [ctx |-> [c EXCEPT !.buf = GcmHashed(c, c.aad_len % R, b), !.aad_len = @ + 1],
   out |-> b]

GcmAad(c, in) == Bytewise(GcmAadByte, c, in).ctx

\* The rest of the AAD is hashed by the first update.
GcmFinishAad(c) ==
  IF c.aad_len % R # 0 /\ ~c.rem_aad_inserted
  THEN [c EXCEPT !.buf = Permute(@), !.rem_aad_inserted = TRUE]
  ELSE c

\* A new counter block at the start of a block of data.
GcmCounted(c) ==
  IF c.len % R = 0 THEN [c EXCEPT !.y[2] = (@ + 1) % CtrMod] ELSE c

GcmSealByte(c, p) ==
  LET d == GcmCounted(c)
      b == Cover(d.y, c.len % R, p)
  IN [ctx |-> [d EXCEPT !.buf = GcmHashed(d, c.len % R, Authentic(b)),
                        !.len = @ + 1],
      out |-> b]

GcmOpenByte(c, b) ==
  LET d == GcmCounted(c)
  IN [ctx |-> [d EXCEPT !.buf = GcmHashed(d, c.len % R, Authentic(b)),
                        !.len = @ + 1],
      out |-> Uncover(d.y, c.len % R, b)]

MutOneTooMany(len) == len > CtrMod * R

TooLong(len) == len > (CtrMod - 1) * R

\* gcm_enc_update beyond the limit counts the data and puts out zeros.
GcmSeal(c, in) ==
  LET d == GcmFinishAad(c)
  IN IF TooLong(c.len + Len(in))
     THEN [ctx |-> [d EXCEPT !.len = @ + Len(in)],
           out |-> [i \in 1..Len(in) |-> Nought]]
     ELSE Bytewise(GcmSealByte, d, in)

GcmOpen(c, in) == Bytewise(GcmOpenByte, GcmFinishAad(c), in)

MutNoLengths(c) ==
  <<"gcm", c.base, IF c.len % R = 0 THEN c.buf ELSE Permute(c.buf)>>

GcmTag(c) ==
  LET s == IF c.len % R = 0 THEN c.buf ELSE Permute(c.buf)
      lengths == <<"lengths", c.aad_len, c.len>>
  IN IF c.len = 0 /\ c.aad_len = 0 THEN <<"gcm", c.base, EmptyState>>
     ELSE <<"gcm", c.base, Permute(Xor(s, 0, <<lengths>>))>>

-----------------------------------------------------------------------------
(* ChaCha20-Poly1305.  poly1305 is the sequence of the bytes that were     *)
(* given to lc_poly1305_update, key the IV its key was derived from.       *)

ChaFresh == [key |-> <<0, 0>>, counter |-> 0, keystream_ptr |-> 0, poly1305 |-> <<>>,
             aadlen |-> 0, datalen |-> 0]

\* lc_chacha20_poly1305_setiv_internal: block 0 is the key of Poly1305.
MutKeepsDatalen(c, v) == [key |-> v, counter |-> 1, keystream_ptr |-> 0,
                          poly1305 |-> <<>>, aadlen |-> 0, datalen |-> c.datalen]

ChaSetIv(c, v) == [key |-> v, counter |-> 1, keystream_ptr |-> 0,
                   poly1305 |-> <<>>, aadlen |-> 0, datalen |-> 0]

ChaAad(c, in) == [c EXCEPT !.poly1305 = @ \o in, !.aadlen = @ + Len(in)]

\* lc_chacha20_poly1305_aad_pad: an update before which there was no data.
ChaPadAad(c) ==
  IF c.datalen # 0 \/ c.aadlen = 0 THEN c
  ELSE [c EXCEPT !.poly1305 = @ \o Zeros(R - (c.aadlen % R))]

\* cc20_crypt: the block that was computed last has number counter - 1.
ChaStream(c) ==
  IF c.keystream_ptr \in {0, R}
  THEN [c EXCEPT !.counter = @ + 1, !.keystream_ptr = 1]
  ELSE [c EXCEPT !.keystream_ptr = @ + 1]

ChaBlock(c) == <<c.key, c.counter - 1>>

ChaSealByte(c, p) ==
  LET d == ChaStream(c)
  IN [ctx |-> d, out |-> Cover(ChaBlock(d), d.keystream_ptr - 1, p)]

ChaOpenByte(c, b) ==
  LET d == ChaStream(c)
  IN [ctx |-> d, out |-> Uncover(ChaBlock(d), d.keystream_ptr - 1, b)]

ChaMac(c, ct) ==
  [c EXCEPT !.poly1305 = @ \o [i \in 1..Len(ct) |-> Authentic(ct[i])],
            !.datalen = @ + Len(ct)]

ChaSeal(c, in) ==
  LET r == Bytewise(ChaSealByte, ChaPadAad(c), in)
  IN [ctx |-> ChaMac(r.ctx, r.out), out |-> r.out]

ChaOpen(c, in) ==
  LET r == Bytewise(ChaOpenByte, ChaPadAad(c), in)
  IN [ctx |-> ChaMac(r.ctx, in), out |-> r.out]

ChaTag(c) ==
  <<"chacha", c.key,
    c.poly1305 \o Zeros(R - (c.datalen % R))
      \o << <<"length", c.aadlen>>, <<"length", c.datalen>> >> >>

-----------------------------------------------------------------------------
(* Ascon.  The capacity is the position Capacity of the state.             *)

Capacity == R
AsconFresh == [state |-> EmptyState, rate_offset |-> 0]

\* lc_ascon_setkey_int: IV, key and nonce, permuted.
AsconSetIv(c, v) ==
  [state |-> Permute(Xor(EmptyState, 0, << <<"init", v>> >>)), rate_offset |-> 0]

\* lc_ascon_aad pads and separates each input that is not empty.
AsconAad(c, in) ==
  LET s == AbsorbBlocks(c.state, in)
  IN IF in = <<>> THEN c
     ELSE [c EXCEPT !.state =
             Xor(Permute(Xor(s, Len(in) % R, << <<"pad">> >>)),
                 Capacity, << <<"trail">> >>)]

\* A full block is permuted when more data follows, or by final.
AsconTurn(c) ==
  IF c.rate_offset = R THEN [state |-> Permute(c.state), rate_offset |-> 0]
  ELSE c

AsconSealByte(c, p) ==
  LET d == AsconTurn(c)
      s == Xor(d.state, d.rate_offset, <<p>>)
  IN [ctx |-> [state |-> s, rate_offset |-> d.rate_offset + 1],
      out |-> Cover(s.past, d.rate_offset, p)]

\* The state takes the value of the ciphertext byte.
AsconOpenByte(c, b) ==
  LET d == AsconTurn(c)
      p == Uncover(d.state.past, d.rate_offset, b)
  IN [ctx |-> [state |-> Xor(d.state, d.rate_offset, <<p>>),
               rate_offset |-> d.rate_offset + 1],
      out |-> p]

AsconTag(c) ==
  LET d == AsconTurn(c)
  IN <<"ascon", Permute(Xor(d.state, d.rate_offset, << <<"pad">> >>))>>

-----------------------------------------------------------------------------
(* The dispatch of aead_api.c.                                             *)

SetKey(c, v) == CASE aead = "gcm"    -> GcmSetIv(c, v)
                  [] aead = "chacha" -> ChaSetIv(c, v)
                  [] aead = "ascon"  -> AsconSetIv(c, v)

AddAad(c, in) == CASE aead = "gcm"    -> GcmAad(c, in)
                   [] aead = "chacha" -> ChaAad(c, in)
                   [] aead = "ascon"  -> AsconAad(c, in)

EncUpdate(c, in) == CASE aead = "gcm"    -> GcmSeal(c, in)
                      [] aead = "chacha" -> ChaSeal(c, in)
                      [] aead = "ascon"  -> Bytewise(AsconSealByte, c, in)

DecUpdate(c, in) == CASE aead = "gcm"    -> GcmOpen(c, in)
                      [] aead = "chacha" -> ChaOpen(c, in)
                      [] aead = "ascon"  -> Bytewise(AsconOpenByte, c, in)

Tag(c) == CASE aead = "gcm"    -> GcmTag(c)
            [] aead = "chacha" -> ChaTag(c)
            [] aead = "ascon"  -> AsconTag(c)

Nothing == [aad |-> <<>>, pt |-> <<>>]

\* LC_AEAD_CTX_ON_STACK zeroizes the context; then lc_aead_setkey.
AeadInit ==
  /\ aead \in Aeads
  /\ iv \in {1} \X Starts
  /\ cryptor = SetKey(CASE aead = "gcm"    -> GcmFresh
                        [] aead = "chacha" -> ChaFresh
                        [] aead = "ascon"  -> AsconFresh, iv)
  /\ stage = "seal-aad"
  /\ sealed = Nothing /\ opened = Nothing
  /\ wire = [aad |-> <<>>, ct |-> <<>>, tag |-> <<>>]
  /\ tampered = FALSE /\ verdict = "none"
  /\ refused = FALSE /\ regular = TRUE

\* lc_aead_setkey gives the message up and starts another one.
StartAgain ==
  /\ stage \in {"seal-aad", "seal"} /\ sealed # Nothing
  /\ iv[1] < MaxIvs
  /\ iv' = [iv EXCEPT ![1] = @ + 1]
  /\ cryptor' = SetKey(cryptor, iv')
  /\ stage' = "seal-aad"
  /\ sealed' = Nothing
  /\ wire' = [wire EXCEPT !.ct = <<>>]
  /\ refused' = FALSE /\ regular' = TRUE
  /\ UNCHANGED <<aead, tampered, opened, verdict>>

\* Is a piece of additional data one that the one-shot functions would give?
OneAad(before, n) == aead = "ascon" => n = 0 \/ before = <<>>

\* Likewise for an update: the AAD is padded once, by the first one.
OneStart(aad, before, n) ==
  aead = "chacha" /\ aad # <<>> /\ before = <<>> => n > 0

\* Without an update, the AAD of GCM and ChaCha20-Poly1305 is not padded.
Started(aad) ==
  aead \in {"gcm", "chacha"} /\ aad # <<>> => stage \in {"seal", "open"}

\* lc_aead_enc_init.
EncInit(n) ==
  LET in == [i \in 1..n |-> <<"aad", Len(sealed.aad) + i>>]
  IN /\ stage = "seal-aad" /\ Len(sealed.aad) + n <= MaxAad
     /\ cryptor' = AddAad(cryptor, in)
     /\ sealed' = [sealed EXCEPT !.aad = @ \o in]
     /\ regular' = (regular /\ OneAad(sealed.aad, n))
     /\ UNCHANGED <<aead, stage, iv, wire, tampered, opened, verdict, refused>>

\* lc_aead_enc_update.
EncUpdates(n) ==
  LET in == [i \in 1..n |-> Plain(Len(sealed.pt) + i)]
      r == EncUpdate(cryptor, in)
  IN /\ stage \in {"seal-aad", "seal"} /\ Len(sealed.pt) + n <= MaxData
     /\ n = 0 => regular          \* bound: no more than one such update
     /\ stage' = "seal"
     /\ cryptor' = r.ctx
     /\ sealed' = [sealed EXCEPT !.pt = @ \o in]
     /\ wire' = [wire EXCEPT !.ct = @ \o r.out]
     /\ refused' = (refused \/ \E i \in 1..n : r.out[i] = Nought)
     /\ regular' = (regular /\ OneStart(sealed.aad, sealed.pt, n))
     /\ UNCHANGED <<aead, iv, tampered, opened, verdict>>

\* lc_aead_enc_final.
EncFinal ==
  /\ stage \in {"seal-aad", "seal"}
  /\ stage' = "wire"
  /\ wire' = [wire EXCEPT !.aad = sealed.aad, !.tag = Tag(cryptor)]
  /\ regular' = (regular /\ Started(sealed.aad))
  /\ UNCHANGED <<aead, cryptor, iv, sealed, tampered, opened, verdict, refused>>

\* What arrives may be cut, changed, or have its boundary moved.
Tamper(other) ==
  /\ stage = "wire" /\ ~tampered
  /\ other # wire
  /\ wire' = other
  /\ tampered' = TRUE
  /\ UNCHANGED <<aead, cryptor, stage, iv, sealed, opened, verdict, refused,
                 regular>>

Arrivals ==
  LET ends == {1, Len(wire.ct)} \ {0}
  IN IF wire.ct = <<>> THEN {[wire EXCEPT !.aad = Append(@, <<"other">>)]}
     ELSE {[wire EXCEPT !.ct[i] = [Nought EXCEPT !.at = i]] : i \in ends}
          \union {[wire EXCEPT !.ct = SubSeq(@, 1, Len(@) - 1)]}
          \union {[wire EXCEPT !.aad = @ \o <<Authentic(wire.ct[1])>>,
                               !.ct = Tail(@)]}
          \union {[wire EXCEPT !.aad = @ \o [j \in 1..Len(wire.ct) |->
                                               Authentic(wire.ct[j])],
                               !.ct = <<>>]}

\* The receiver sets the key up, in the same context.
StartOpening ==
  /\ stage = "wire"
  /\ stage' = "open-aad"
  /\ cryptor' = SetKey(cryptor, iv)
  /\ UNCHANGED <<aead, iv, sealed, wire, tampered, opened, verdict, refused,
                 regular>>

\* lc_aead_dec_init with the next n bytes.
DecInit(n) ==
  LET in == SubSeq(wire.aad, Len(opened.aad) + 1, Len(opened.aad) + n)
  IN /\ stage = "open-aad" /\ Len(opened.aad) + n <= Len(wire.aad)
     /\ cryptor' = AddAad(cryptor, in)
     /\ opened' = [opened EXCEPT !.aad = @ \o in]
     /\ regular' = (regular /\ OneAad(opened.aad, n))
     /\ UNCHANGED <<aead, stage, iv, sealed, wire, tampered, verdict, refused>>

\* lc_aead_dec_update.
DecUpdates(n) ==
  LET in == SubSeq(wire.ct, Len(opened.pt) + 1, Len(opened.pt) + n)
      r == DecUpdate(cryptor, in)
  IN /\ stage \in {"open-aad", "open"} /\ Len(opened.pt) + n <= Len(wire.ct)
     /\ Len(opened.aad) = Len(wire.aad)
     /\ n = 0 => regular
     /\ stage' = "open"
     /\ cryptor' = r.ctx
     /\ opened' = [opened EXCEPT !.pt = @ \o r.out]
     /\ regular' = (regular /\ OneStart(wire.aad, opened.pt, n))
     /\ UNCHANGED <<aead, iv, sealed, wire, tampered, verdict, refused>>

\* lc_aead_dec_final.
DecFinal ==
  /\ stage \in {"open-aad", "open"}
  /\ Len(opened.aad) = Len(wire.aad) /\ Len(opened.pt) = Len(wire.ct)
  /\ stage' = "done"
  /\ verdict' = IF Tag(cryptor) = wire.tag THEN "ok" ELSE "EBADMSG"
  /\ regular' = (regular /\ Started(wire.aad))
  /\ UNCHANGED <<aead, cryptor, iv, sealed, wire, tampered, opened, refused>>

AeadNext ==
  \/ StartAgain \/ EncFinal \/ StartOpening \/ DecFinal
  \/ \E n \in Chunks :
       EncInit(n) \/ EncUpdates(n) \/ DecInit(n) \/ DecUpdates(n)
  \/ \E other \in Arrivals : Tamper(other)

AeadSpec == AeadInit /\ [][AeadNext]_aeadVars

-----------------------------------------------------------------------------
(* Properties.                                                             *)

\* What was sealed opens to the same message, into whatever pieces the two
\* sides cut it, even if the context was used before and given up half way.
\* (For GCM within the length it accepts; for regular calls.)
OpensWhatWasSealed ==
  verdict # "none" /\ regular /\ ~tampered /\ ~refused =>
    verdict = "ok" /\ opened.pt = sealed.pt

\* What was changed on its way, be it a byte, the length or the boundary
\* between additional data and ciphertext, is not accepted.
ChangedIsRejected == verdict = "ok" => ~tampered

\* No byte of key stream encrypts two bytes of a message, and none is of the
\* block that protects the tag, although the counter of GCM may wrap.
TagBlock == IF aead = "gcm" THEN iv ELSE <<iv, 0>>

KeyStreamOnce ==
  aead # "ascon" /\ ~refused /\ ~tampered =>
    \A i, j \in 1..Len(wire.ct) :
      /\ wire.ct[i].past # TagBlock
      /\ i # j => \/ wire.ct[i].past # wire.ct[j].past
                  \/ wire.ct[i].at # wire.ct[j].at
=============================================================================
