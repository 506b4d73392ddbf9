--------------------------------- MODULE Modes --------------------------------
(***************************************************************************)
(* The modes of operation of AES (sym/src/mode_cbc.c, mode_ctr.c,          *)
(* mode_xts.c with ciphertext stealing, mode_kw.c): a message is encrypted *)
(* in pieces, the context is set up again, and what arrives is decrypted   *)
(* in other pieces.                                                        *)
(*                                                                         *)
(* AES is an ideal permutation: the table lists the blocks it was applied  *)
(* to in one direction or the other.  A byte is a set of atoms, XOR their  *)
(* symmetric difference; byte at of the result of entry id is the atom     *)
(* [of |-> <<"aes", id>>, at |-> at].                                      *)
(***************************************************************************)
EXTENDS Integers, Sequences

CONSTANTS
  ModesUsed,     \* a subset of {"cbc", "ctr", "xts", "kw"}
  BS,            \* bytes of a block: two semiblocks
  Cuts,          \* lengths of the pieces
  MaxLen         \* bound: length of a message

ASSUME ModesAssumption ==
  /\ ModesUsed \subseteq {"cbc", "ctr", "xts", "kw"}
  /\ BS \in Nat \ {0} /\ BS % 2 = 0
  /\ Cuts \subseteq Nat /\ MaxLen \in Nat

VARIABLES
  modeOf,        \* the mode of the context
  state,         \* [table, iv]: iv is the IV, the counter, the tweak or the tag
  sent,          \* history: bytes given to encrypt
  ct,            \* what arrives
  plain,         \* what decrypt put out
  turn,          \* "encrypt", "decrypt" or "done"
  changed,       \* history: was ct changed on its way?
  asked,         \* history: have all calls had the length the mode asks for?
  unwrapped      \* result of lc_aes_kw_decrypt: "none", "ok" or "EBADMSG"

modesVars == <<modeOf, state, sent, ct, plain, turn, changed, asked, unwrapped>>

-----------------------------------------------------------------------------
(* Blocks, and AES.                                                        *)

Named(of, n) == [i \in 1..n |-> {[of |-> of, at |-> i]}]
XorBytes(a, b) ==
  [i \in DOMAIN a |-> (a[i] \ b[i]) \union (b[i] \ a[i])]
Piece(in, from, n) == SubSeq(in, from + 1, from + n)

\* Entry of the table whose result block is, 0 if there is none.
ResultOf(table, dir, block) ==
  LET ids == {i \in DOMAIN table :
                table[i].dir = dir /\ block = Named(<<"aes", i>>, BS)}
  IN IF ids = {} THEN 0 ELSE CHOOSE i \in ids : TRUE

\* s with the result of AES in direction dir on block, and the direction back.
Aes(s, dir, back, block) ==
  LET undone == ResultOf(s.table, back, block)
      new == [dir |-> dir, of |-> block]
      known == {i \in DOMAIN s.table : s.table[i] = new}
      id == IF known = {} THEN Len(s.table) + 1 ELSE CHOOSE i \in known : TRUE
  IN IF undone # 0 THEN [s EXCEPT !.res = s.table[undone].of]
     ELSE [s EXCEPT !.table = IF known = {} THEN Append(@, new) ELSE @,
                    !.res = Named(<<"aes", id>>, BS)]

Encrypted(s, block) == Aes(s, "enc", "dec", block)
Decrypted(s, block) == Aes(s, "dec", "enc", block)

\* A loop over the first n pieces of size bytes of in: step maps a state and a
\* piece to a state, whose res is put out.
Loop(s, in, n, size, step(_, _)) ==
  LET after[i \in 0..n] ==
        IF i = 0 THEN [s EXCEPT !.out = <<>>]
        ELSE LET d == step(after[i - 1], Piece(in, (i - 1) * size, size))
             IN [d EXCEPT !.out = @ \o d.res]
  IN after[n]

Untouched(n) == [i \in 1..n |-> {[of |-> <<"untouched", 0>>, at |-> 0]}]

-----------------------------------------------------------------------------
(* CBC.  A trailing partial block is ignored.                              *)

CbcEncBlock(d, b) ==
  LET e == Encrypted(d, XorBytes(b, d.iv)) IN [e EXCEPT !.iv = e.res]

CbcDecBlock(d, b) ==
  LET e == Decrypted(d, b) IN [e EXCEPT !.res = XorBytes(@, d.iv), !.iv = b]

MutKeepsIv(s, in) ==
  LET r == Loop(s, in, Len(in) \div BS, BS, CbcEncBlock)
  IN [r EXCEPT !.out = @ \o Untouched(Len(in) % BS), !.iv = s.iv]

CbcEncrypt(s, in) ==
  LET r == Loop(s, in, Len(in) \div BS, BS, CbcEncBlock)
  IN [r EXCEPT !.out = @ \o Untouched(Len(in) % BS)]

CbcDecrypt(s, in) ==
  LET r == Loop(s, in, Len(in) \div BS, BS, CbcDecBlock)
  IN [r EXCEPT !.out = @ \o Untouched(Len(in) % BS)]

-----------------------------------------------------------------------------
(* CTR.  iv is the counter; each call starts a new block.                  *)

CtrStream(d) == [Encrypted(d, Named(<<"ctr", d.iv>>, BS)) EXCEPT !.iv = @ + 1]

CtrBytes(d, b) == [CtrStream(d) EXCEPT !.res = XorBytes(b, @)]

CtrCrypt(s, in) ==
  LET full == Len(in) \div BS
      rest == Len(in) % BS
      r == Loop(s, in, full, BS, CtrBytes)
      last == CtrStream(r)
  IN IF rest = 0 THEN r
     ELSE [last EXCEPT !.out =
             @ \o XorBytes(Piece(in, full * BS, rest), last.res)]

-----------------------------------------------------------------------------
(* XTS.  iv is the power of alpha that the tweak was multiplied with.      *)

Tweak(k) == Named(<<"tweak", k>>, BS)

XtsEncBlock(s, k, b) ==
  LET e == Encrypted(s, XorBytes(b, Tweak(k)))
  IN [e EXCEPT !.res = XorBytes(@, Tweak(k))]

XtsDecBlock(s, k, b) ==
  LET e == Decrypted(s, XorBytes(b, Tweak(k)))
  IN [e EXCEPT !.res = XorBytes(@, Tweak(k))]

XtsEncNext(d, b) == [XtsEncBlock(d, d.iv, b) EXCEPT !.iv = @ + 1]
XtsDecNext(d, b) == [XtsDecBlock(d, d.iv, b) EXCEPT !.iv = @ + 1]

\* The blocks before those that ciphertext stealing is about.
Whole(in) == IF Len(in) % BS = 0 THEN Len(in) \div BS ELSE Len(in) \div BS - 1

XtsEncrypt(s, in) ==
  LET rest == Len(in) % BS
      r == Loop(s, in, Whole(in), BS, XtsEncNext)
      cc == XtsEncBlock(r, r.iv, Piece(in, Whole(in) * BS, BS))
      stolen == Piece(in, (Whole(in) + 1) * BS, rest)
                  \o Piece(cc.res, rest, BS - rest)
      pp == XtsEncBlock(cc, r.iv + 1, stolen)
  IN IF Len(in) < BS THEN [s EXCEPT !.out = Untouched(Len(in))]
     ELSE IF rest = 0 THEN r
     ELSE [pp EXCEPT !.iv = @ + 1, !.out = @ \o pp.res \o Piece(cc.res, 0, rest)]

MutTweakOrder(s, in) ==
  LET rest == Len(in) % BS
      r == Loop(s, in, Whole(in), BS, XtsDecNext)
      pp == XtsDecBlock(r, r.iv, Piece(in, Whole(in) * BS, BS))
      stolen == Piece(in, (Whole(in) + 1) * BS, rest)
                  \o Piece(pp.res, rest, BS - rest)
      cc == XtsDecBlock(pp, r.iv + 1, stolen)
  IN IF Len(in) < BS THEN [s EXCEPT !.out = Untouched(Len(in))]
     ELSE IF rest = 0 THEN r
     ELSE [cc EXCEPT !.out = @ \o cc.res \o Piece(pp.res, 0, rest)]

\* The last block is decrypted first, with the later tweak.
XtsDecrypt(s, in) ==
  LET rest == Len(in) % BS
      r == Loop(s, in, Whole(in), BS, XtsDecNext)
      pp == XtsDecBlock(r, r.iv + 1, Piece(in, Whole(in) * BS, BS))
      stolen == Piece(in, (Whole(in) + 1) * BS, rest)
                  \o Piece(pp.res, rest, BS - rest)
      cc == XtsDecBlock(pp, r.iv, stolen)
  IN IF Len(in) < BS THEN [s EXCEPT !.out = Untouched(Len(in))]
     ELSE IF rest = 0 THEN r
     ELSE [cc EXCEPT !.out = @ \o cc.res \o Piece(pp.res, 0, rest)]

-----------------------------------------------------------------------------
(* KW.  iv is the tag.  Less than two semiblocks are left alone.           *)

Half == BS \div 2
KwIv == Named(<<"AES_KW_IV", 0>>, Half)
Count(t) == Named(<<"t", t>>, Half)

\* Step t of the 6 * n, on the semiblock (t - 1) % n + 1 of the n.
Replaced(in, j, r) ==
  [i \in DOMAIN in |-> IF (i - 1) \div Half = j THEN r[i - j * Half] ELSE in[i]]

KwEncrypt(s, in) ==
  LET n == Len(in) \div Half
      after[t \in 0..6 * n] ==
        IF t = 0 THEN [s EXCEPT !.iv = KwIv, !.out = in]
        ELSE LET d == after[t - 1]
                 j == (t - 1) % n
                 e == Encrypted(d, d.iv \o Piece(d.out, j * Half, Half))
             IN [e EXCEPT !.iv = XorBytes(Piece(e.res, 0, Half), Count(t)),
                          !.out = Replaced(@, j, Piece(e.res, Half, Half))]
  IN IF n < 2 THEN [s EXCEPT !.out = Untouched(Len(in))] ELSE after[6 * n]

KwDecrypt(s, in) ==
  LET n == Len(in) \div Half
      before[t \in 0..6 * n] ==     \* t steps are left to undo
        IF t = 6 * n THEN [s EXCEPT !.out = in]
        ELSE LET d == before[t + 1]
                 j == t % n
                 e == Decrypted(d, XorBytes(d.iv, Count(t + 1))
                                     \o Piece(d.out, j * Half, Half))
             IN [e EXCEPT !.iv = Piece(e.res, 0, Half),
                          !.out = Replaced(@, j, Piece(e.res, Half, Half))]
  IN IF n < 2 THEN [s EXCEPT !.out = Untouched(Len(in))] ELSE before[0]

MutKeepsTag(s, in) == [KwDecrypt(s, in) EXCEPT !.iv = s.iv]

KwUnwrap(s, in) == KwDecrypt(s, in)

-----------------------------------------------------------------------------
(* The dispatch of sym.c.                                                  *)

Encrypt(s, in) == CASE modeOf = "cbc" -> CbcEncrypt(s, in)
                    [] modeOf = "ctr" -> CtrCrypt(s, in)
                    [] modeOf = "xts" -> XtsEncrypt(s, in)
                    [] modeOf = "kw"  -> KwEncrypt(s, in)

Decrypt(s, in) == CASE modeOf = "cbc" -> CbcDecrypt(s, in)
                    [] modeOf = "ctr" -> CtrCrypt(s, in)
                    [] modeOf = "xts" -> XtsDecrypt(s, in)
                    [] modeOf = "kw"  -> KwUnwrap(s, in)

\* lc_sym_setkey and lc_sym_setiv; for KW the IV is set by the calls.
SetIv(table) ==
  [table |-> table, res |-> <<>>, out |-> <<>>,
   iv |-> CASE modeOf = "cbc" -> Named(<<"iv", 0>>, BS)
            [] modeOf \in {"ctr", "xts"} -> 1
            [] modeOf = "kw"  -> Named(<<"zero", 0>>, Half)]

ModesInit ==
  /\ modeOf \in ModesUsed
  /\ state = SetIv(<<>>)
  /\ sent = <<>> /\ ct = <<>> /\ plain = <<>>
  /\ turn = "encrypt" /\ changed = FALSE /\ asked = TRUE
  /\ unwrapped = "none"

\* Is a call with n bytes after so many one of the length the mode asks for?
Asked(before, n) ==
  CASE modeOf = "cbc" -> n % BS = 0
    [] modeOf = "ctr" -> before % BS = 0
    [] modeOf = "xts" -> before % BS = 0 /\ (n = 0 \/ n >= BS)
    [] modeOf = "kw"  -> before = 0 /\ n >= 2 * Half

\* XTS: the receiver keeps the last full block for the last call.
LeavesABlock(n) ==
  LET left == Len(ct) - Len(plain) - n
  IN modeOf = "xts" /\ left # 0 => n % BS = 0 /\ left >= BS

Forget(s) == [s EXCEPT !.res = <<>>, !.out = <<>>]

\* lc_sym_encrypt, lc_aes_kw_encrypt.  (KW: the loop does not end for a length
\* that is no multiple of the semiblock.)
SymEncrypt(n) ==
  LET in == [i \in 1..n |-> {[of |-> <<"pt", 0>>, at |-> Len(sent) + i]}]
      r == Encrypt(state, in)
  IN /\ turn = "encrypt" /\ Len(sent) + n <= MaxLen
     /\ modeOf = "kw" => sent = <<>> /\ n % Half = 0 /\ n > 0
     /\ state' = Forget(r)
     /\ sent' = sent \o in
     /\ ct' = IF modeOf = "kw" THEN r.iv \o r.out ELSE ct \o r.out
     /\ asked' = (asked /\ Asked(Len(sent), n))
     /\ UNCHANGED <<modeOf, plain, turn, changed, unwrapped>>

\* Two bytes change their places on the way.
SwapBytes(i) ==
  /\ turn = "encrypt" /\ modeOf = "kw" /\ sent # <<>>
  /\ ~changed /\ i < Len(ct) /\ ct[i] # ct[i + 1]
  /\ ct' = [ct EXCEPT ![i] = ct[i + 1], ![i + 1] = ct[i]]
  /\ changed' = TRUE
  /\ UNCHANGED <<modeOf, state, sent, plain, turn, asked, unwrapped>>

TurnAround ==
  /\ turn = "encrypt" /\ sent # <<>>
  /\ turn' = "decrypt"
  /\ state' = SetIv(state.table)
  /\ UNCHANGED <<modeOf, sent, ct, plain, changed, asked, unwrapped>>

\* lc_sym_decrypt.
SymDecrypt(n) ==
  LET r == Decrypt(state, Piece(ct, Len(plain), n))
  IN /\ turn = "decrypt" /\ modeOf # "kw" /\ Len(plain) + n <= Len(ct)
     /\ state' = Forget(r)
     /\ plain' = plain \o r.out
     /\ asked' = (asked /\ Asked(Len(plain), n) /\ LeavesABlock(n))
     /\ UNCHANGED <<modeOf, sent, ct, turn, changed, unwrapped>>

\* lc_aes_kw_decrypt: the tag comes first.
KwOpen ==
  LET r == KwUnwrap([state EXCEPT !.iv = Piece(ct, 0, Half)],
                    Piece(ct, Half, Len(ct) - Half))
  IN /\ turn = "decrypt" /\ modeOf = "kw"
     /\ state' = Forget(r)
     /\ plain' = r.out
     /\ unwrapped' = IF r.iv = KwIv THEN "ok" ELSE "EBADMSG"
     /\ turn' = "done"
     /\ UNCHANGED <<modeOf, sent, ct, changed, asked>>

ModesNext ==
  \/ \E n \in Cuts : SymEncrypt(n) \/ SymDecrypt(n)
  \/ \E i \in 1..MaxLen : SwapBytes(i)
  \/ TurnAround \/ KwOpen

ModesSpec == ModesInit /\ [][ModesNext]_modesVars

-----------------------------------------------------------------------------
(* Properties.                                                             *)

\* What was encrypted decrypts to the same bytes, into whatever pieces of the
\* permitted lengths the two sides cut it, with and without stealing.
DecryptsToPlain ==
  asked /\ ~changed =>
    \A i \in 1..Len(plain) : plain[i] = sent[i]

\* The ciphertext is that of one call with the whole message.
CutsDoNotMatter ==
  asked /\ ~changed /\ modeOf # "kw" =>
    ct = Encrypt(SetIv(state.table), sent).out

\* Key unwrapping tells what was changed from what was not.
UnwrapAuthenticates ==
  asked /\ unwrapped # "none" => (unwrapped = "ok" <=> ~changed)
=============================================================================
