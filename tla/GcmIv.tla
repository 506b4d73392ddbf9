--------------------------------- MODULE GcmIv --------------------------------
(***************************************************************************)
(* gcm_setiv (aead/src/gcm.c): the first counter block of a message that   *)
(* the code derives from the IV of the caller.  GHASH is ideal: its value  *)
(* is the sequence of the blocks that were multiplied in.  The length of   *)
(* the IV is one byte at the end of a block of its own.                    *)
(***************************************************************************)
EXTENDS Integers, Sequences, FiniteSets

CONSTANTS
  R,             \* bytes of a block (16)
  Native,        \* length of an IV that is used as it is (12)
  Bytes,         \* values of the bytes of IVs, 0 among them
  MaxIv,         \* bound: length of an IV
  MaxUsed        \* bound: number of IVs under a key

VARIABLES
  y,             \* gcm_ctx.y: [blocks, ctr]
  used           \* history: the IVs that were set under the key, and their y

gcmIvVars == <<y, used>>

-----------------------------------------------------------------------------
Start == [blocks |-> <<>>, ctr |-> 0]

GcmIvInit == y = Start /\ used = {}

\* What XORing the bytes in to a block changes: its bytes other than zero.
Mixed(in) == {<<i, in[i]>> : i \in {j \in DOMAIN in : in[j] # 0}}

\* be32_to_ptr(work_buf + 12, iv_len * 8)
WorkBuf(len) == [i \in 1..R |-> IF i = R THEN 8 * len ELSE 0]

\* The chunks of the IV; the length is XORed as far as the last chunk reaches.
Hashed(iv) ==
  LET chunks == (Len(iv) + R - 1) \div R
      use_len == IF iv = <<>> THEN 0 ELSE Len(iv) - (chunks - 1) * R
      upto(c) == IF c = chunks THEN Len(iv) ELSE c * R
  IN [c \in 1..chunks |-> Mixed(SubSeq(iv, (c - 1) * R + 1, upto(c)))]
       \o << Mixed(SubSeq(WorkBuf(Len(iv)), 1, use_len)) >>

GcmSetiv(iv) ==
  /\ y' = IF Len(iv) = Native
          THEN [blocks |-> <<Mixed(iv)>>, ctr |-> 1]
          ELSE [blocks |-> Hashed(iv), ctr |-> 0]
  /\ used' = used \union {[iv |-> iv, y |-> y']}

GcmIvNext ==
  \E n \in 0..MaxIv : \E iv \in [1..n -> Bytes] :
    Cardinality(used) < MaxUsed /\ GcmSetiv(iv)

GcmIvSpec == GcmIvInit /\ [][GcmIvNext]_gcmIvVars

-----------------------------------------------------------------------------
\* gcm.c:447-449: "if we don't have a 12-byte IV, we GHASH whatever we've been
\* given", after SP 800-38D (gcm.c:38), where GHASH covers the IV and its
\* length: two IVs never give the same first counter block.
IvsGiveBlocks ==
  \A a, b \in used : a.y = b.y => a.iv = b.iv
=============================================================================
