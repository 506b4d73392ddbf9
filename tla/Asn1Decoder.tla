----------------------------- MODULE Asn1Decoder -----------------------------
(* The decoder of BER encodings (asn1/src/asn1_decoder.c): a program made by *)
(* Asn1Compiler runs over the data, with a stack of the constructed elements *)
(* it is in and a stack of jumps, and calls the actions of the grammar.  An  *)
(* action may refuse what it is given, which ends the decoding.  Data longer *)
(* than ASN1_MAX_DATASIZE, which are refused at once, are left out.          *)
EXTENDS Asn1Compiler, Integers, FiniteSets

CONSTANTS
  Grammar,     \* the grammars: names and root elements
  Machine,     \* the program made for each of them
  Corpus,      \* the data to decode for each of them
  NrConsStack, \* NR_CONS_STACK
  NrJumpStack, \* NR_JUMP_STACK
  AsCommented  \* does the reference below judge the bit for constructed
               \* elements by the comment of the decoder or by its code?

VARIABLES
  grammar,  \* the decoder that is called, and its data
  data,
  pc,       \* in the program, from 1
  dp,       \* bytes consumed
  datalen,  \* end of the innermost element of definite length
  cons,     \* cons_{dp,datalen,hdrlen}_stack
  jumps,    \* jump_stack
  matched,  \* FLAG_MATCHED
  last,     \* FLAG_LAST_MATCHED
  found,    \* tag, tdp, hdr and len: the element found last
  calls,    \* actions called, with the element each was given
  decoded   \* "no", "yes", "bad" or "refused"

decoder == <<grammar, data, pc, dp, datalen, cons, jumps, matched, last, found,
             calls, decoded>>

MachineAssumption ==
  Machine = [g \in DOMAIN Grammar |-> Compile(Grammar[g])]

Op == Machine[grammar][pc]

Indefinite == 128
LongTag == 31

DecoderStart(g, d) ==
  /\ grammar = g /\ data = d
  /\ pc = 1 /\ dp = 0 /\ datalen = Len(data)
  /\ cons = <<>> /\ jumps = <<>>
  /\ matched = FALSE /\ last = FALSE
  /\ found = [tag |-> 0, tdp |-> 0, hdr |-> 0, len |-> 0]
  /\ calls = <<>> /\ decoded = "no"
DecoderInit ==
  \E g \in DOMAIN Grammar : \E d \in Corpus[g] : DecoderStart(g, d)

Byte(p) == data[p + 1]
IsCons(tag) == (tag \div ConsBit) % 2 = 1
IsLong(tag) == tag % ConsBit = LongTag

-----------------------------------------------------------------------------
\* What a header is read as: its length octets end at "at".
Unreadable == [ok |-> FALSE]
Readable(at, len, indefinite) ==
  [ok |-> TRUE, at |-> at, len |-> len, indefinite |-> indefinite]

\* The octets of a length; one that no data can hold is cut short.
RECURSIVE BigEndian(_, _)
BigEndian(p, n) ==
  IF n = 0 THEN 0
  ELSE LET high == BigEndian(p, n - 1) IN
       IF high > Len(data) THEN high ELSE 256 * high + Byte(p + n - 1)

\* The length at p of an element with this tag, in data that ends at e.
MutLongLengthTrusted(tag, p, e) ==
  LET n == Byte(p) - 128 IN
  IF n < 0 THEN IF Byte(p) > e - (p + 1) THEN Unreadable
                ELSE Readable(p + 1, Byte(p), FALSE)
  ELSE IF n = 0
    THEN IF IsCons(tag) /\ e - (p + 1) >= 2
         THEN Readable(p + 1, Indefinite, TRUE) ELSE Unreadable
  ELSE IF n > 3 \/ n > e - (p + 1) THEN Unreadable
  ELSE Readable(p + 1 + n, BigEndian(p + 1, n), FALSE)

LengthAt(tag, p, e) ==
  LET n == Byte(p) - 128
      Fitting(at, len) ==
        IF len > e - at THEN Unreadable ELSE Readable(at, len, FALSE)
  IN IF Byte(p) < 128 THEN Fitting(p + 1, Byte(p))
     ELSE IF n = 0
       THEN IF IsCons(tag) /\ e - (p + 1) >= 2
            THEN Readable(p + 1, Indefinite, TRUE) ELSE Unreadable
     ELSE IF n > 3 \/ n > e - (p + 1) THEN Unreadable
     ELSE Fitting(p + 1 + n, BigEndian(p + 1, n))

\* asn1_find_indefinite_length: where the contents at p end with the marks of
\* "level" open elements; 0 if they do not.
RECURSIVE LongTagEnd(_, _), IndefiniteEnd(_, _, _)
LongTagEnd(p, e) ==
  IF e - p < 2 THEN 0
  ELSE IF Byte(p) < 128 THEN p + 1 ELSE LongTagEnd(p + 1, e)

IndefiniteEnd(p, e, level) ==
  IF e - p < 2 THEN 0
  ELSE IF Byte(p) = 0
    THEN IF Byte(p + 1) # 0 THEN 0
         ELSE IF level = 1 THEN p + 2 ELSE IndefiniteEnd(p + 2, e, level - 1)
    ELSE LET q == IF IsLong(Byte(p)) THEN LongTagEnd(p + 1, e) ELSE p + 1
             n == Byte(q) - 128
             Beyond(at, len) ==
               IF len > e - at THEN 0 ELSE IndefiniteEnd(at + len, e, level)
         IN IF q = 0 THEN 0
            ELSE IF n < 0 THEN Beyond(q + 1, Byte(q))
            ELSE IF n = 0
              THEN IF IsCons(Byte(p)) THEN IndefiniteEnd(q + 1, e, level + 1)
                                      ELSE 0
            ELSE IF n > 7 \/ n > e - (q + 1) THEN 0
            ELSE Beyond(q + 1 + n, BigEndian(q + 1, n))

-----------------------------------------------------------------------------
Fail == decoded' = "bad" /\ UNCHANGED <<pc, dp, datalen, cons, jumps, matched,
                                        last, found, calls>>

\* An action of the grammar is called with the element f, or there is none.
Call(f) ==
  \/ Op.act = Quiet /\ UNCHANGED <<calls, decoded>>
  \/ /\ Op.act # Quiet
     /\ calls' = Append(calls, [act |-> Op.act, element |-> f])
     /\ decoded' \in {"no", "refused"}

\* A match is not tried: an alternative has matched, or the data have ended.
Skipped == (Op.cond /\ matched) \/ (Op.skip /\ dp = datalen)

SkipMatch ==
  /\ Op.op = "match" /\ Skipped
  /\ last' = FALSE
  /\ pc' = pc + 1
  /\ UNCHANGED <<dp, datalen, cons, jumps, matched, found, calls, decoded>>

Present == datalen - dp >= 2 /\ ~IsLong(Byte(dp))

\* A constructed tag of the program matches either method.
TagMatches(tag) ==
  Op.any \/ Op.tag = tag \/ (IsCons(Op.tag) /\ tag + ConsBit = Op.tag)

\* The element at dp can be taken.
Header == LengthAt(Byte(dp), dp + 1, datalen)
Takes ==
  /\ Present /\ TagMatches(Byte(dp)) /\ Header.ok
  /\ IF IsCons(Op.tag)
     THEN Len(cons) < NrConsStack /\ (Op.to > 0 => Len(jumps) < NrJumpStack)
     ELSE Header.indefinite => IndefiniteEnd(Header.at, datalen, 1) > 0

\* A constructed element is entered, in line or by a jump.
Enter(h) ==
  /\ cons' = Append(cons, [dp |-> h.at, hdr |-> h.at - dp,
                           datalen |-> IF h.indefinite THEN 0 ELSE datalen])
  /\ datalen' = IF h.indefinite THEN datalen ELSE h.at + h.len
  /\ found' = [tag |-> Byte(dp), tdp |-> h.at, hdr |-> h.at - dp, len |-> h.len]
  /\ dp' = h.at
  /\ IF Op.to > 0 THEN jumps' = Append(jumps, pc + 1) /\ pc' = Op.to
                  ELSE UNCHANGED jumps /\ pc' = pc + 1
  /\ UNCHANGED <<calls, decoded>>

\* Any other element is taken as a whole.
Take(h) ==
  LET end == IF h.indefinite THEN IndefiniteEnd(h.at, datalen, 1)
                             ELSE h.at + h.len
      element == [tag |-> Byte(dp), tdp |-> h.at, hdr |-> h.at - dp,
                  len |-> end - h.at]
  IN /\ found' = element /\ Call(element)
     /\ dp' = end /\ pc' = pc + 1
     /\ UNCHANGED <<datalen, cons, jumps>>

Match ==
  /\ Op.op = "match" /\ ~Skipped /\ Takes
  /\ matched' = TRUE /\ last' = FALSE
  /\ IF IsCons(Op.tag) THEN Enter(Header) ELSE Take(Header)

\* Every match that is tried begins without flags.
MutKeepsLast == matched' = FALSE /\ UNCHANGED last
NoFlags == matched' = FALSE /\ last' = FALSE

\* Another tag makes an optional element absent; everything else is an error.
Mismatch ==
  /\ Op.op = "match" /\ ~Skipped /\ ~Takes
  /\ IF Present /\ Op.skip /\ ~TagMatches(Byte(dp))
     THEN /\ NoFlags
          /\ found' = [found EXCEPT !.tag = Byte(dp), !.hdr = 2]
          /\ pc' = pc + 1
          /\ UNCHANGED <<dp, datalen, cons, jumps, calls, decoded>>
     ELSE Fail

\* ASN1_OP_END_*: the loop of a SEQUENCE OF or SET OF, or the end of the
\* element, where its length or its end mark must agree.  Its action is called
\* with 0 for a tag; the tag read last stays for actions that come after it.
EndsHere(top) ==
  IF top.datalen = 0
  THEN datalen - dp >= 2 /\ Byte(dp) = 0 /\ Byte(dp + 1) = 0
  ELSE dp = datalen

Continues(top) ==
  /\ Op.to > 0
  /\ IF top.datalen = 0 THEN datalen - dp >= 2 /\ Byte(dp) # 0
                        ELSE dp < datalen

End ==
  /\ Op.op = "end"
  /\ LET top == Last(cons)
         element == [found EXCEPT !.tdp = top.dp, !.hdr = top.hdr,
                                  !.len = dp - top.dp]
     IN IF Continues(top)
        THEN /\ pc' = Op.to
             /\ found' = [element EXCEPT !.len = datalen]
             /\ UNCHANGED <<dp, datalen, cons, calls, decoded>>
        ELSE IF ~EndsHere(top)
        THEN /\ decoded' = "bad"
             /\ UNCHANGED <<pc, dp, datalen, cons, found, calls>>
        ELSE /\ cons' = Front(cons)
             /\ dp' = IF top.datalen = 0 THEN dp + 2 ELSE dp
             /\ datalen' = IF top.datalen = 0 THEN datalen ELSE top.datalen
             /\ found' = element /\ Call([element EXCEPT !.tag = 0])
             /\ pc' = pc + 1
  /\ UNCHANGED <<jumps, matched, last>>

\* ASN1_OP_ACT, and ASN1_OP_MAYBE_ACT after an optional jump.
Act ==
  /\ Op.op \in {"act", "maybe"}
  /\ IF Op.op = "maybe" /\ ~last THEN UNCHANGED <<calls, decoded>>
                                 ELSE Call(found)
  /\ pc' = pc + 1
  /\ UNCHANGED <<dp, datalen, cons, jumps, matched, last, found>>

\* ASN1_OP_COND_FAIL: one of the alternatives must have matched.
CondFail ==
  /\ Op.op = "fail"
  /\ IF matched THEN /\ pc' = pc + 1
                     /\ UNCHANGED <<dp, datalen, cons, jumps, matched, last,
                                    found, calls, decoded>>
                ELSE Fail

Return ==
  /\ Op.op = "return"
  /\ pc' = Last(jumps)
  /\ jumps' = Front(jumps)
  /\ matched' = TRUE /\ last' = TRUE
  /\ UNCHANGED <<dp, datalen, cons, found, calls, decoded>>

Complete ==
  /\ Op.op = "complete"
  /\ decoded' = IF cons = <<>> /\ jumps = <<>> THEN "yes" ELSE "bad"
  /\ UNCHANGED <<pc, dp, datalen, cons, jumps, matched, last, found, calls>>

DecoderNext ==
  /\ decoded = "no"
  /\ UNCHANGED <<grammar, data>>
  /\ \/ SkipMatch \/ Match \/ Mismatch \/ End
     \/ Act \/ CondFail \/ Return \/ Complete

-----------------------------------------------------------------------------
(* What the grammar says of the data, without a program: the ways to read an *)
(* element at p, in data that end at q, each with its end, its value, the    *)
(* actions it calls, and whether it is sound.  Unsound is what the decoder   *)
(* also takes: a sequence that ends before a choice it must have, and a      *)
(* choice with an action that is absent, whose action is called all the      *)
(* same.  A value has the tag 0 where an action is not given one of its own. *)
Reading(to, tag, hdr, tdp, calling, sound) ==
  [to |-> to, value |-> [tag |-> tag, tdp |-> tdp, hdr |-> hdr, len |-> to - tdp],
   calls |-> calling, sound |-> sound]
Nothing(p, sound) == Reading(p, 0, 0, p, <<>>, sound)

Calling(r, act) ==
  IF act = Quiet THEN r
  ELSE [r EXCEPT !.calls = Append(@, [act |-> act, element |-> r.value])]

\* The calls agree in everything but the tag of a value that has none.
Agree(made, due) ==
  /\ Len(made) = Len(due)
  /\ \A i \in DOMAIN due :
       \/ made[i] = due[i]
       \/ due[i].element.tag = 0 /\ [made[i] EXCEPT !.element.tag = 0] = due[i]

\* The tags in the data that a tag of the program stands for.  The comparison
\* (line 213) takes either method for a constructed element and only the
\* primitive one for any other; the comment above it (lines 204-206) says the
\* opposite.
Methods(tag) ==
  IF IsCons(tag) = AsCommented THEN {tag}
  ELSE {tag, IF IsCons(tag) THEN tag - ConsBit ELSE tag + ConsBit}

\* The values of definite length, with up to n length octets.
Definite(p, q, n) ==
  {v \in [hdr : 2..(n + 2), len : 0..(q - p)] :
     /\ p + v.hdr + v.len <= q
     /\ IF v.hdr = 2 THEN v.len < 128 /\ Byte(p + 1) = v.len
        ELSE Byte(p + 1) = 126 + v.hdr /\ BigEndian(p + 2, v.hdr - 2) = v.len}

TagEnds(p, q) ==
  IF ~IsLong(Byte(p)) THEN {p}
  ELSE {r \in (p + 1)..(q - 1) :
          Byte(r) < 128 /\ \A s \in (p + 1)..(r - 1) : Byte(s) >= 128}

\* Where elements of any kind, one after the other, come to an end mark.
RECURSIVE MarksAfter(_, _)
MarksAfter(p, q) ==
  IF q - p < 2 THEN {}
  ELSE IF Byte(p) = 0 THEN IF Byte(p + 1) = 0 THEN {p + 2} ELSE {}
  ELSE UNION {
    UNION {MarksAfter(t + v.hdr + v.len, q) : v \in Definite(t, q, 7)}
      \cup (IF q - t >= 2 /\ Byte(t + 1) = Indefinite /\ IsCons(Byte(p))
            THEN UNION {MarksAfter(r, q) : r \in MarksAfter(t + 2, q)}
            ELSE {}) : t \in TagEnds(p, q)}

RECURSIVE Readings(_, _, _, _), Members(_, _, _, _), Rows(_, _, _, _)

\* The children of a sequence from the i-th on; an optional one may be absent,
\* one of any type only at the end of the data.
Members(e, i, p, q) ==
  IF i > Len(e.kids) THEN {Nothing(p, TRUE)}
  ELSE LET kid == e.kids[i]
           absent == IF kid.skip /\ (kid.kind = "any" => p = q)
                     THEN {Nothing(p, kid.act = Quiet \/ kid.kind # "choice")}
                     ELSE {}
       IN UNION {{[m EXCEPT !.calls = r.calls \o @, !.sound = @ /\ r.sound] :
                    m \in Members(e, i + 1, r.to, q)} :
                   r \in Readings(kid, Own, p, q) \cup absent}

\* One row or more; in an element of indefinite length an end mark ends them.
Rows(e, open, p, q) ==
  LET first == Readings(e.kids[1], Own, p, q)
      On(r) == IF r.to > p /\ q - r.to >= 2 /\ ~(open /\ Byte(r.to) = 0)
               THEN Rows(e, open, r.to, q) ELSE {}
  IN first \cup
     UNION {{[m EXCEPT !.calls = r.calls \o @, !.sound = @ /\ r.sound] :
               m \in On(r)} : r \in first}

Held(e, open, p, q) ==
  IF e.kind = "seq" THEN Members(e, 1, p, q) ELSE Rows(e, open, p, q)

Readings(e, override, p, q) ==
  LET tag == IF override # Own THEN override ELSE e.tag
      any == q - p >= 2
      definite == IF any THEN Definite(p, q, 3) ELSE {}
      open == any /\ Byte(p + 1) = Indefinite
      whole ==
        {Reading(p + v.hdr + v.len, Byte(p), v.hdr, p + v.hdr, <<>>, TRUE) :
           v \in definite}
        \cup {Reading(m, Byte(p), 2, p + 2, <<>>, TRUE) :
                m \in IF open /\ IsCons(Byte(p)) THEN MarksAfter(p + 2, q)
                                               ELSE {}}
  IN CASE e.kind = "leaf" ->
            {Calling(r, e.act) :
               r \in {w \in whole : Byte(p) \in Methods(tag)}}
       [] e.kind = "any" ->
            {Calling(r, e.act) : r \in {w \in whole : ~IsLong(Byte(p))}}
       [] e.kind = "override" -> Readings(e.kids[1], e.tag, p, q)
       [] e.kind = "ref" ->
            {Calling(r, e.act) : r \in Readings(e.kids[1], override, p, q)}
       [] e.kind = "choice" ->
            {Calling(r, e.act) :
               r \in UNION {Readings(e.kids[i], Own, p, q) : i \in DOMAIN e.kids}}
              \cup IF p = q /\ ~e.skip THEN {Nothing(p, FALSE)} ELSE {}
       [] Constructed(e) ->
            {Calling(Reading(w[1].to, 0, w[2].hdr, p + w[2].hdr, w[1].calls,
                             w[1].sound), e.act) :
               w \in UNION {{<<b, v>> : b \in
                       {c \in Held(e, FALSE, p + v.hdr, p + v.hdr + v.len) :
                          c.to = p + v.hdr + v.len}} :
                       v \in {d \in definite : Byte(p) \in Methods(tag + ConsBit)}}}
            \cup
            {[Calling(Reading(b.to, 0, 2, p + 2, b.calls, b.sound), e.act)
                EXCEPT !.to = b.to + 2] :
               b \in IF open /\ Byte(p) = tag + ConsBit
                     THEN {c \in Held(e, TRUE, p + 2, q) :
                             /\ q - c.to >= 2
                             /\ Byte(c.to) = 0 /\ Byte(c.to + 1) = 0}
                     ELSE {}}

\* The readings of the data; what follows the first element is not looked at.
Meanings ==
  {r \in Readings(Grammar[grammar], Own, 0, Len(data)) : r.to > 0}

(* asn1_compiler.c and asn1_decoder.c, with AsCommented = FALSE: the program *)
(* made for a grammar takes the data that have a reading, no less and no     *)
(* more.  These are the data that the grammar describes, with either method  *)
(* for constructed elements (line 213), and those of the unsound readings.   *)
(* Where a reading is sound, the actions called are those of the grammar, in *)
(* order, with the tags and the values of their elements.                    *)
DecodesGrammar ==
  /\ decoded = "bad" => Meanings = {}
  /\ decoded = "yes" =>
       /\ Meanings # {}
       /\ \A r \in Meanings : r.sound => Agree(calls, r.calls)

(* asn1_decoder.c: whatever the lengths in the data say, the decoder reads   *)
(* no byte behind the innermost element, leaves no element beyond those      *)
(* around it, and gives actions only bytes of the data.                      *)
StaysInside ==
  /\ dp <= datalen /\ datalen <= Len(data)
  /\ \A i \in DOMAIN cons :
       /\ cons[i].dp <= dp
       /\ cons[i].datalen = 0 \/ datalen <= cons[i].datalen
  /\ \A i \in DOMAIN calls : calls[i].element.tdp + calls[i].element.len <= Len(data)

(* asn1_decoder.c:204-206, with AsCommented = TRUE: "Either CONS or PRIM are *)
(* permitted in the data if CONS is not set in the op stream, otherwise CONS *)
(* is mandatory."  The decoder takes the data that have such a reading.      *)
MethodsAsCommented ==
  /\ decoded = "yes" => Meanings # {}
  /\ decoded = "bad" => Meanings = {}
=============================================================================
