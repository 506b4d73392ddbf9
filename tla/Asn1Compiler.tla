----------------------------- MODULE Asn1Compiler -----------------------------
(* The generator of decoder programs (asn1/src/asn1_compiler.c): from the    *)
(* elements of a grammar, as its parser leaves them, to the program that     *)
(* asn1_decoder.c runs.  A tag is its number in the encoding without the     *)
(* bit for constructed elements, which the kind of the element adds.         *)
EXTENDS Naturals, Sequences, SequencesExt, TLC

Own == 0       \* no tag specified for this element
Quiet == ""    \* no action

\* struct element: children in order, skippable and conditional as flags, and
\* shared if the type is referenced more than once.
Element(kind, tag, kids, act) ==
  [kind |-> kind, tag |-> tag, kids |-> kids, act |-> act, skip |-> FALSE,
   cond |-> FALSE, shared |-> FALSE]

Leaf(tag, act) == Element("leaf", tag, <<>>, act)
AnyType(act) == Element("any", Own, <<>>, act)
SequenceOf(tag, kid, act) == Element("of", tag, <<kid>>, act)
SequenceType(tag, kids, act) == Element("seq", tag, kids, act)
Reference(kid, act) == Element("ref", Own, <<kid>>, act)
Implicit(tag, kid) == Element("override", tag, <<kid>>, Quiet)
Explicit(tag, kid) == SequenceType(tag, <<kid>>, Quiet)
Optional(e) == [e EXCEPT !.skip = TRUE]
Shared(e) == [e EXCEPT !.shared = TRUE]

\* parse_compound: alternatives are skippable, and conditional but the first.
Choice(kids, act) ==
  Element("choice", Own,
          [i \in DOMAIN kids |->
             [kids[i] EXCEPT !.skip = TRUE, !.cond = (i > 1)]], act)

Constructed(e) == e.kind \in {"seq", "of"}
ConsBit == 32

\* An instruction; goal is the element of a jump before it has its place.
Instruction(code) ==
  [op |-> code, tag |-> 0, any |-> FALSE, skip |-> FALSE, cond |-> FALSE,
   act |-> Quiet, goal |-> <<>>, back |-> 0]

NoOverride == Element("none", Own, <<>>, Quiet)

Acts(e, code) ==
  IF e.act = Quiet THEN <<>> ELSE <<[Instruction(code) EXCEPT !.act = e.act]>>

RECURSIVE Render(_, _)

\* The children of a compound element and its end.
Body(e) ==
  LET members == FlattenSeq([i \in DOMAIN e.kids |->
                               Render(e.kids[i], NoOverride)])
  IN Append(members,
            [Instruction("end") EXCEPT !.act = e.act,
               !.back = IF e.kind = "of" THEN Len(members) ELSE 0])

\* render_element; t is the element whose tag and flags go before those of e.
Render(e, t) ==
  LET skip == e.skip \/ t.skip
      match == [Instruction("match") EXCEPT
                  !.tag = (IF t.tag # Own THEN t.tag ELSE e.tag)
                            + (IF Constructed(e) THEN ConsBit ELSE 0),
                  !.skip = skip, !.cond = e.cond \/ t.cond]
  IN CASE e.kind = "leaf"     -> <<[match EXCEPT !.act = e.act]>>
       [] e.kind = "any"      -> <<[match EXCEPT !.act = e.act, !.tag = 0,
                                                 !.any = TRUE]>>
       [] e.kind = "override" -> Render(e.kids[1], e)
       [] e.kind = "ref"      -> Render(e.kids[1], t)
                                   \o Acts(e, IF skip THEN "maybe" ELSE "act")
       [] e.kind = "choice"   ->
            FlattenSeq([i \in DOMAIN e.kids |-> Render(e.kids[i], e.kids[i])])
              \o (IF skip THEN <<>> ELSE <<Instruction("fail")>>)
              \o Acts(e, "act")
       [] Constructed(e)      ->
            IF e.shared \/ skip THEN <<[match EXCEPT !.goal = <<e>>]>>
                                ELSE <<match>> \o Body(e)

\* render_out_of_line_list: the bodies of elements that are jumped to, each
\* once, in the order in which they are met.
RECURSIVE Placed(_, _, _)
Placed(code, entry, from) ==
  LET open == {i \in from..Len(code) :
                 code[i].goal # <<>> /\ code[i].goal[1] \notin DOMAIN entry}
      i == CHOOSE k \in open : \A l \in open : k <= l
      e == code[i].goal[1]
  IN IF open = {} THEN [code |-> code, entry |-> entry]
     ELSE Placed(code \o Append(Body(e), Instruction("return")),
                 entry @@ (e :> Len(code) + 1), i)

\* The program; the pass that inserts the jump targets.
Compile(root) ==
  LET placed == Placed(Append(Render(root, NoOverride),
                              Instruction("complete")), <<>>, 1)
      Target(i) ==
        LET c == placed.code[i] IN
        IF c.goal # <<>> THEN placed.entry[c.goal[1]]
        ELSE IF c.back > 0 THEN i - c.back ELSE 0
  IN [i \in DOMAIN placed.code |->
        LET c == placed.code[i] IN
        [op |-> c.op, tag |-> c.tag, any |-> c.any, skip |-> c.skip,
         cond |-> c.cond, act |-> c.act, to |-> Target(i)]]
=============================================================================
