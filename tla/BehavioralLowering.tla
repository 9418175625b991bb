------------------------- MODULE BehavioralLowering -------------------------
(***************************************************************************)
(* M2: a source process becomes a process of the IR only when the width of *)
(* every value it moves is proven to be the width of the place it moves    *)
(* to.                                                                     *)
(***************************************************************************)
EXTENDS Programs

\* payload_types_compatible, required of a value whose destination is known.
\* Mutant: a value of no proven width takes the width of its destination.
CompatibleIfProven(width, value) == value \in {NoWidth, width}

Compatible(width, value) == value = width

DeclaredWidth(c) == IF c \in DOMAIN ChannelWidth THEN ChannelWidth[c] ELSE NoWidth

\* The payload width of the Channel as this communication uses it: its
\* declaration decides, or else the variable or the value.
MovedWidth(p)   == IF p.op = "receive" THEN Cardinality(p.target) ELSE ExpressionWidth(p.value)
PayloadWidth(p) == IF DeclaredWidth(p.channel) # NoWidth THEN DeclaredWidth(p.channel)
                   ELSE MovedWidth(p)

(***************************************************************************)
(* _statement, lower_behavioral: whether a process is lowered.  Nothing is *)
(* required of a condition, nor of a Send on an undeclared Channel.        *)
(***************************************************************************)
RECURSIVE Lowers(_)
Lowers(p) ==
    /\ p.op = "assign" => Compatible(Cardinality(p.target), ExpressionWidth(p.value))
    /\ p.op \in {"send", "receive"} /\ DeclaredWidth(p.channel) # NoWidth =>
           Compatible(DeclaredWidth(p.channel), MovedWidth(p))
    /\ \A k \in DOMAIN p.items : Lowers(p.items[k])
=============================================================================
