-------------------------------- MODULE Terms --------------------------------
(***************************************************************************)
(* Terms of the behavioural IR.  An expression and a process are records   *)
(* of one shape each, so that two terms can always be compared, as the     *)
(* code compares its frozen dataclasses.  An lvalue is the set of the bits *)
(* it covers; a bit is a variable and an index.                            *)
(***************************************************************************)
EXTENDS Integers, Sequences, SequencesExt

CONSTANTS Width,        \* number of bits of every local variable and external input
          Externals,    \* the names of the unhandshaked external inputs, one bit each
          ChannelWidth  \* payload width of every Channel that is declared with one

ASSUME WidthAssumption ==
    /\ Externals \subseteq DOMAIN Width
    /\ \A x \in DOMAIN Width : Width[x] \in 1..2 /\ (x \in Externals => Width[x] = 1)
    /\ \A c \in DOMAIN ChannelWidth : ChannelWidth[c] \in 1..2

Whole(x) == {<<x, i>> : i \in 0..(Width[x] - 1)}
Bits     == UNION {Whole(x) : x \in DOMAIN Width}
ExternalBits == UNION {Whole(x) : x \in Externals}

-----------------------------------------------------------------------------
(***************************************************************************)
(* Expressions.                                                            *)
(***************************************************************************)
Expression(form, value, reads, operands) ==
    [value |-> value, operands |-> operands, form |-> form, reads |-> reads]

Literal(n)              == Expression("literal", n, {}, <<>>)
Name(x)                 == Expression("name", 0, Whole(x), <<>>)
Select(x, i)            == Expression("select", 0, {<<x, i>>}, <<>>)
Not(e)                  == Expression("!", 0, {}, <<e>>)
Invert(e)               == Expression("~", 0, {}, <<e>>)
And(e, f)               == Expression("&&", 0, {}, <<e, f>>)
Or(e, f)                == Expression("||", 0, {}, <<e, f>>)
Conditional(p, e, f)    == Expression("conditional", 0, {}, <<p, e, f>>)

\* The guard of a communication that no condition is around.
NoGuard == Expression("none", 0, {}, <<>>)

\* The width M2 can prove for an expression: none for a literal, and none for
\* a conditional whose arms differ.
NoWidth == 0

-----------------------------------------------------------------------------
(***************************************************************************)
(* Processes.                                                              *)
(***************************************************************************)
Process(op, channel, target, value, items) ==
    [items |-> items, channel |-> channel, op |-> op, value |-> value, target |-> target]

Skip                == Process("skip", "", {}, Literal(0), <<>>)
Receive(c, target)  == Process("receive", c, target, Literal(0), <<>>)
Assign(target, e)   == Process("assign", "", target, e, <<>>)
Send(c, e)          == Process("send", c, {}, e, <<>>)
Sequence(items)     == Process("sequence", "", {}, Literal(0), items)
Parallel(branches)  == Process("parallel", "", {}, Literal(0), branches)
If(cond, then, else) == Process("if", "", {}, cond, <<then, else>>)
=============================================================================
