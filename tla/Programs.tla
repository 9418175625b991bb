------------------------------ MODULE Programs ------------------------------
(***************************************************************************)
(* What the terms of the behavioural IR mean: the value of an expression   *)
(* and the execution of a process.                                         *)
(***************************************************************************)
EXTENDS Terms

\* Every bit an expression mentions.
RECURSIVE ExpressionReads(_)
ExpressionReads(e) ==
    e.reads \cup UNION {ExpressionReads(e.operands[k]) : k \in DOMAIN e.operands}

\* expression_payload_type: an operator has a width when its operands do.
RECURSIVE ExpressionWidth(_)
ExpressionWidth(e) ==
    LET arg(k) == ExpressionWidth(e.operands[k])
    IN CASE e.form \in {"name", "select"}   -> Cardinality(e.reads)
         [] e.form \in {"!", "&&", "||"}    -> 1
         [] e.form = "~"                    -> arg(1)
         [] e.form = "conditional" /\ arg(2) = arg(3) -> arg(2)
         [] OTHER                           -> NoWidth

\* The unknown value x, which no token and no literal has.
Unknown == -1

\* The number the bits of one variable spell, unknown when one of them is.
ReadBits(bits, store) ==
    IF \E b \in bits : store[b] = Unknown THEN Unknown
    ELSE LET low == Min({b[2] : b \in bits})
         IN FoldSet(LAMBDA b, n : n + store[b] * 2^(b[2] - low), 0, bits)

\* Mutant: a bit takes all the bits above it along.
WriteBitsUnmasked(bits, n, store) ==
    LET low == Min({b[2] : b \in bits})
    IN [b \in DOMAIN store |->
           IF b \notin bits THEN store[b]
           ELSE IF n = Unknown THEN Unknown
           ELSE n \div 2^(b[2] - low)]

WriteBits(bits, n, store) ==
    LET low == Min({b[2] : b \in bits})
    IN [b \in DOMAIN store |->
           IF b \notin bits THEN store[b]
           ELSE IF n = Unknown THEN Unknown
           ELSE (n \div 2^(b[2] - low)) % 2]

\* The value of an expression: an operand that decides the result hides an
\* unknown one.
RECURSIVE Eval(_, _)
Eval(e, store) ==
    LET arg(k) == Eval(e.operands[k], store)
    IN CASE e.form = "literal" -> e.value
         [] e.form \in {"name", "select"} -> ReadBits(e.reads, store)
         [] e.form = "!"  -> IF arg(1) = Unknown THEN Unknown
                             ELSE IF arg(1) = 0 THEN 1 ELSE 0
         [] e.form = "~"  -> IF arg(1) = Unknown THEN Unknown
                             ELSE 2^ExpressionWidth(e) - 1 - arg(1)
         [] e.form = "||" -> IF {arg(1), arg(2)} \ {0, Unknown} # {} THEN 1
                             ELSE IF Unknown \in {arg(1), arg(2)} THEN Unknown ELSE 0
         [] e.form = "&&" -> IF 0 \in {arg(1), arg(2)} THEN 0
                             ELSE IF Unknown \in {arg(1), arg(2)} THEN Unknown ELSE 1
         [] e.form = "conditional" ->
                IF arg(1) # Unknown THEN (IF arg(1) # 0 THEN arg(2) ELSE arg(3))
                ELSE IF arg(2) = arg(3) THEN arg(2) ELSE Unknown

\* An if statement takes its else branch on an unknown condition.
Holds(e, store) == Eval(e, store) \notin {0, Unknown}

-----------------------------------------------------------------------------
(***************************************************************************)
(* The meaning of a process: the steps it can take first, each with the    *)
(* path to it and the process that is left.  What has been executed        *)
(* becomes Skip and a tested if the branch it has chosen, so that paths    *)
(* stay what they are in the source.  Parallel branches interleave; the    *)
(* condition of an if is tested in a step of its own.                      *)
(***************************************************************************)
RECURSIVE Finished(_)
Finished(p) ==
    \/ p.op = "skip"
    \/ /\ p.op \in {"sequence", "parallel"}
       /\ \A k \in DOMAIN p.items : Finished(p.items[k])

Chosen(p, k) == Sequence([i \in DOMAIN p.items |-> IF i = k THEN p.items[i] ELSE Skip])

RECURSIVE FirstSteps(_, _, _)
FirstSteps(p, path, store) ==
    LET unfinished == {k \in DOMAIN p.items : ~Finished(p.items[k])}
        next == IF p.op = "parallel" THEN unfinished
                ELSE {k \in unfinished : \A i \in unfinished : k <= i}
    IN CASE p.op = "skip" -> {}
         [] p.op \in {"receive", "assign", "send"} -> {[does |-> p, at |-> path, rest |-> Skip]}
         [] p.op = "if" ->
               {[does |-> p, at |-> path,
                 rest |-> Chosen(p, IF Holds(p.value, store) THEN 1 ELSE 2)]}
         [] p.op \in {"sequence", "parallel"} ->
               UNION {{[s EXCEPT !.rest = [p EXCEPT !.items[k] = s.rest]] :
                       s \in FirstSteps(p.items[k], Append(path, k), store)} : k \in next}
=============================================================================
