--------------------------- MODULE DecomposedView ---------------------------
(***************************************************************************)
(* The SVCSP text emit_conditional_send_decomposition prints for a         *)
(* decomposed transaction, as the process it reads back as.  It is a view  *)
(* for simulation: a Receive that is disabled leaves a zero in its target. *)
(***************************************************************************)
EXTENDS CommunicationDecomposition

DisabledReceives(d) == {port \in ToSet(d.receives) : port.enable # NoGuard}

RECURSIVE Printable(_)
Printable(e) == e.form # "conditional" /\ \A k \in DOMAIN e.operands : Printable(e.operands[k])

RECURSIVE ExpressionsPrintable(_)
ExpressionsPrintable(p) ==
    Printable(p.value) /\ \A k \in DOMAIN p.items : ExpressionsPrintable(p.items[k])

\* The view exists for at most one conditional Receive.
HasView(body, d) == Cardinality(DisabledReceives(d)) <= 1 /\ ExpressionsPrintable(body)

\* Mutant: the zero takes the place of the Receive itself.
OtherBranchSame(k) == k
OtherBranch(k) == 3 - k

(***************************************************************************)
(* _render_process, _render_if: the statements printed for a process.      *)
(* Blocks are not printed as blocks: a sequence puts its statements where  *)
(* it stands, among the branches of a fork too, and the branch beside a    *)
(* direct conditional Receive is printed as the zero alone.                *)
(***************************************************************************)
RECURSIVE View(_, _, _)
View(p, path, d) ==
    LET rendered(k) == View(p.items[k], Append(path, k), d)
        disabled(k) == {port \in DisabledReceives(d) : port.source.path = Append(path, k)}
        branch(k) ==
            Sequence(IF p.items[OtherBranch(k)].op = "receive" /\ disabled(OtherBranch(k)) # {}
                       THEN <<Assign(p.items[OtherBranch(k)].target, Literal(0))>>
                       ELSE rendered(k))
        statements == FlattenSeq([k \in DOMAIN p.items |-> rendered(k)])
    IN CASE p.op = "skip" -> <<>>
         [] p.op \in {"receive", "send", "assign"} -> <<p>>
         [] p.op = "sequence" -> statements
         [] p.op = "parallel" -> <<Parallel(statements)>>
         [] p.op = "if" -> <<If(p.value, branch(1), branch(2))>>

\* Where that loses nothing: every branch of a fork prints as one statement at
\* most, and nothing stands beside a direct conditional Receive.
RECURSIVE KeepsBlocks(_, _, _)
KeepsBlocks(p, path, d) ==
    LET direct(k) == p.items[k].op = "receive" /\ DisabledReceives(d) # {}
    IN /\ p.op = "parallel" =>
              \A k \in DOMAIN p.items : Len(View(p.items[k], Append(path, k), d)) <= 1
       /\ p.op = "if" => \A j, k \in 1..2 : direct(j) /\ j # k => Finished(p.items[k])
       /\ \A k \in DOMAIN p.items : KeepsBlocks(p.items[k], Append(path, k), d)
=============================================================================
