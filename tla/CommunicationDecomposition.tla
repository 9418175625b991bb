--------------------- MODULE CommunicationDecomposition ---------------------
(***************************************************************************)
(* M4: every Receive and every Send of a transaction gets the conjunction  *)
(* of the conditions around it as its Enable; a port with none stays       *)
(* unconditional.  The width of a port is that of its payload.             *)
(***************************************************************************)
EXTENDS TransactionExtraction

\* Mutant: the else branch is guarded by the condition itself.
ElseConditionPlain(cond) == cond

ElseCondition(cond) == Not(cond)
Also(guard, cond) == IF guard = NoGuard THEN cond ELSE And(guard, cond)

\* _record_guards: the guard of every communication, by its path.
RECURSIVE RecordGuards(_, _, _)
RecordGuards(p, path, guard) ==
    CASE p.op \in {"receive", "send"} -> {[path |-> path, guard |-> guard]}
      [] p.op \in {"assign", "skip"}  -> {}
      [] p.op \in {"sequence", "parallel"} ->
            UNION {RecordGuards(p.items[k], Append(path, k), guard) : k \in DOMAIN p.items}
      [] p.op = "if" ->
            RecordGuards(p.items[1], Append(path, 1), Also(guard, p.value)) \cup
            RecordGuards(p.items[2], Append(path, 2), Also(guard, ElseCondition(p.value)))

\* decompose_transaction: the ports of the transaction, in source order.
Decompose(body, x) ==
    LET guards == RecordGuards(body, <<>>, NoGuard)
        guardAt(path) == (CHOOSE g \in guards : g.path = path).guard
        port(o) == [source |-> o, enable |-> guardAt(o.path),
                    width |-> PayloadWidth(o.operation)]
    IN [receives |-> [k \in DOMAIN x.receives |-> port(x.receives[k])],
        sends    |-> [k \in DOMAIN x.sends |-> port(x.sends[k])]]
=============================================================================
