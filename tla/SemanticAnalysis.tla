-------------------------- MODULE SemanticAnalysis --------------------------
(***************************************************************************)
(* M5: reaching definitions under guards.  A guard is a set of literals, a *)
(* literal an expression and the value it must have; expressions are       *)
(* compared as terms.  definitions maps every bit to the definitions that  *)
(* may have written it last; a bit without any has not been written.       *)
(***************************************************************************)
EXTENDS CommunicationDecomposition

Literals(e, positive) == {[expression |-> e, positive |-> positive]}

\* _extend: the guard that also knows the outcome of a condition.
RECURSIVE Extend(_, _, _)
Extend(guard, e, positive) ==
    CASE e.form = "&&" /\ positive ->
            Extend(Extend(guard, e.operands[1], TRUE), e.operands[2], TRUE)
      [] e.form = "!" -> Extend(guard, e.operands[1], ~positive)
      [] OTHER -> guard \cup Literals(e, positive)

GuardFor(enable, guard) == IF enable = NoGuard THEN guard ELSE Extend({}, enable, TRUE)

Satisfies(guard, valuation) ==
    \A l \in guard : valuation[l.expression] = l.positive

\* _definitions_cover: every valuation the guard admits has a valid definition.
\* Mutant: one definition anywhere is enough.
AnyDefinitionCovers(definitions, guard) == definitions # {}

DefinitionsCover(definitions, guard) ==
    LET atoms == {l.expression : l \in guard \cup
                     UNION {d.availableWhen \cup d.validWhen : d \in definitions}}
    IN \A valuation \in [atoms -> BOOLEAN] :
          Satisfies(guard, valuation) =>
             \E d \in definitions : /\ Satisfies(d.availableWhen, valuation)
                                    /\ Satisfies(d.validWhen, valuation)

NoDefinitions == [b \in Bits |-> {}]

\* Mutant: a write to a bit defines the whole variable.
WriteDefinitionWhole(definitions, target, definition) ==
    [b \in Bits |-> IF \E c \in target : c[1] = b[1] THEN {definition} ELSE definitions[b]]

WriteDefinition(definitions, target, definition) ==
    [b \in Bits |-> IF b \in target THEN {definition} ELSE definitions[b]]

\* _merge_definitions, after an if.
\* Mutant: an if that changes nothing when it is not taken changes nothing.
MergeDefinitionsOfElse(d1, d2) == [b \in Bits |-> IF d2[b] = {} THEN d1[b] ELSE d2[b]]

MergeDefinitions(d1, d2) == [b \in Bits |-> d1[b] \cup d2[b]]

\* _merge_parallel_definitions: a bit one branch has changed takes that
\* branch's definitions.
ChangedBy(initial, flows, b) == {k \in DOMAIN flows : flows[k][b] # initial[b]}

MergeParallelDefinitions(initial, flows) ==
    [b \in Bits |->
        IF ChangedBy(initial, flows, b) = {} THEN initial[b]
        ELSE flows[CHOOSE k \in ChangedBy(initial, flows, b) : TRUE][b]]

-----------------------------------------------------------------------------
(***************************************************************************)
(* Reads.                                                                  *)
(***************************************************************************)
\* A whole variable is undefined when none of its bits has a definition; then
\* it must be an external input.
Undefined(b, definitions) == \A c \in Whole(b[1]) : definitions[c] = {}

BitReadable(b, definitions, guard, receiveEnable) ==
    \/ Undefined(b, definitions) /\ b \in ExternalBits
    \/ /\ ~Undefined(b, definitions)
       /\ receiveEnable => definitions[b] = {}
       /\ DefinitionsCover(definitions[b], guard)

\* _read_expression: the second operand of && or || is read knowing the first,
\* and each arm of a conditional knowing its predicate.
RECURSIVE Readable(_, _, _, _)
Readable(e, definitions, guard, receiveEnable) ==
    LET arg(k, g) == Readable(e.operands[k], definitions, g, receiveEnable)
    IN CASE e.form = "conditional" ->
               /\ arg(1, guard)
               /\ arg(2, Extend(guard, e.operands[1], TRUE))
               /\ arg(3, Extend(guard, e.operands[1], FALSE))
         [] e.form \in {"&&", "||"} ->
               /\ arg(1, guard)
               /\ arg(2, Extend(guard, e.operands[1], e.form = "&&"))
         [] OTHER ->
               \A b \in ExpressionReads(e) : BitReadable(b, definitions, guard, receiveEnable)

-----------------------------------------------------------------------------
(***************************************************************************)
(* Communications and parallel branches.                                   *)
(***************************************************************************)
PortAt(ports, path) == CHOOSE p \in ToSet(ports) : p.source.path = path

\* _analyze_enable.
EnableReadable(port, d, definitions) ==
    LET receiving == port.source.operation.op = "receive"
    IN /\ receiving =>
             \A other \in ToSet(d.receives) \ {port} :
                 ExpressionReads(port.enable) \cap other.source.operation.target = {}
       /\ Readable(port.enable, definitions, {}, receiving)

\* _validate_concurrent_receive_targets.
ReceiveTargetsDisjoint(d) ==
    \A j, k \in DOMAIN d.receives :
        j # k => d.receives[j].source.operation.target
                    \cap d.receives[k].source.operation.target = {}

\* _validate_lvalue_targets: external inputs are never written.  Mutant: they
\* are variables like the others.
TargetsOfAnyVariable(body) == TRUE

RECURSIVE BitsWritten(_)
BitsWritten(p) == p.target \cup UNION {BitsWritten(p.items[k]) : k \in DOMAIN p.items}

TargetsLocal(body) == BitsWritten(body) \cap ExternalBits = {}

RECURSIVE BitsRead(_)
BitsRead(p) ==
    ExpressionReads(p.value) \cup UNION {BitsRead(p.items[k]) : k \in DOMAIN p.items}

\* _validate_parallel_noninterference.  Mutant: two writes conflict, a write
\* and a read do not.
NoninterferenceOfWrites(branches) ==
    \A j, k \in DOMAIN branches :
        j # k => BitsWritten(branches[j]) \cap BitsWritten(branches[k]) = {}

Noninterference(branches) ==
    \A j, k \in DOMAIN branches :
        j # k => BitsWritten(branches[j])
                    \cap (BitsWritten(branches[k]) \cup BitsRead(branches[k])) = {}

-----------------------------------------------------------------------------
(***************************************************************************)
(* Dependencies.  A node is an operation, by its path, or the enable of a  *)
(* communication.                                                          *)
(***************************************************************************)
EnableOf(path) == Append(path, 0)
Edge(from, to, kind) == [from |-> from, to |-> to, kind |-> kind]

\* Every definition that may reach a read of an expression.
DataEdges(e, definitions, node) ==
    {Edge(d.source, node, "data") : d \in UNION {definitions[b] : b \in ExpressionReads(e)}}

\* What the enable of a port depends on, and the port on its enable.
EnableEdges(port, definitions) ==
    LET path == port.source.path
    IN IF port.enable = NoGuard THEN {}
       ELSE DataEdges(port.enable, definitions, EnableOf(path))
                \cup {Edge(EnableOf(path), path, "control")}

-----------------------------------------------------------------------------
(***************************************************************************)
(* _process: the walk, in source order.  state holds the definitions, the  *)
(* edges, and whether every read so far could be justified.                *)
(***************************************************************************)
Definition(path, availableWhen, validWhen) ==
    [source |-> path, availableWhen |-> availableWhen, validWhen |-> validWhen]

NothingAnalyzed == [valid |-> TRUE, definitions |-> NoDefinitions, edges |-> {}]

RECURSIVE Analyze(_, _, _, _, _)
Analyze(p, path, d, state, guard) ==
    LET definitions == state.definitions
        branch(k, g) == Analyze(p.items[k], Append(path, k), d, state, g)
        reads(ok, edges) ==
            [state EXCEPT !.valid = @ /\ ok, !.edges = @ \cup edges]
        writes(x, definition) ==
            [x EXCEPT !.definitions = WriteDefinition(definitions, p.target, definition)]
        enabled(port) == port.enable # NoGuard => EnableReadable(port, d, definitions)
    IN CASE p.op = "skip" -> state
         [] p.op = "sequence" ->
               FoldLeftDomain(LAMBDA s, k : Analyze(p.items[k], Append(path, k), d, s, guard),
                              state, p.items)
         [] p.op = "parallel" ->
               LET flows == [k \in DOMAIN p.items |-> branch(k, guard)]
               IN [reads(/\ Noninterference(p.items)
                         /\ \A k \in DOMAIN flows : flows[k].valid,
                         UNION {flows[k].edges : k \in DOMAIN flows}) EXCEPT
                      !.definitions = MergeParallelDefinitions(definitions,
                                         [k \in DOMAIN flows |-> flows[k].definitions])]
         [] p.op = "if" ->
               LET then == branch(1, Extend(guard, p.value, TRUE))
                   else == branch(2, Extend(guard, p.value, FALSE))
               IN [reads(/\ Readable(p.value, definitions, guard, FALSE)
                         /\ then.valid /\ else.valid,
                         then.edges \cup else.edges) EXCEPT
                      !.definitions = MergeDefinitions(then.definitions, else.definitions)]
         [] p.op = "receive" ->
               LET port == PortAt(d.receives, path)
               IN writes(reads(enabled(port), EnableEdges(port, definitions)),
                         Definition(path, guard, GuardFor(port.enable, guard)))
         [] p.op = "assign" ->
               writes(reads(Readable(p.value, definitions, guard, FALSE),
                            DataEdges(p.value, definitions, path)),
                      Definition(path, guard, guard))
         [] p.op = "send" ->
               LET port == PortAt(d.sends, path)
               IN reads(/\ enabled(port)
                        /\ Readable(p.value, definitions, GuardFor(port.enable, guard), FALSE),
                        EnableEdges(port, definitions) \cup DataEdges(p.value, definitions, path))

\* analyze_semantics: the verdict and the dependencies.
AnalyzeSemantics(body, d) ==
    LET analysis == Analyze(body, <<>>, d, NothingAnalyzed, {})
    IN [valid |-> TargetsLocal(body) /\ ReceiveTargetsDisjoint(d) /\ analysis.valid,
        dependencies |-> analysis.edges]
=============================================================================
