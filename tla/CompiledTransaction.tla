------------------------ MODULE CompiledTransaction ------------------------
(***************************************************************************)
(* A source transaction taken through M2 to M7: the netlist the compiler   *)
(* emits for it is run with one token on every Channel, and then the       *)
(* source is executed as it says and compared with what was observed.      *)
(***************************************************************************)
EXTENDS GeneratedNetlist, DecomposedView

CONSTANTS
    Pools,         \* sets of statements, one of which a body is put together from
    MaxItems,      \* the length of a body, a bound for TLC
    StableGuards   \* TRUE: only bodies that never write a variable of a
                   \* condition they have tested before.  FALSE: any body.

ASSUME BodyAssumption == MaxItems \in Nat /\ StableGuards \in BOOLEAN

VARIABLES
    stage,        \* the pass that comes next, "run", "done" or "rejected"
    items,        \* the statements of the body so far
    extraction,   \* what M3 has made of them
    decomposed,   \* the ports M4 has made of that
    dependencies, \* the edges M5 has found
    observed,     \* what the netlist has taken and sent, and whether it came to rest
    rest,         \* what is left of the source process to execute
    store,        \* its variables
    writer,       \* the operation that wrote each bit last
    tokens,       \* what the sender of every input Channel offers
    taken,        \* how many tokens it has received from every input Channel
    sent,         \* the values it has sent on every output Channel
    usedUnknown   \* it has tested, assigned or sent an unknown value

passVars == <<items, extraction, decomposed, dependencies>>
runVars  == <<observed, rest, store, writer, tokens, taken, sent, usedUnknown>>
vars     == <<stage, items, extraction, decomposed, dependencies,
              observed, rest, store, writer, tokens, taken, sent, usedUnknown>>

body == Sequence(items)

Operation(port)  == port.source.operation
Channels(ports)  == {Operation(port).channel : port \in ToSet(ports)}

Nothing == [receives |-> <<>>, sends |-> <<>>]

(***************************************************************************)
(* Whether a write to a bit comes after a condition on that bit in the     *)
(* text; tested are the bits of the conditions so far.                     *)
(***************************************************************************)
RECURSIVE TestsAndWrites(_, _)
TestsAndWrites(so_far, p) ==
    FoldLeft(TestsAndWrites,
             [tested |-> so_far.tested \cup
                            (IF p.op = "if" THEN ExpressionReads(p.value) ELSE {}),
              unstable |-> so_far.unstable \/ p.target \cap so_far.tested # {}],
             p.items)

HasStableGuards(p) == ~TestsAndWrites([tested |-> {}, unstable |-> FALSE], p).unstable

-----------------------------------------------------------------------------
(***************************************************************************)
(* The passes.  The walk of M3 takes the items of a body one at a time, so *)
(* a body grows while it is walked.                                        *)
(***************************************************************************)
NoWriter == <<>>

Init ==
    /\ stage = "extract"
    /\ items = <<>>
    /\ extraction = NothingExtracted
    /\ decomposed = Nothing
    /\ dependencies = {}
    /\ observed = <<>>
    /\ rest = Skip
    /\ store = [b \in Bits |-> Unknown]
    /\ writer = [b \in Bits |-> NoWriter]
    /\ tokens = <<>> /\ taken = <<>> /\ sent = <<>>
    /\ usedUnknown = FALSE

ExtractItem(p) ==
    /\ stage = "extract"
    /\ Len(items) < MaxItems
    /\ \E pool \in Pools : ToSet(Append(items, p)) \subseteq pool
    /\ StableGuards => HasStableGuards(Sequence(Append(items, p)))
    /\ items' = Append(items, p)
    /\ extraction' = Visit(p, <<Len(items) + 1>>, extraction)
    /\ stage' = IF Lowers(p) /\ extraction'.accepted THEN "extract" ELSE "rejected"
    /\ UNCHANGED <<decomposed, dependencies, runVars>>

EndExtraction ==
    /\ stage = "extract"
    /\ stage' = IF IsTransaction(extraction) THEN "decompose" ELSE "rejected"
    /\ UNCHANGED <<passVars, runVars>>

DecomposeTransaction ==
    /\ stage = "decompose"
    /\ stage' = "analyze"
    /\ decomposed' = Decompose(body, extraction)
    /\ UNCHANGED <<items, extraction, dependencies, runVars>>

Analysis ==
    /\ stage = "analyze"
    /\ LET analysis == AnalyzeSemantics(body, decomposed)
       IN /\ stage' = IF analysis.valid THEN "bind" ELSE "rejected"
          /\ dependencies' = analysis.dependencies
    /\ UNCHANGED <<items, extraction, decomposed, runVars>>

\* M6, M7 and the emitter's own validation.  bound is not kept: it follows
\* from the passes before.
architecture == LowerMicroarchitecture(extraction, decomposed)
bound == BindAsyncTemplates(architecture)

Bind ==
    /\ stage = "bind"
    /\ stage' = IF Binds(architecture, bound, body) /\ Renderable(bound)
                 THEN "emitted" ELSE "rejected"
    /\ UNCHANGED <<passVars, runVars>>

-----------------------------------------------------------------------------
(***************************************************************************)
(* One transaction of the emitted module and of its source: every sender   *)
(* offers one token, the external inputs stand still, the local variables  *)
(* are undefined.                                                          *)
(***************************************************************************)
Offers ==
    {offer \in [Channels(decomposed.receives) -> 0..3] :
        \A port \in ToSet(decomposed.receives) :
            offer[Operation(port).channel] < 2^PayloadWidth(Operation(port))}

ExternalValues(inputs) == [b \in Bits |-> IF b \in ExternalBits THEN inputs[b] ELSE Unknown]

\* What a reset would bring the control of the module back to.  The data in
\* latch banks and in enable senders means nothing between transactions.
Control(x) ==
    [id \in {i \in DOMAIN x.registers : i[1] # "bundled_data_latch_bank"} |->
        IF id[1] = "four_phase_enable_sender" THEN x.registers[id].state ELSE x.registers[id]]

Observed(after) ==
    [taken |-> after.env.taken, sent |-> after.env.sent,
     rested |-> Control(after) = Control(Transact(Reset(after, TRUE)))]

Observation(netlist) == Observed(Transact(Reset(netlist, FALSE)))

Begin ==
    /\ stage = "emitted"
    /\ stage' = "run"
    /\ rest' = body
    /\ LET netlist == Elaborate(bound, body, decomposed)
       IN \E offer \in Offers, inputs \in [ExternalBits -> 0..1] :
             /\ tokens' = offer
             /\ store' = ExternalValues(inputs)
             /\ observed' = Observation([netlist EXCEPT !.inputs = BlockStart(body, store'),
                                                         !.env.tokens = offer])
    /\ taken' = [c \in Channels(decomposed.receives) |-> 0]
    /\ sent'  = [c \in Channels(decomposed.sends) |-> <<>>]
    /\ UNCHANGED <<passVars, writer, usedUnknown>>

\* The process takes a first step s.
Executes(s, op) ==
    /\ s.does.op = op
    /\ rest' = s.rest
    /\ stage' = IF Finished(s.rest) THEN "done" ELSE "run"
    /\ usedUnknown' = (usedUnknown \/ (op # "receive" /\ Eval(s.does.value, store) = Unknown))
    /\ UNCHANGED <<passVars, observed, tokens>>

WrittenBy(s) == writer' = [b \in Bits |-> IF b \in s.does.target THEN s.at ELSE writer[b]]

ExecuteReceive ==
    /\ stage = "run"
    /\ \E s \in FirstSteps(rest, <<>>, store) :
          /\ Executes(s, "receive")
          /\ taken' = [taken EXCEPT ![s.does.channel] = @ + 1]
          /\ store' = WriteBits(s.does.target, tokens[s.does.channel], store)
          /\ WrittenBy(s)
    /\ UNCHANGED sent

ExecuteAssign ==
    /\ stage = "run"
    /\ \E s \in FirstSteps(rest, <<>>, store) :
          /\ Executes(s, "assign")
          /\ store' = WriteBits(s.does.target, Eval(s.does.value, store), store)
          /\ WrittenBy(s)
    /\ UNCHANGED <<taken, sent>>

ExecuteSend ==
    /\ stage = "run"
    /\ \E s \in FirstSteps(rest, <<>>, store) :
          /\ Executes(s, "send")
          /\ sent' = [sent EXCEPT ![s.does.channel] = Append(@, Eval(s.does.value, store))]
    /\ UNCHANGED <<store, writer, taken>>

ExecuteIf ==
    /\ stage = "run"
    /\ \E s \in FirstSteps(rest, <<>>, store) : Executes(s, "if")
    /\ UNCHANGED <<store, writer, taken, sent>>

\* A rejected source and a finished execution go no further.
Stopped == stage \in {"rejected", "done"} /\ UNCHANGED vars

Next ==
    \/ \E p \in UNION Pools : ExtractItem(p)
    \/ EndExtraction
    \/ DecomposeTransaction
    \/ Analysis
    \/ Bind
    \/ Begin
    \/ ExecuteReceive
    \/ ExecuteAssign
    \/ ExecuteSend
    \/ ExecuteIf
    \/ Stopped

Spec == Init /\ [][Next]_vars

-----------------------------------------------------------------------------
(***************************************************************************)
(* Properties.                                                             *)
(***************************************************************************)
TypeOK ==
    /\ stage \in {"extract", "decompose", "analyze", "bind", "emitted", "run", "done", "rejected"}
    /\ items \in Seq(UNION Pools) /\ Len(items) <= MaxItems
    /\ extraction.phase \in {RECEIVE, COMBINATIONAL, SEND}
    /\ store \in [Bits -> {0, 1, Unknown}]
    /\ usedUnknown \in BOOLEAN

(***************************************************************************)
(* In one transaction the emitted module takes the tokens the source takes *)
(* and sends the values the source sends, once each, whatever order        *)
(* parallel branches take and although it decides about every Send only    *)
(* after the whole body has been computed.  (All passes together, with the *)
(* templates of rtl_lib.)                                                  *)
(***************************************************************************)
SameOutcome ==
    stage = "done" => taken = observed.taken /\ sent = observed.sent

(***************************************************************************)
(* The printed view of a decomposed transaction is good for simulating it: *)
(* executed on the same tokens, the statements of a fork last to first, it *)
(* takes and sends what the source does, although it computes with zeros   *)
(* where the source has taken nothing.                                     *)
(* (emit_conditional_send_decomposition, where it keeps the blocks.)       *)
(***************************************************************************)
RECURSIVE Run(_, _)
Run(m, p) ==
    CASE p.op = "skip" -> m
      [] p.op = "receive" ->
            [m EXCEPT !.taken[p.channel] = @ + 1,
                      !.store = WriteBits(p.target, tokens[p.channel], @)]
      [] p.op = "assign" -> [m EXCEPT !.store = WriteBits(p.target, Eval(p.value, @), @)]
      [] p.op = "send" -> [m EXCEPT !.sent[p.channel] = Append(@, Eval(p.value, m.store))]
      [] p.op = "if" -> Run(m, p.items[IF Holds(p.value, m.store) THEN 1 ELSE 2])
      [] p.op = "sequence" -> FoldLeft(Run, m, p.items)
      [] p.op = "parallel" -> FoldLeft(Run, m, Reverse(p.items))

ViewSameOutcome ==
    stage = "done" /\ HasView(body, decomposed) /\ KeepsBlocks(body, <<>>, decomposed) =>
        LET view == Run([store |-> ExternalValues(store),
                         taken |-> [c \in DOMAIN taken |-> 0],
                         sent  |-> [c \in DOMAIN sent |-> <<>>]],
                        Sequence(View(body, <<>>, decomposed)))
        IN view.taken = taken /\ view.sent = sent

(***************************************************************************)
(* After its transaction, with its partners at rest, the control of the    *)
(* emitted module is where a reset would put it: nothing of a transaction, *)
(* not an enable, a request or an acknowledge, is left for the next one.   *)
(***************************************************************************)
RestsAfterTransaction == stage = "run" => observed.rested

(***************************************************************************)
(* In the emitted module every net that is read has exactly one driver,    *)
(* and every instance binds all formals of its template.  (ensure, bind    *)
(* and the four topology binders of async_template_binding.py.)            *)
(***************************************************************************)
NetlistClosed == stage = "emitted" => Closed(bound)

(***************************************************************************)
(* No assignment of the emitted module resizes a value: the width that     *)
(* SystemVerilog gives an expression of its own, 32 bits for a plain       *)
(* literal, is the width of its target.  ("Accepting an unknown RHS here   *)
(* would defer an implicit resize to emitted SystemVerilog",               *)
(* behavioral_ir.py.)                                                      *)
(***************************************************************************)
RECURSIVE OwnWidth(_)
OwnWidth(e) ==
    LET arg(k) == OwnWidth(e.operands[k])
    IN CASE e.form = "literal" -> 32
         [] e.form \in {"name", "select"} -> Cardinality(e.reads)
         [] e.form = "conditional" -> Max({arg(2), arg(3)})
         [] e.form = "~" -> arg(1)
         [] OTHER -> 1

RECURSIVE Resizes(_)
Resizes(p) ==
    \/ p.op = "assign" /\ OwnWidth(p.value) # Cardinality(p.target)
    \/ p.op = "send"   /\ OwnWidth(p.value) # PayloadWidth(p)
    \/ p.op = "receive" /\ PayloadWidth(p) # Cardinality(p.target)
    \/ \E k \in DOMAIN p.items : Resizes(p.items[k])

NoImplicitResize == stage = "emitted" => ~Resizes(body)

(***************************************************************************)
(* Whenever the source is about to use a bit, in a value or in the enable  *)
(* of a communication, M5 has recorded that this use depends on the very   *)
(* operation that wrote the bit last on this path, and the communication   *)
(* on its enable.                                                          *)
(***************************************************************************)
UseRecorded(e, node) ==
    \A b \in ExpressionReads(e) :
        writer[b] # NoWriter => Edge(writer[b], node, "data") \in dependencies

EveryUseHasItsEdge ==
    stage = "run" =>
        \A s \in FirstSteps(rest, <<>>, store) :
            /\ s.does.op \in {"assign", "send"} => UseRecorded(s.does.value, s.at)
            /\ \A port \in ToSet(decomposed.receives) \cup ToSet(decomposed.sends) :
                   port.source.path = s.at /\ port.enable # NoGuard =>
                      /\ UseRecorded(port.enable, EnableOf(s.at))
                      /\ Edge(EnableOf(s.at), s.at, "control") \in dependencies

(***************************************************************************)
(* A source that analyze_semantics accepts never tests, assigns or sends a *)
(* value that was not defined on the path taken, in any execution.         *)
(***************************************************************************)
NoUndefinedValue == ~usedUnknown

(***************************************************************************)
(* An accepted source executes in regions: once it has computed, it takes  *)
(* no token, and once it has sent, it takes none and computes nothing.     *)
(* The variables it knows when it takes a token are inputs.  (The phases   *)
(* of transaction.py and the rule on Parallel.)                            *)
(***************************************************************************)
InputBits ==
    ExternalBits \cup
    UNION {Operation(port).target :
              port \in {q \in ToSet(decomposed.receives) : taken[Operation(q).channel] > 0}}

RegionsInOrder ==
    [][stage = "run" =>
          /\ taken' # taken \/ store' # store => \A c \in DOMAIN sent : sent[c] = <<>>
          /\ taken' # taken => \A b \in Bits \ InputBits : store[b] = Unknown]_vars
=============================================================================
