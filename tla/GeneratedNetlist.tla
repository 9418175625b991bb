-------------------------- MODULE GeneratedNetlist --------------------------
(***************************************************************************)
(* What the emitted module means: the values of its nets, the templates of *)
(* rtl_lib it instantiates and the always_comb block of its BODY.          *)
(* Wires, joins of one and fanouts have no state; the state of a module is *)
(* one register per C-element, controller, latch bank and matched delay.   *)
(***************************************************************************)
EXTENDS SemanticAnalysis, TemplateBinding, FourPhaseCells, EnableControllers, TLC

(***************************************************************************)
(* What the binding refuses: a public port bound twice, a Send without a   *)
(* width, a body whose Receives and Assigns are not exactly those that M6  *)
(* has ports and operations for.                                           *)
(***************************************************************************)
RECURSIVE PathsOf(_, _, _)
PathsOf(op, p, path) ==
    IF p.op = op THEN {path}
    ELSE UNION {PathsOf(op, p.items[k], Append(path, k)) : k \in DOMAIN p.items}

BindsBody(a, body) ==
    /\ PathsOf("receive", body, <<>>) = {port.source.path : port \in ToSet(a.inputs)}
    /\ PathsOf("assign", body, <<>>) = {o.path : o \in ToSet(a.combinational)}

\* Mutant: the width of a Send is left to the emitted text.
BindsWithoutWidths(a, bound, body) == PortsBoundOnce(bound) /\ BindsBody(a, body)

Binds(a, bound, body) ==
    /\ PortsBoundOnce(bound)
    /\ \A j \in DOMAIN a.outputs : a.outputs[j].width # NoWidth
    /\ BindsBody(a, body)

-----------------------------------------------------------------------------
(***************************************************************************)
(* The BODY program is one always_comb block that runs the source tree     *)
(* from top to bottom with blocking assignments; parallel branches follow  *)
(* each other and Sends leave no trace in it.  A Receive reads the value   *)
(* its input port shows.                                                   *)
(***************************************************************************)
RECURSIVE BodyProgram(_, _, _)
BodyProgram(p, shown, values) ==
    CASE p.op = "receive" -> WriteBits(p.target, shown[p.channel], values)
      [] p.op = "assign"  -> WriteBits(p.target, Eval(p.value, values), values)
      [] p.op = "if" ->
            BodyProgram(p.items[IF Holds(p.value, values) THEN 1 ELSE 2], shown, values)
      [] p.op \in {"sequence", "parallel"} ->
            FoldLeft(LAMBDA v, q : BodyProgram(q, shown, v), values, p.items)
      [] OTHER -> values

\* The block starts with an x in every variable it writes.
BlockStart(p, values) ==
    [b \in Bits |-> IF \E c \in BitsWritten(p) : c[1] = b[1] THEN Unknown ELSE values[b]]

\* The wire an enable drives, enable_value: !(!(condition)).
ConditionValue(condition, values) == Eval(Not(Not(condition)), values)

-----------------------------------------------------------------------------
(***************************************************************************)
(* Values of nets in a state x: the registers, the wires of the channel    *)
(* partners (env) and the variables the BODY program has computed (store). *)
(***************************************************************************)
PortValue(net, env) ==
    CASE net[1] = "reset_n" -> env.reset_n
      [] net[1] = "receive_request"  -> env.req[net[2]]
      [] net[1] = "receive_payload"  -> env.tokens[net[2]]
      [] net[1] = "send_acknowledge" -> env.ack[net[2]]

RECURSIVE NetValue(_, _)

\* _assignment_rhs.
AssignedValue(a, x) ==
    LET source(k) == NetValue(a.sources[k], x)
    IN CASE a.kind = "signal_copy"              -> source(1)
         [] a.kind = "transaction_entry_launch" -> ~source(1)
         [] a.kind = "unpack_control_vector"    -> source(1)[a.index]
         [] a.kind = "pack_control_vector"      -> [k \in DOMAIN a.sources |-> source(k)]
         [] a.kind = "enable_value"             -> ConditionValue(a.value, x.store)
         [] a.kind = "body_send"                -> Eval(a.value, x.store)

Dummy == 0

\* The outputs of an instance.
DrivenValue(i, formal, x) ==
    LET in(f) == NetValue(i.binds[f], x)
        r == x.registers[i.id]
    IN CASE i.template = "four_phase_enable_sender" -> r[formal]
         [] i.template = "en_receive_controller" ->
               (CASE formal = "enable_ack"     -> r.enableAck
                  [] formal = "external_ack"   -> r.externalAck
                  [] formal = "body_raw_req"   -> r.bodyReq
                  [] formal = "storage_data"   -> IF r.enabled THEN in("external_data") ELSE Dummy
                  [] formal = "storage_enable" -> EnReceiveStorageOpen(r, in("external_req")))
         [] i.template = "en_send_controller" ->
               (CASE formal = "enable_ack"       -> r.enableAck
                  [] formal = "external_raw_req" -> r.externalReq
                  [] formal = "storage_data"     -> in("body_data")
                  [] formal \in {"body_ack", "storage_enable"} -> r.bodyAck)
         [] i.template \in {"four_phase_request_join", "four_phase_ack_join"} -> Last(r)
         [] i.template = "four_phase_ack_fanout" ->
               [k \in 1..i.size |-> in("base_Lack")]
         [] i.template = "four_phase_request_fanout" ->
               [k \in 1..i.size |-> in("base_raw_Rreq")]
         [] i.template = "four_phase_half_buffer_controller" -> r.q
         [] OTHER -> r

NetValue(net, x) ==
    LET d == x.drivers[net]
    IN CASE d.by = "port"     -> PortValue(net, x.env)
         [] d.by = "assign"   -> AssignedValue(d.item, x)
         [] d.by = "instance" -> DrivenValue(d.item, d.formal, x)

-----------------------------------------------------------------------------
(***************************************************************************)
(* Registers.                                                              *)
(***************************************************************************)
JoinValue(r, inputs, reset_n) ==
    [k \in DOMAIN r |->
        CElement(reset_n, IF k = 1 THEN inputs[1] ELSE r[k - 1], inputs[k + 1], r[k])]

\* The bound on an execution: the BODY controller starts one transaction.
ControllerValue(r, reset_n, base_Lreq, base_Rack) ==
    LET q == CElement(reset_n, base_Lreq, ~base_Rack, r.q)
    IN IF q /\ ~r.q /\ r.begun THEN r ELSE [q |-> q, begun |-> r.begun \/ q]

PowerUp(i, begun) ==
    CASE i.template = "four_phase_enable_sender" -> EnableSenderReset
      [] i.template = "en_receive_controller"    -> EnReceiveReset
      [] i.template = "en_send_controller"       -> EnSendReset
      [] i.template = "four_phase_half_buffer_controller" -> [q |-> FALSE, begun |-> begun]
      [] i.template = "bundled_data_latch_bank"    -> Unknown
      [] i.template = "bundled_data_matched_delay" -> FALSE
      [] i.template \in {"four_phase_request_join", "four_phase_ack_join"} ->
            [k \in 1..(i.size - 1) |-> FALSE]
      [] OTHER -> FALSE

\* What every cell but a matched delay turns its register into.
NextRegister(i, x) ==
    LET in(f) == NetValue(i.binds[f], x)
        r == x.registers[i.id]
    IN CASE i.template = "four_phase_enable_sender" ->
               EnableSender(r, in("value") = 1, in("launch"), in("ack"))
         [] i.template = "en_receive_controller" ->
               EnReceive(r, in("enable_req"), in("enable_data"), in("external_req"), in("body_ack"))
         [] i.template = "en_send_controller" ->
               EnSend(r, in("enable_req"), in("enable_data"), in("body_req"), in("external_ack"))
         [] i.template = "four_phase_request_join" ->
               JoinValue(r, in("input_req"), in("reset_n"))
         [] i.template = "four_phase_ack_join" ->
               JoinValue(r, in("output_ack"), in("reset_n"))
         [] i.template = "four_phase_half_buffer_controller" ->
               ControllerValue(r, in("reset_n"), in("base_Lreq"), in("base_Rack"))
         [] i.template = "bundled_data_latch_bank" ->
               IF in("storage_enable") THEN in("data_in") ELSE r
         [] OTHER -> r

-----------------------------------------------------------------------------
(***************************************************************************)
(* Execution.  All cells switch together until none is excited, then all   *)
(* channel partners answer, and when nobody has anything to answer all     *)
(* matched delays end: the pace of the test benches, one schedule of many. *)
(* The other schedules of these cells are the business of the RTL modules, *)
(* this one tells whether the wires lead where they should.                *)
(***************************************************************************)
\* The module m of a transaction with body b and ports d before power-up.
Elaborate(m, b, d) ==
    LET channels(ports) == {p.source.operation.channel : p \in ToSet(ports)}
    IN [drivers   |-> [n \in m.signals |-> CHOOSE by \in DriversOf(m, n) : TRUE],
        instances |-> [id \in {i.id : i \in m.instances} |->
                          CHOOSE i \in m.instances : i.id = id],
        valueNet  |-> [c \in channels(d.receives) |->
                          Net("receive_value", CHOOSE k \in DOMAIN d.receives :
                                                  d.receives[k].source.operation.channel = c)],
        body      |-> b,
        registers |-> <<>>,
        inputs    |-> [bit \in Bits |-> Unknown],
        store     |-> [bit \in Bits |-> Unknown],
        env |-> [reset_n |-> FALSE, tokens |-> <<>>,
                 req   |-> [c \in channels(d.receives) |-> FALSE],
                 taken |-> [c \in channels(d.receives) |-> 0],
                 ack   |-> [c \in channels(d.sends) |-> FALSE],
                 sent  |-> [c \in channels(d.sends) |-> <<>>]]]

\* The variables as the always_comb block computes them in x.
WithStore(x) ==
    [x EXCEPT !.store =
        BodyProgram(x.body, [c \in DOMAIN x.valueNet |-> NetValue(x.valueNet[c], x)], x.inputs)]

NextRegisters(x) == [id \in DOMAIN x.registers |-> NextRegister(x.instances[id], x)]

(***************************************************************************)
(* The channel partners: every sender offers one token and every receiver  *)
(* takes what it is sent.  They keep still while the module is in reset.   *)
(***************************************************************************)
Answer(e, received, requested, payload) ==
    [e EXCEPT
        !.req   = [c \in DOMAIN e.req |-> ~received[c] /\ (e.req[c] \/ e.taken[c] = 0)],
        !.taken = [c \in DOMAIN e.taken |->
                      IF e.req[c] /\ received[c] THEN e.taken[c] + 1 ELSE e.taken[c]],
        !.ack   = requested,
        !.sent  = [c \in DOMAIN e.sent |->
                      IF requested[c] /\ ~e.ack[c] THEN Append(e.sent[c], payload[c])
                      ELSE e.sent[c]]]

Partners(x) ==
    IF ~x.env.reset_n THEN x.env
    ELSE Answer(x.env,
                [c \in DOMAIN x.env.req |-> NetValue(Net("receive_acknowledge", c), x)],
                [c \in DOMAIN x.env.ack |-> NetValue(Net("send_request", c), x)],
                [c \in DOMAIN x.env.ack |-> NetValue(Net("send_payload", c), x)])

EndDelays(x) ==
    [id \in DOMAIN x.registers |->
        IF id[1] = "bundled_data_matched_delay"
          THEN NetValue(x.instances[id].binds["control_in"], x)
          ELSE x.registers[id]]

\* What comes after x when these are the next values of its cells, of its
\* partners and of its delays.
Successor(x, registers, env, delayed) ==
    IF registers # x.registers THEN [x EXCEPT !.registers = registers]
    ELSE IF env # x.env THEN [x EXCEPT !.env = env]
    ELSE [x EXCEPT !.registers = delayed]

\* x until nothing changes any more.
RECURSIVE Transact(_)
TransactFrom(x, y) ==
    IF y.registers = x.registers /\ y.env = x.env THEN x ELSE Transact(y)
Transact(x) ==
    LET y == WithStore(x)
    IN TransactFrom(y, Successor(y, NextRegisters(y), Partners(y), EndDelays(y)))

\* The module after power-up, first held in reset.
Reset(x, begun) ==
    LET r == [id \in DOMAIN x.instances |-> PowerUp(x.instances[id], begun)]
    IN [Transact([x EXCEPT !.registers = r, !.env.reset_n = FALSE]) EXCEPT !.env.reset_n = TRUE]
=============================================================================
