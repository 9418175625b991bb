------------------------------ MODULE Netlist ------------------------------
(***************************************************************************)
(* The tables of a bound module, as M7 fills them and the emitter reads    *)
(* them.  A net is a role and whom it belongs to: an input or output port  *)
(* by its index, a Channel by its name, an enable channel by its number.   *)
(* An instance is a template and whom it belongs to.                       *)
(***************************************************************************)
EXTENDS Terms

Net(role, who) == <<role, who>>
Wire(role)     == Net(role, "base")     \* a wire of the one BODY stage
Nets(role, ports) == [k \in DOMAIN ports |-> Net(role, k)]

\* size is the value of the one parameter of a template: a width or a number
\* of wires.
Instance(template, of, size, binds) ==
    [id |-> <<template, of>>, template |-> template, size |-> size, binds |-> binds]

Assignment(target, kind, sources, index, value) ==
    [target |-> target, kind |-> kind, sources |-> sources, index |-> index, value |-> value]
SignalCopy(target, source)    == Assignment(target, "signal_copy", <<source>>, 0, NoGuard)
Unpack(target, vector, index) ==
    Assignment(target, "unpack_control_vector", <<vector>>, index, NoGuard)
Pack(vector, sources)         == Assignment(vector, "pack_control_vector", sources, 0, NoGuard)
Computed(target, kind, value) == Assignment(target, kind, <<>>, 0, value)

\* A public port, and what asked for it.
PublicPort(for, net, direction) == [for |-> for, net |-> net, direction |-> direction]

\* Parts of the bound module add up to the module.
Part(ports, signals, instances, assignments) ==
    [ports |-> ports, signals |-> signals, instances |-> instances, assignments |-> assignments]
Module(parts) ==
    Part(UNION {p.ports : p \in parts}, UNION {p.signals : p \in parts},
         UNION {p.instances : p \in parts}, UNION {p.assignments : p \in parts})

\* external: a public port is not bound a second time.
PortsBoundOnce(m) == \A p, r \in m.ports : p.net = r.net => p = r

-----------------------------------------------------------------------------
\* The formal ports of the templates, by direction.
TemplateInputs ==
    [four_phase_enable_sender |-> {"value", "launch", "ack"},
     en_receive_controller |-> {"enable_req", "enable_data", "external_req", "external_data",
                                "body_ack"},
     en_send_controller |-> {"enable_req", "enable_data", "body_req", "body_data",
                             "external_ack"},
     four_phase_request_join |-> {"reset_n", "input_req"},
     four_phase_ack_join |-> {"reset_n", "output_ack"},
     four_phase_ack_fanout |-> {"base_Lack"},
     four_phase_request_fanout |-> {"base_raw_Rreq"},
     four_phase_half_buffer_controller |-> {"reset_n", "base_Lreq", "base_Rack"},
     bundled_data_latch_bank |-> {"data_in", "storage_enable"},
     bundled_data_matched_delay |-> {"control_in"}]

TemplateOutputs ==
    [four_phase_enable_sender |-> {"req", "data"},
     en_receive_controller |-> {"enable_ack", "external_ack", "body_raw_req", "storage_data",
                                "storage_enable"},
     en_send_controller |-> {"enable_ack", "body_ack", "external_raw_req", "storage_data",
                             "storage_enable"},
     four_phase_request_join |-> {"base_Lreq"},
     four_phase_ack_join |-> {"base_Rack"},
     four_phase_ack_fanout |-> {"input_ack"},
     four_phase_request_fanout |-> {"output_raw_Rreq"},
     four_phase_half_buffer_controller |-> {"base_Lack", "base_raw_Rreq", "storage_enable"},
     bundled_data_latch_bank |-> {"data_out"},
     bundled_data_matched_delay |-> {"control_out"}]

(***************************************************************************)
(* _validate: what the emitter refuses to render.  (Its check of complete  *)
(* formals compares a list with the list it was made from and can not      *)
(* fail; CompletelyBound compares with the templates.)                     *)
(***************************************************************************)
NetsUsed(m) ==
    {p.net : p \in m.ports}
    \cup {a.target : a \in m.assignments}
    \cup (UNION {ToSet(a.sources) : a \in m.assignments})
    \cup (UNION {{i.binds[f] : f \in DOMAIN i.binds} : i \in m.instances})

Renderable(m) ==
    /\ NetsUsed(m) \subseteq m.signals
    /\ PortsBoundOnce(m)
    /\ \A i, j \in m.instances : i.id = j.id => i = j

CompletelyBound(m) ==
    \A i \in m.instances :
        DOMAIN i.binds = TemplateInputs[i.template] \cup TemplateOutputs[i.template]

-----------------------------------------------------------------------------
(***************************************************************************)
(* What drives a net and which nets are read.                              *)
(***************************************************************************)
ByPort(p)        == [by |-> "port", item |-> p]
ByAssignment(a)  == [by |-> "assign", item |-> a]
ByInstance(i, f) == [by |-> "instance", item |-> i, formal |-> f]

DriversOf(m, net) ==
    {ByPort(p) : p \in {q \in m.ports : q.net = net /\ q.direction = "input"}}
    \cup {ByAssignment(a) : a \in {b \in m.assignments : b.target = net}}
    \cup UNION {{ByInstance(i, f) : f \in {g \in TemplateOutputs[i.template] : i.binds[g] = net}} :
                i \in m.instances}

NetsRead(m) ==
    {p.net : p \in {q \in m.ports : q.direction = "output"}}
    \cup (UNION {ToSet(a.sources) : a \in m.assignments})
    \cup (UNION {{i.binds[f] : f \in TemplateInputs[i.template]} : i \in m.instances})

\* A module nothing is left open in: all formals bound, one driver for
\* everything that is read.
Closed(m) ==
    /\ CompletelyBound(m)
    /\ \A net \in NetsRead(m) : Cardinality(DriversOf(m, net)) = 1
=============================================================================
