-------------------------- MODULE TemplateBinding --------------------------
(***************************************************************************)
(* M7: the architecture of M6 bound to the templates of rtl_lib.  Each     *)
(* Bind operator is one section of the binder or one of its helpers.       *)
(***************************************************************************)
EXTENDS Microarchitecture, Netlist

LatchBank(of, width, enable, from, to) ==
    Instance("bundled_data_latch_bank", of, width,
             [data_in |-> from, storage_enable |-> enable, data_out |-> to])
MatchedDelay(of, from, to) ==
    Instance("bundled_data_matched_delay", of, 1, [control_in |-> from, control_out |-> to])

-----------------------------------------------------------------------------
(***************************************************************************)
(* Enable channels.  The enable of a Receive is launched by the entry into *)
(* a transaction, that of a Send by the capture of the data.               *)
(***************************************************************************)
EnableReq(k)   == Net("enable_req", k)
EnableAck(k)   == Net("enable_ack", k)
EnableData(k)  == Net("enable_data", k)
EnableValue(k) == Net("enable_value", k)

\* Mutant: every enable is launched by the capture of the data.
LaunchByCapture(stage) == Wire("storage_enable")

Launch(stage) ==
    IF stage.availability = "pre_input" THEN Net("pre_input_launch", stage.channel)
    ELSE Wire("storage_enable")

EnableSenderOf(stage) ==
    LET k == stage.channel
    IN Instance("four_phase_enable_sender", k, 1,
           [value |-> EnableValue(k), launch |-> Launch(stage), req |-> EnableReq(k),
            ack |-> EnableAck(k), data |-> EnableData(k)])

TransactionEntry(k) ==
    Assignment(Net("pre_input_launch", k), "transaction_entry_launch", <<Wire("base_Rack")>>,
               0, NoGuard)

BindEnableChannel(stage) ==
    LET k == stage.channel
    IN Part({}, {EnableValue(k), EnableReq(k), EnableAck(k), EnableData(k), Launch(stage)},
            {EnableSenderOf(stage)},
            {Computed(EnableValue(k), "enable_value", stage.enable)}
                \cup {x \in {TransactionEntry(k)} : x.target = Launch(stage)})

\* The enable channel an EN stage is bound to.  Mutant: by the number of the
\* stage, which is not the number of its channel when both kinds occur.
ChannelOfIndex(stage) == stage.index
ChannelOf(stage) == stage.channel

StagesOf(stages, k) == {stage \in stages : stage.port = k}

-----------------------------------------------------------------------------
(***************************************************************************)
(* Input ports.                                                            *)
(***************************************************************************)
InputReq(i)   == Net("input_body_req", i)
InputAck(i)   == Net("input_body_ack", i)
InputValue(i) == Net("receive_value", i)

ReceivePorts(i, c) ==
    {PublicPort(<<"input", i>>, Net("receive_request", c), "input"),
     PublicPort(<<"input", i>>, Net("receive_acknowledge", c), "output"),
     PublicPort(<<"input", i>>, Net("receive_payload", c), "input")}

ConnectInput(i, c) ==
    {SignalCopy(InputReq(i), Net("receive_request", c)),
     SignalCopy(Net("receive_acknowledge", c), InputAck(i)),
     SignalCopy(InputValue(i), Net("receive_payload", c))}

\* _bind_en_receive.
EnReceiveController(i, k, port, c) ==
    Instance("en_receive_controller", i, port.width,
        [enable_req |-> EnableReq(k), enable_ack |-> EnableAck(k), enable_data |-> EnableData(k),
         external_req |-> Net("receive_request", c), external_ack |-> Net("receive_acknowledge", c),
         external_data |-> Net("receive_payload", c),
         body_raw_req |-> Net("input_body_raw_req", i), body_ack |-> InputAck(i),
         storage_data |-> Net("en_receive_data_in", i),
         storage_enable |-> Net("en_receive_enable", i)])

EnReceiveStage(i, k, port, c) ==
    {EnReceiveController(i, k, port, c),
     LatchBank(<<"en_receive", i>>, port.width, Net("en_receive_enable", i),
               Net("en_receive_data_in", i), InputValue(i)),
     MatchedDelay(<<"en_receive", i>>, Net("input_body_raw_req", i), InputReq(i))}

BindInput(a, i) ==
    LET port == a.inputs[i]
        c == port.source.operation.channel
        staged == StagesOf(a.enReceives, i)
        public == {Net("receive_request", c), Net("receive_acknowledge", c),
                   Net("receive_payload", c), InputReq(i), InputAck(i), InputValue(i)}
    IN IF staged = {}
         THEN Part(ReceivePorts(i, c), public, {}, ConnectInput(i, c))
         ELSE LET stage == CHOOSE s \in staged : TRUE
              IN Part(ReceivePorts(i, c),
                      public \cup {Net("input_body_raw_req", i), Net("en_receive_data_in", i),
                                   Net("en_receive_enable", i)},
                      EnReceiveStage(i, ChannelOf(stage), port, c), {})

-----------------------------------------------------------------------------
(***************************************************************************)
(* Output ports, each with a storage slot latched by the BODY controller   *)
(* and a matched delay from the request of the BODY to its own.            *)
(***************************************************************************)
StorageIn(j)    == Net("storage_data_in", j)
StorageOut(j)   == Net("storage_data_out", j)
OutputRawReq(j) == Net("output_raw_req", j)
OutputReq(j)    == Net("output_req", j)
OutputAck(j)    == Net("output_ack", j)

BindStorage(a, j) ==
    Part({}, {StorageIn(j), StorageOut(j)},
         {LatchBank(<<"storage", j>>, a.outputs[j].width, Wire("storage_enable"),
                    StorageIn(j), StorageOut(j))},
         {Computed(StorageIn(j), "body_send", a.outputs[j].source.operation.value)})

BindOutputDelay(j) ==
    Part({}, {}, {MatchedDelay(<<"output", j>>, OutputRawReq(j), OutputReq(j))}, {})

SendPorts(j, c) ==
    {PublicPort(<<"output", j>>, Net("send_request", c), "output"),
     PublicPort(<<"output", j>>, Net("send_acknowledge", c), "input"),
     PublicPort(<<"output", j>>, Net("send_payload", c), "output")}

ConnectOutput(j, c) ==
    {SignalCopy(Net("send_request", c), OutputReq(j)),
     SignalCopy(OutputAck(j), Net("send_acknowledge", c)),
     SignalCopy(Net("send_payload", c), StorageOut(j))}

\* _bind_en_send.
EnSendController(j, k, port, c) ==
    Instance("en_send_controller", j, port.width,
        [enable_req |-> EnableReq(k), enable_ack |-> EnableAck(k), enable_data |-> EnableData(k),
         body_req |-> OutputReq(j), body_ack |-> OutputAck(j), body_data |-> StorageOut(j),
         external_raw_req |-> Net("external_raw_req", j),
         external_ack |-> Net("send_acknowledge", c),
         storage_data |-> Net("en_send_data_in", j), storage_enable |-> Net("en_send_enable", j)])

EnSendStage(j, k, port, c) ==
    {EnSendController(j, k, port, c),
     LatchBank(<<"en_send", j>>, port.width, Net("en_send_enable", j),
               Net("en_send_data_in", j), Net("send_payload", c)),
     MatchedDelay(<<"en_send", j>>, Net("external_raw_req", j), Net("send_request", c))}

BindOutput(a, j) ==
    LET port == a.outputs[j]
        c == port.source.operation.channel
        staged == StagesOf(a.enSends, j)
        public == {Net("send_request", c), Net("send_acknowledge", c), Net("send_payload", c),
                   OutputRawReq(j), OutputReq(j), OutputAck(j)}
    IN IF staged = {}
         THEN Part(SendPorts(j, c), public, {}, ConnectOutput(j, c))
         ELSE LET stage == CHOOSE s \in staged : TRUE
              IN Part(SendPorts(j, c),
                      public \cup {Net("external_raw_req", j), Net("en_send_data_in", j),
                                   Net("en_send_enable", j)},
                      EnSendStage(j, ChannelOf(stage), port, c), {})

-----------------------------------------------------------------------------
(***************************************************************************)
(* The BODY controller with its joins and fanouts.                         *)
(***************************************************************************)
BindController ==
    LET wires == {"reset_n", "base_Lreq", "base_Rack", "base_Lack", "base_raw_Rreq",
                  "storage_enable"}
    IN Part({PublicPort(<<"base", 0>>, Wire("reset_n"), "input")}, {Wire(w) : w \in wires},
            {Instance("four_phase_half_buffer_controller", "base", 1,
                      [w \in wires |-> Wire(w)])}, {})

BindInputRequest(a) ==
    LET requests == Nets("input_body_req", a.inputs)  vector == Wire("input_request_vector")
    IN IF a.inputSide = "direct"
         THEN Part({}, {}, {}, {SignalCopy(Wire("base_Lreq"), requests[1])})
         ELSE Part({}, {vector},
                   {Instance("four_phase_request_join", "base", Len(a.inputs),
                       [reset_n |-> Wire("reset_n"), input_req |-> vector,
                        base_Lreq |-> Wire("base_Lreq")])},
                   {Pack(vector, requests)})

BindInputAck(a) ==
    LET acks == Nets("input_body_ack", a.inputs)  vector == Wire("input_ack_vector")
    IN IF a.inputSide = "direct"
         THEN Part({}, {}, {}, {SignalCopy(acks[1], Wire("base_Lack"))})
         ELSE Part({}, {vector},
                   {Instance("four_phase_ack_fanout", "base", Len(a.inputs),
                       [base_Lack |-> Wire("base_Lack"), input_ack |-> vector])},
                   {Unpack(acks[k], vector, k) : k \in DOMAIN acks})

BindOutputRequest(a) ==
    LET requests == Nets("output_raw_req", a.outputs)  vector == Wire("output_raw_request_vector")
    IN IF a.outputSide = "direct"
         THEN Part({}, {}, {}, {SignalCopy(requests[1], Wire("base_raw_Rreq"))})
         ELSE Part({}, {vector},
                   {Instance("four_phase_request_fanout", "base", Len(a.outputs),
                       [base_raw_Rreq |-> Wire("base_raw_Rreq"), output_raw_Rreq |-> vector])},
                   {Unpack(requests[k], vector, k) : k \in DOMAIN requests})

BindOutputAck(a) ==
    LET acks == Nets("output_ack", a.outputs)  vector == Wire("output_ack_vector")
    IN IF a.outputSide = "direct"
         THEN Part({}, {}, {}, {SignalCopy(Wire("base_Rack"), acks[1])})
         ELSE Part({}, {vector},
                   {Instance("four_phase_ack_join", "base", Len(a.outputs),
                       [reset_n |-> Wire("reset_n"), output_ack |-> vector,
                        base_Rack |-> Wire("base_Rack")])},
                   {Pack(vector, acks)})

\* bind_async_templates.
PartsOf(a) ==
    {BindController, BindInputRequest(a), BindInputAck(a), BindOutputRequest(a), BindOutputAck(a)}
    \cup {BindInput(a, i) : i \in DOMAIN a.inputs}
    \cup {BindStorage(a, j) : j \in DOMAIN a.outputs}
    \cup {BindOutput(a, j) : j \in DOMAIN a.outputs}
    \cup {BindOutputDelay(j) : j \in DOMAIN a.matchedDelays}
    \cup {BindEnableChannel(stage) : stage \in a.enReceives \cup a.enSends}

BindAsyncTemplates(a) == Module(PartsOf(a))
=============================================================================
