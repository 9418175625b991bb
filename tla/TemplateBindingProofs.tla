----------------------- MODULE TemplateBindingProofs -----------------------
(***************************************************************************)
(* The bound module is closed, for every number of ports, conditional or   *)
(* not: every net it reads has one driver.  The proof says for each part   *)
(* of the module which nets it drives, and for each net which part does.   *)
(***************************************************************************)
EXTENDS TemplateBinding, FiniteSetTheorems, TLAPS

-----------------------------------------------------------------------------
(***************************************************************************)
(* Parts.                                                                  *)
(***************************************************************************)
PortDrives(p, net, d)    == p.net = net /\ p.direction = "input" /\ d = ByPort(p)
CellDrives(cell, net, d) ==
    \E f \in TemplateOutputs[cell.template] : cell.binds[f] = net /\ d = ByInstance(cell, f)
PortReads(p, net)        == p.net = net /\ p.direction = "output"
AssignmentReads(x, net)  == net \in ToSet(x.sources)
CellReads(cell, net)     == \E f \in TemplateInputs[cell.template] : cell.binds[f] = net
Bound(cell) ==
    DOMAIN cell.binds = TemplateInputs[cell.template] \cup TemplateOutputs[cell.template]

\* A part drives these nets, each once, and no other.
Drives(part, nets) ==
    /\ \A net : \A d, e \in DriversOf(part, net) : d = e
    /\ \A net : net \in nets <=> DriversOf(part, net) # {}

\* What drives a net in a part.
LEMMA DriversOfPart ==
    ASSUME NEW ports, NEW signals, NEW instances, NEW assignments, NEW net, NEW d
    PROVE  d \in DriversOf(Part(ports, signals, instances, assignments), net) <=>
              \/ \E p \in ports : PortDrives(p, net, d)
              \/ \E x \in assignments : x.target = net /\ d = ByAssignment(x)
              \/ \E cell \in instances : CellDrives(cell, net, d)
BY DEF DriversOf, Part, PortDrives, CellDrives

\* What a part reads.
LEMMA NetsReadOfPart ==
    ASSUME NEW ports, NEW signals, NEW instances, NEW assignments, NEW net
    PROVE  net \in NetsRead(Part(ports, signals, instances, assignments)) <=>
              \/ \E p \in ports : PortReads(p, net)
              \/ \E x \in assignments : AssignmentReads(x, net)
              \/ \E cell \in instances : CellReads(cell, net)
BY DEF NetsRead, Part, PortReads, AssignmentReads, CellReads

\* A module drives and reads what its parts drive and read.
LEMMA DriversOfModule ==
    ASSUME NEW parts, NEW net
    PROVE  DriversOf(Module(parts), net) = UNION {DriversOf(p, net) : p \in parts}
BY DEF DriversOf, Module, Part

\* ... and reads what they read.
LEMMA NetsReadOfModule ==
    ASSUME NEW parts
    PROVE  NetsRead(Module(parts)) = UNION {NetsRead(p) : p \in parts}
BY DEF NetsRead, Module, Part

\* Parts with all formals bound make a module with all formals bound.
LEMMA CompletelyBoundModule ==
    ASSUME NEW parts, \A p \in parts : CompletelyBound(p)
    PROVE  CompletelyBound(Module(parts))
BY DEF CompletelyBound, Module, Part

\* A part has all formals bound when each of its instances has.
LEMMA CompletelyBoundPart ==
    ASSUME NEW ports, NEW signals, NEW instances, NEW assignments, \A cell \in instances : Bound(cell)
    PROVE  CompletelyBound(Part(ports, signals, instances, assignments))
BY DEF CompletelyBound, Part, Bound

\* The sources of the assignments.
LEMMA Sources ==
    ASSUME NEW target, NEW kind, NEW source, NEW index, NEW value
    PROVE  /\ ToSet(Assignment(target, kind, <<>>, index, value).sources) = {}
           /\ ToSet(Assignment(target, kind, <<source>>, index, value).sources) = {source}
BY DEF ToSet, Assignment

\* A copy reads its one source, ...
LEMMA SignalCopyCell ==
    ASSUME NEW target, NEW source
    PROVE  /\ SignalCopy(target, source).target = target
           /\ ToSet(SignalCopy(target, source).sources) = {source}
BY Sources DEF SignalCopy, Assignment

\* ... a computed net reads no net, its variables are those of the BODY, ...
LEMMA ComputedCell ==
    ASSUME NEW target, NEW kind, NEW value
    PROVE  /\ Computed(target, kind, value).target = target
           /\ ToSet(Computed(target, kind, value).sources) = {}
BY Sources DEF Computed, Assignment

\* ... and a vector is packed from one net per port.
LEMMA SourcesOfPack ==
    ASSUME NEW vector, NEW role, NEW ports
    PROVE  ToSet(Pack(vector, Nets(role, ports)).sources) = {Net(role, k) : k \in DOMAIN ports}
BY DEF ToSet, Pack, Assignment, Nets

-----------------------------------------------------------------------------
(***************************************************************************)
(* Templates: what an instance of each drives and reads.                   *)
(***************************************************************************)
LEMMA LatchBankCell ==
    ASSUME NEW of, NEW width, NEW enable, NEW from, NEW to,
           NEW cell, cell = LatchBank(of, width, enable, from, to)
    PROVE  /\ Bound(cell)
           /\ \A net, d : CellDrives(cell, net, d) <=> net = to /\ d = ByInstance(cell, "data_out")
           /\ \A net : CellReads(cell, net) <=> net \in {from, enable}
BY DEF Bound, CellDrives, CellReads, LatchBank, Instance, TemplateInputs, TemplateOutputs

\* A matched delay drives one net from one.
LEMMA MatchedDelayCell ==
    ASSUME NEW of, NEW from, NEW to, NEW cell, cell = MatchedDelay(of, from, to)
    PROVE  /\ Bound(cell)
           /\ \A net, d : CellDrives(cell, net, d) <=> net = to /\ d = ByInstance(cell, "control_out")
           /\ \A net : CellReads(cell, net) <=> net = from
BY DEF Bound, CellDrives, CellReads, MatchedDelay, Instance, TemplateInputs, TemplateOutputs

\* EN_RECV drives its five outputs and reads the enable, the Channel and the BODY.
LEMMA EnReceiveCell ==
    ASSUME NEW i, NEW k, NEW port, NEW c, NEW cell, cell = EnReceiveController(i, k, port, c)
    PROVE  /\ Bound(cell)
           /\ \A net, d : CellDrives(cell, net, d) <=>
                 \/ net = EnableAck(k) /\ d = ByInstance(cell, "enable_ack")
                 \/ net = Net("receive_acknowledge", c) /\ d = ByInstance(cell, "external_ack")
                 \/ net = Net("input_body_raw_req", i) /\ d = ByInstance(cell, "body_raw_req")
                 \/ net = Net("en_receive_data_in", i) /\ d = ByInstance(cell, "storage_data")
                 \/ net = Net("en_receive_enable", i) /\ d = ByInstance(cell, "storage_enable")
           /\ \A net : CellReads(cell, net) <=>
                 net \in {EnableReq(k), EnableData(k), Net("receive_request", c),
                          Net("receive_payload", c), InputAck(i)}
BY DEF Bound, CellDrives, CellReads, EnReceiveController, Instance, TemplateInputs, TemplateOutputs

\* EN_SEND drives its five outputs and reads the enable, the BODY and the Channel.
LEMMA EnSendCell ==
    ASSUME NEW j, NEW k, NEW port, NEW c, NEW cell, cell = EnSendController(j, k, port, c)
    PROVE  /\ Bound(cell)
           /\ \A net, d : CellDrives(cell, net, d) <=>
                 \/ net = EnableAck(k) /\ d = ByInstance(cell, "enable_ack")
                 \/ net = OutputAck(j) /\ d = ByInstance(cell, "body_ack")
                 \/ net = Net("external_raw_req", j) /\ d = ByInstance(cell, "external_raw_req")
                 \/ net = Net("en_send_data_in", j) /\ d = ByInstance(cell, "storage_data")
                 \/ net = Net("en_send_enable", j) /\ d = ByInstance(cell, "storage_enable")
           /\ \A net : CellReads(cell, net) <=>
                 net \in {EnableReq(k), EnableData(k), OutputReq(j), StorageOut(j),
                          Net("send_acknowledge", c)}
BY DEF Bound, CellDrives, CellReads, EnSendController, Instance, TemplateInputs, TemplateOutputs

\* An enable sender drives the request and the token of its enable channel.
LEMMA EnableSenderCell ==
    ASSUME NEW stage, NEW k, k = stage.channel, NEW cell, cell = EnableSenderOf(stage)
    PROVE  /\ Bound(cell)
           /\ \A net, d : CellDrives(cell, net, d) <=>
                 \/ net = EnableReq(k) /\ d = ByInstance(cell, "req")
                 \/ net = EnableData(k) /\ d = ByInstance(cell, "data")
           /\ \A net : CellReads(cell, net) <=>
                 net \in {EnableValue(k), Launch(stage), EnableAck(k)}
BY DEF Bound, CellDrives, CellReads, EnableSenderOf, Instance, TemplateInputs, TemplateOutputs

-----------------------------------------------------------------------------
(***************************************************************************)
(* Parts: what each drives and reads.                                      *)
(***************************************************************************)
ReceiveNets(i, c) ==
    {Net("receive_request", c), Net("receive_payload", c), Net("receive_acknowledge", c),
     InputReq(i), InputValue(i)}
EnReceiveNets(i, k) ==
    {EnableAck(k), Net("input_body_raw_req", i), Net("en_receive_data_in", i),
     Net("en_receive_enable", i)}

SendNets(j, c) ==
    {Net("send_request", c), Net("send_payload", c), Net("send_acknowledge", c), OutputAck(j)}
EnSendNets(j, k) ==
    {EnableAck(k), Net("external_raw_req", j), Net("en_send_data_in", j), Net("en_send_enable", j)}

\* The public ports of an input and of an output.
LEMMA ReceivePortsCell ==
    ASSUME NEW i, NEW c
    PROVE  /\ \A net, d : (\E p \in ReceivePorts(i, c) : PortDrives(p, net, d)) <=>
                 \/ /\ net = Net("receive_request", c)
                    /\ d = ByPort(PublicPort(<<"input", i>>, Net("receive_request", c), "input"))
                 \/ /\ net = Net("receive_payload", c)
                    /\ d = ByPort(PublicPort(<<"input", i>>, Net("receive_payload", c), "input"))
           /\ \A net : (\E p \in ReceivePorts(i, c) : PortReads(p, net)) <=>
                 net = Net("receive_acknowledge", c)
BY DEF ReceivePorts, PublicPort, PortDrives, PortReads

\* The public ports of an output.
LEMMA SendPortsCell ==
    ASSUME NEW j, NEW c
    PROVE  /\ \A net, d : (\E p \in SendPorts(j, c) : PortDrives(p, net, d)) <=>
                 /\ net = Net("send_acknowledge", c)
                 /\ d = ByPort(PublicPort(<<"output", j>>, Net("send_acknowledge", c), "input"))
           /\ \A net : (\E p \in SendPorts(j, c) : PortReads(p, net)) <=>
                 net \in {Net("send_request", c), Net("send_payload", c)}
BY DEF SendPorts, PublicPort, PortDrives, PortReads

\* An input with an EN_RECV stage.
LEMMA StagedInput ==
    ASSUME NEW i, NEW k, NEW port, NEW c, NEW signals, NEW part,
           part = Part(ReceivePorts(i, c), signals, EnReceiveStage(i, k, port, c), {})
    PROVE  /\ Drives(part, ReceiveNets(i, c) \cup EnReceiveNets(i, k))
           /\ NetsRead(part) \subseteq
                 {Net("receive_acknowledge", c), Net("receive_request", c), Net("receive_payload", c),
                  EnableReq(k), EnableData(k), InputAck(i), Net("input_body_raw_req", i),
                  Net("en_receive_data_in", i), Net("en_receive_enable", i)}
           /\ CompletelyBound(part)
<1> DEFINE cell == EnReceiveController(i, k, port, c)
           bank == LatchBank(<<"en_receive", i>>, port.width, Net("en_receive_enable", i),
                             Net("en_receive_data_in", i), InputValue(i))
           delay == MatchedDelay(<<"en_receive", i>>, Net("input_body_raw_req", i), InputReq(i))
<1>1. EnReceiveStage(i, k, port, c) = {cell, bank, delay}
  BY DEF EnReceiveStage
<1>2. /\ Bound(cell) /\ Bound(bank) /\ Bound(delay)
      /\ \A net, d : CellDrives(bank, net, d) <=>
            net = InputValue(i) /\ d = ByInstance(bank, "data_out")
      /\ \A net, d : CellDrives(delay, net, d) <=>
            net = InputReq(i) /\ d = ByInstance(delay, "control_out")
      /\ \A net : CellReads(bank, net) <=>
            net \in {Net("en_receive_data_in", i), Net("en_receive_enable", i)}
      /\ \A net : CellReads(delay, net) <=> net = Net("input_body_raw_req", i)
  BY EnReceiveCell, LatchBankCell, MatchedDelayCell
<1> HIDE DEF cell, bank, delay
<1>3. \A net, d : d \in DriversOf(part, net) <=>
         \/ /\ net = Net("receive_request", c)
            /\ d = ByPort(PublicPort(<<"input", i>>, Net("receive_request", c), "input"))
         \/ /\ net = Net("receive_payload", c)
            /\ d = ByPort(PublicPort(<<"input", i>>, Net("receive_payload", c), "input"))
         \/ net = EnableAck(k) /\ d = ByInstance(cell, "enable_ack")
         \/ net = Net("receive_acknowledge", c) /\ d = ByInstance(cell, "external_ack")
         \/ net = Net("input_body_raw_req", i) /\ d = ByInstance(cell, "body_raw_req")
         \/ net = Net("en_receive_data_in", i) /\ d = ByInstance(cell, "storage_data")
         \/ net = Net("en_receive_enable", i) /\ d = ByInstance(cell, "storage_enable")
         \/ net = InputValue(i) /\ d = ByInstance(bank, "data_out")
         \/ net = InputReq(i) /\ d = ByInstance(delay, "control_out")
  BY <1>1, <1>2, DriversOfPart, ReceivePortsCell, EnReceiveCell DEF cell
<1>4. Drives(part, ReceiveNets(i, c) \cup EnReceiveNets(i, k))
  BY <1>3 DEF Drives, ReceiveNets, EnReceiveNets, InputReq, InputValue, EnableAck, Net
<1>5. \A net : net \in NetsRead(part) <=>
         \/ net = Net("receive_acknowledge", c)
         \/ CellReads(cell, net) \/ CellReads(bank, net) \/ CellReads(delay, net)
  <2> TAKE net
  <2>1. net \in NetsRead(part) <=>
           \/ \E p \in ReceivePorts(i, c) : PortReads(p, net)
           \/ \E x \in {} : AssignmentReads(x, net)
           \/ \E x \in EnReceiveStage(i, k, port, c) : CellReads(x, net)
    BY NetsReadOfPart
  <2>2. (\E p \in ReceivePorts(i, c) : PortReads(p, net)) <=> net = Net("receive_acknowledge", c)
    BY ReceivePortsCell
  <2>3. (\E x \in EnReceiveStage(i, k, port, c) : CellReads(x, net)) <=>
            CellReads(cell, net) \/ CellReads(bank, net) \/ CellReads(delay, net)
    BY <1>1
  <2> QED BY <2>1, <2>2, <2>3
<1>6. \A net : CellReads(cell, net) <=>
         net \in {EnableReq(k), EnableData(k), Net("receive_request", c), Net("receive_payload", c),
                  InputAck(i)}
  BY EnReceiveCell DEF cell
<1>7. CompletelyBound(part)
  BY <1>1, <1>2, CompletelyBoundPart
<1> QED BY <1>2, <1>4, <1>5, <1>6, <1>7

\* An input without one.
LEMMA ConnectedInput ==
    ASSUME NEW i, NEW c, NEW signals, NEW part,
           part = Part(ReceivePorts(i, c), signals, {}, ConnectInput(i, c))
    PROVE  /\ Drives(part, ReceiveNets(i, c))
           /\ NetsRead(part) \subseteq
                 {Net("receive_acknowledge", c), Net("receive_request", c), Net("receive_payload", c),
                  InputAck(i)}
           /\ CompletelyBound(part)
<1> DEFINE req   == SignalCopy(InputReq(i), Net("receive_request", c))
           ack   == SignalCopy(Net("receive_acknowledge", c), InputAck(i))
           value == SignalCopy(InputValue(i), Net("receive_payload", c))
<1>1. ConnectInput(i, c) = {req, ack, value}
  BY DEF ConnectInput
<1>2. /\ req.target = InputReq(i) /\ ToSet(req.sources) = {Net("receive_request", c)}
      /\ ack.target = Net("receive_acknowledge", c) /\ ToSet(ack.sources) = {InputAck(i)}
      /\ value.target = InputValue(i) /\ ToSet(value.sources) = {Net("receive_payload", c)}
  BY SignalCopyCell
<1> HIDE DEF req, ack, value
<1>3. \A net, d : d \in DriversOf(part, net) <=>
         \/ /\ net = Net("receive_request", c)
            /\ d = ByPort(PublicPort(<<"input", i>>, Net("receive_request", c), "input"))
         \/ /\ net = Net("receive_payload", c)
            /\ d = ByPort(PublicPort(<<"input", i>>, Net("receive_payload", c), "input"))
         \/ net = InputReq(i) /\ d = ByAssignment(req)
         \/ net = Net("receive_acknowledge", c) /\ d = ByAssignment(ack)
         \/ net = InputValue(i) /\ d = ByAssignment(value)
  <2> TAKE net, d
  <2>1. d \in DriversOf(part, net) <=>
           \/ \E p \in ReceivePorts(i, c) : PortDrives(p, net, d)
           \/ \E x \in ConnectInput(i, c) : x.target = net /\ d = ByAssignment(x)
           \/ \E x \in {} : CellDrives(x, net, d)
    BY DriversOfPart
  <2>2. (\E x \in ConnectInput(i, c) : x.target = net /\ d = ByAssignment(x)) <=>
           \/ net = InputReq(i) /\ d = ByAssignment(req)
           \/ net = Net("receive_acknowledge", c) /\ d = ByAssignment(ack)
           \/ net = InputValue(i) /\ d = ByAssignment(value)
    BY <1>1, <1>2
  <2> QED BY <2>1, <2>2, ReceivePortsCell
<1>4. Drives(part, ReceiveNets(i, c))
  BY <1>3 DEF Drives, ReceiveNets, InputReq, InputValue, Net
<1>5. \A net : net \in NetsRead(part) <=>
         \/ net = Net("receive_acknowledge", c)
         \/ AssignmentReads(req, net) \/ AssignmentReads(ack, net) \/ AssignmentReads(value, net)
  <2> TAKE net
  <2>1. net \in NetsRead(part) <=>
           \/ \E p \in ReceivePorts(i, c) : PortReads(p, net)
           \/ \E x \in ConnectInput(i, c) : AssignmentReads(x, net)
           \/ \E x \in {} : CellReads(x, net)
    BY NetsReadOfPart
  <2>2. (\E p \in ReceivePorts(i, c) : PortReads(p, net)) <=> net = Net("receive_acknowledge", c)
    BY ReceivePortsCell
  <2>3. (\E x \in ConnectInput(i, c) : AssignmentReads(x, net)) <=>
            AssignmentReads(req, net) \/ AssignmentReads(ack, net) \/ AssignmentReads(value, net)
    BY <1>1
  <2> QED BY <2>1, <2>2, <2>3
<1>6. CompletelyBound(part)
  BY CompletelyBoundPart
<1> QED BY <1>2, <1>4, <1>5, <1>6 DEF AssignmentReads

\* An output with an EN_SEND stage.
LEMMA StagedOutput ==
    ASSUME NEW j, NEW k, NEW port, NEW c, NEW signals, NEW part,
           part = Part(SendPorts(j, c), signals, EnSendStage(j, k, port, c), {})
    PROVE  /\ Drives(part, SendNets(j, c) \cup EnSendNets(j, k))
           /\ NetsRead(part) \subseteq
                 {Net("send_acknowledge", c), Net("send_request", c), Net("send_payload", c),
                  EnableReq(k), EnableData(k), OutputReq(j), StorageOut(j),
                  Net("external_raw_req", j), Net("en_send_data_in", j), Net("en_send_enable", j)}
           /\ CompletelyBound(part)
<1> DEFINE cell == EnSendController(j, k, port, c)
           bank == LatchBank(<<"en_send", j>>, port.width, Net("en_send_enable", j),
                             Net("en_send_data_in", j), Net("send_payload", c))
           delay == MatchedDelay(<<"en_send", j>>, Net("external_raw_req", j), Net("send_request", c))
<1>1. EnSendStage(j, k, port, c) = {cell, bank, delay}
  BY DEF EnSendStage
<1>2. /\ Bound(cell) /\ Bound(bank) /\ Bound(delay)
      /\ \A net, d : CellDrives(bank, net, d) <=>
            net = Net("send_payload", c) /\ d = ByInstance(bank, "data_out")
      /\ \A net, d : CellDrives(delay, net, d) <=>
            net = Net("send_request", c) /\ d = ByInstance(delay, "control_out")
      /\ \A net : CellReads(bank, net) <=>
            net \in {Net("en_send_data_in", j), Net("en_send_enable", j)}
      /\ \A net : CellReads(delay, net) <=> net = Net("external_raw_req", j)
  BY EnSendCell, LatchBankCell, MatchedDelayCell
<1> HIDE DEF cell, bank, delay
<1>3. \A net, d : d \in DriversOf(part, net) <=>
         \/ /\ net = Net("send_acknowledge", c)
            /\ d = ByPort(PublicPort(<<"output", j>>, Net("send_acknowledge", c), "input"))
         \/ net = EnableAck(k) /\ d = ByInstance(cell, "enable_ack")
         \/ net = OutputAck(j) /\ d = ByInstance(cell, "body_ack")
         \/ net = Net("external_raw_req", j) /\ d = ByInstance(cell, "external_raw_req")
         \/ net = Net("en_send_data_in", j) /\ d = ByInstance(cell, "storage_data")
         \/ net = Net("en_send_enable", j) /\ d = ByInstance(cell, "storage_enable")
         \/ net = Net("send_payload", c) /\ d = ByInstance(bank, "data_out")
         \/ net = Net("send_request", c) /\ d = ByInstance(delay, "control_out")
  BY <1>1, <1>2, DriversOfPart, SendPortsCell, EnSendCell DEF cell
<1>4. Drives(part, SendNets(j, c) \cup EnSendNets(j, k))
  BY <1>3 DEF Drives, SendNets, EnSendNets, OutputAck, EnableAck, Net
<1>5. \A net : net \in NetsRead(part) <=>
         \/ net \in {Net("send_request", c), Net("send_payload", c)}
         \/ CellReads(cell, net) \/ CellReads(bank, net) \/ CellReads(delay, net)
  <2> TAKE net
  <2>1. net \in NetsRead(part) <=>
           \/ \E p \in SendPorts(j, c) : PortReads(p, net)
           \/ \E x \in {} : AssignmentReads(x, net)
           \/ \E x \in EnSendStage(j, k, port, c) : CellReads(x, net)
    BY NetsReadOfPart
  <2>2. (\E p \in SendPorts(j, c) : PortReads(p, net)) <=>
           net \in {Net("send_request", c), Net("send_payload", c)}
    BY SendPortsCell
  <2>3. (\E x \in EnSendStage(j, k, port, c) : CellReads(x, net)) <=>
            CellReads(cell, net) \/ CellReads(bank, net) \/ CellReads(delay, net)
    BY <1>1
  <2> QED BY <2>1, <2>2, <2>3
<1>6. \A net : CellReads(cell, net) <=>
         net \in {EnableReq(k), EnableData(k), OutputReq(j), StorageOut(j),
                  Net("send_acknowledge", c)}
  BY EnSendCell DEF cell
<1>7. CompletelyBound(part)
  BY <1>1, <1>2, CompletelyBoundPart
<1> QED BY <1>2, <1>4, <1>5, <1>6, <1>7

\* An output without one.
LEMMA ConnectedOutput ==
    ASSUME NEW j, NEW c, NEW signals, NEW part,
           part = Part(SendPorts(j, c), signals, {}, ConnectOutput(j, c))
    PROVE  /\ Drives(part, SendNets(j, c))
           /\ NetsRead(part) \subseteq
                 {Net("send_acknowledge", c), Net("send_request", c), Net("send_payload", c),
                  OutputReq(j), StorageOut(j)}
           /\ CompletelyBound(part)
<1> DEFINE req   == SignalCopy(Net("send_request", c), OutputReq(j))
           ack   == SignalCopy(OutputAck(j), Net("send_acknowledge", c))
           value == SignalCopy(Net("send_payload", c), StorageOut(j))
<1>1. ConnectOutput(j, c) = {req, ack, value}
  BY DEF ConnectOutput
<1>2. /\ req.target = Net("send_request", c) /\ ToSet(req.sources) = {OutputReq(j)}
      /\ ack.target = OutputAck(j) /\ ToSet(ack.sources) = {Net("send_acknowledge", c)}
      /\ value.target = Net("send_payload", c) /\ ToSet(value.sources) = {StorageOut(j)}
  BY SignalCopyCell
<1> HIDE DEF req, ack, value
<1>3. \A net, d : d \in DriversOf(part, net) <=>
         \/ /\ net = Net("send_acknowledge", c)
            /\ d = ByPort(PublicPort(<<"output", j>>, Net("send_acknowledge", c), "input"))
         \/ net = Net("send_request", c) /\ d = ByAssignment(req)
         \/ net = OutputAck(j) /\ d = ByAssignment(ack)
         \/ net = Net("send_payload", c) /\ d = ByAssignment(value)
  <2> TAKE net, d
  <2>1. d \in DriversOf(part, net) <=>
           \/ \E p \in SendPorts(j, c) : PortDrives(p, net, d)
           \/ \E x \in ConnectOutput(j, c) : x.target = net /\ d = ByAssignment(x)
           \/ \E x \in {} : CellDrives(x, net, d)
    BY DriversOfPart
  <2>2. (\E x \in ConnectOutput(j, c) : x.target = net /\ d = ByAssignment(x)) <=>
           \/ net = Net("send_request", c) /\ d = ByAssignment(req)
           \/ net = OutputAck(j) /\ d = ByAssignment(ack)
           \/ net = Net("send_payload", c) /\ d = ByAssignment(value)
    BY <1>1, <1>2
  <2> QED BY <2>1, <2>2, SendPortsCell
<1>4. Drives(part, SendNets(j, c))
  BY <1>3 DEF Drives, SendNets, OutputAck, Net
<1>5. \A net : net \in NetsRead(part) <=>
         \/ net \in {Net("send_request", c), Net("send_payload", c)}
         \/ AssignmentReads(req, net) \/ AssignmentReads(ack, net) \/ AssignmentReads(value, net)
  <2> TAKE net
  <2>1. net \in NetsRead(part) <=>
           \/ \E p \in SendPorts(j, c) : PortReads(p, net)
           \/ \E x \in ConnectOutput(j, c) : AssignmentReads(x, net)
           \/ \E x \in {} : CellReads(x, net)
    BY NetsReadOfPart
  <2>2. (\E p \in SendPorts(j, c) : PortReads(p, net)) <=>
           net \in {Net("send_request", c), Net("send_payload", c)}
    BY SendPortsCell
  <2>3. (\E x \in ConnectOutput(j, c) : AssignmentReads(x, net)) <=>
            AssignmentReads(req, net) \/ AssignmentReads(ack, net) \/ AssignmentReads(value, net)
    BY <1>1
  <2> QED BY <2>1, <2>2, <2>3
<1>6. CompletelyBound(part)
  BY CompletelyBoundPart
<1> QED BY <1>2, <1>4, <1>5, <1>6 DEF AssignmentReads

\* The storage slot of an output, and the matched delay of one.
LEMMA StoredOutput ==
    ASSUME NEW a, NEW j, NEW part, part = BindStorage(a, j)
    PROVE  /\ Drives(part, {StorageIn(j), StorageOut(j)})
           /\ NetsRead(part) \subseteq {StorageIn(j), Wire("storage_enable")}
           /\ CompletelyBound(part)
<1> DEFINE bank == LatchBank(<<"storage", j>>, a.outputs[j].width, Wire("storage_enable"),
                             StorageIn(j), StorageOut(j))
           value == Computed(StorageIn(j), "body_send", a.outputs[j].source.operation.value)
<1>1. part = Part({}, {StorageIn(j), StorageOut(j)}, {bank}, {value})
  BY DEF BindStorage
<1>2. /\ Bound(bank)
      /\ \A net, d : CellDrives(bank, net, d) <=>
            net = StorageOut(j) /\ d = ByInstance(bank, "data_out")
      /\ \A net : CellReads(bank, net) <=> net \in {StorageIn(j), Wire("storage_enable")}
      /\ value.target = StorageIn(j) /\ ToSet(value.sources) = {}
  BY LatchBankCell, ComputedCell
<1> HIDE DEF bank, value
<1>3. \A net, d : d \in DriversOf(part, net) <=>
         \/ net = StorageOut(j) /\ d = ByInstance(bank, "data_out")
         \/ net = StorageIn(j) /\ d = ByAssignment(value)
  BY <1>1, <1>2, DriversOfPart
<1>4. Drives(part, {StorageIn(j), StorageOut(j)})
  BY <1>3 DEF Drives, StorageIn, StorageOut, Net
<1>5. \A net : net \in NetsRead(part) <=> AssignmentReads(value, net) \/ CellReads(bank, net)
  BY <1>1, NetsReadOfPart
<1>6. CompletelyBound(part)
  BY <1>1, <1>2, CompletelyBoundPart
<1> QED BY <1>2, <1>4, <1>5, <1>6 DEF AssignmentReads

\* The matched delay of an output drives its request.
LEMMA DelayedOutput ==
    ASSUME NEW j, NEW part, part = BindOutputDelay(j)
    PROVE  /\ Drives(part, {OutputReq(j)})
           /\ NetsRead(part) \subseteq {OutputRawReq(j)}
           /\ CompletelyBound(part)
<1> DEFINE delay == MatchedDelay(<<"output", j>>, OutputRawReq(j), OutputReq(j))
<1>1. part = Part({}, {}, {delay}, {})
  BY DEF BindOutputDelay
<1>2. /\ Bound(delay)
      /\ \A net, d : CellDrives(delay, net, d) <=>
            net = OutputReq(j) /\ d = ByInstance(delay, "control_out")
      /\ \A net : CellReads(delay, net) <=> net = OutputRawReq(j)
  BY MatchedDelayCell
<1> HIDE DEF delay
<1>3. \A net, d : d \in DriversOf(part, net) <=>
         net = OutputReq(j) /\ d = ByInstance(delay, "control_out")
  BY <1>1, <1>2, DriversOfPart
<1>4. Drives(part, {OutputReq(j)})
  BY <1>3 DEF Drives
<1>5. \A net : net \in NetsRead(part) <=> CellReads(delay, net)
  BY <1>1, NetsReadOfPart
<1>6. CompletelyBound(part)
  BY <1>1, <1>2, CompletelyBoundPart
<1> QED BY <1>2, <1>4, <1>5, <1>6

\* An enable channel.
EnableNets(stage) ==
    {EnableValue(stage.channel), EnableReq(stage.channel), EnableData(stage.channel)}

\* The enable channel of a Send is launched by a wire of the BODY, ...
LEMMA EnabledByGuard ==
    ASSUME NEW stage, stage.availability # "pre_input", NEW part, part = BindEnableChannel(stage)
    PROVE  /\ Drives(part, EnableNets(stage))
           /\ NetsRead(part) \subseteq
                 {EnableValue(stage.channel), Wire("storage_enable"), EnableAck(stage.channel)}
           /\ CompletelyBound(part)
<1> DEFINE k == stage.channel
           cell == EnableSenderOf(stage)
           value == Computed(EnableValue(k), "enable_value", stage.enable)
           signals == {EnableValue(k), EnableReq(k), EnableAck(k), EnableData(k), Launch(stage)}
<1>1. Launch(stage) = Wire("storage_enable") /\ TransactionEntry(k).target # Launch(stage)
  BY DEF Launch, TransactionEntry, Assignment, Wire, Net
<1>2. part = Part({}, signals, {cell}, {value})
  BY <1>1 DEF BindEnableChannel
<1>3. value.target = EnableValue(k) /\ ToSet(value.sources) = {}
  BY ComputedCell
<1>4. /\ Bound(cell)
      /\ \A net, d : CellDrives(cell, net, d) <=>
            \/ net = EnableReq(k) /\ d = ByInstance(cell, "req")
            \/ net = EnableData(k) /\ d = ByInstance(cell, "data")
      /\ \A net : CellReads(cell, net) <=>
            net \in {EnableValue(k), Wire("storage_enable"), EnableAck(k)}
  BY <1>1, EnableSenderCell
<1> HIDE DEF value, cell, signals
<1>5. \A net, d : d \in DriversOf(part, net) <=>
         \/ net = EnableReq(k) /\ d = ByInstance(cell, "req")
         \/ net = EnableData(k) /\ d = ByInstance(cell, "data")
         \/ net = EnableValue(k) /\ d = ByAssignment(value)
  BY <1>2, <1>3, <1>4, DriversOfPart
<1>6. Drives(part, EnableNets(stage))
  BY <1>5 DEF Drives, EnableNets, EnableReq, EnableData, EnableValue, Net
<1>7. \A net : net \in NetsRead(part) <=> AssignmentReads(value, net) \/ CellReads(cell, net)
  BY <1>2, NetsReadOfPart
<1>8. CompletelyBound(part)
  BY <1>2, <1>4, CompletelyBoundPart
<1> QED BY <1>3, <1>4, <1>6, <1>7, <1>8 DEF AssignmentReads

\* ... that of a Receive by a net of its own, which it drives from base_Rack.
LEMMA EnabledByEntry ==
    ASSUME NEW stage, stage.availability = "pre_input", NEW part, part = BindEnableChannel(stage)
    PROVE  /\ Drives(part, EnableNets(stage) \cup {Net("pre_input_launch", stage.channel)})
           /\ NetsRead(part) \subseteq
                 {EnableValue(stage.channel), Net("pre_input_launch", stage.channel),
                  EnableAck(stage.channel), Wire("base_Rack")}
           /\ CompletelyBound(part)
<1> DEFINE k == stage.channel
           cell == EnableSenderOf(stage)
           value == Computed(EnableValue(k), "enable_value", stage.enable)
           entry == TransactionEntry(k)
           signals == {EnableValue(k), EnableReq(k), EnableAck(k), EnableData(k), Launch(stage)}
<1>1. /\ Launch(stage) = Net("pre_input_launch", k)
      /\ entry.target = Net("pre_input_launch", k) /\ ToSet(entry.sources) = {Wire("base_Rack")}
  BY Sources DEF Launch, TransactionEntry, Assignment
<1>2. part = Part({}, signals, {cell}, {value, entry})
  <2>1. {x \in {entry} : x.target = Launch(stage)} = {entry}
    BY <1>1
  <2>2. {value} \cup {entry} = {value, entry}
    OBVIOUS
  <2> QED BY <2>1, <2>2 DEF BindEnableChannel
<1>3. value.target = EnableValue(k) /\ ToSet(value.sources) = {}
  BY ComputedCell
<1>4. /\ Bound(cell)
      /\ \A net, d : CellDrives(cell, net, d) <=>
            \/ net = EnableReq(k) /\ d = ByInstance(cell, "req")
            \/ net = EnableData(k) /\ d = ByInstance(cell, "data")
      /\ \A net : CellReads(cell, net) <=>
            net \in {EnableValue(k), Net("pre_input_launch", k), EnableAck(k)}
  BY <1>1, EnableSenderCell
<1> HIDE DEF value, cell, entry, signals
<1>5. \A net, d : d \in DriversOf(part, net) <=>
         \/ net = EnableReq(k) /\ d = ByInstance(cell, "req")
         \/ net = EnableData(k) /\ d = ByInstance(cell, "data")
         \/ net = EnableValue(k) /\ d = ByAssignment(value)
         \/ net = Net("pre_input_launch", k) /\ d = ByAssignment(entry)
  BY <1>1, <1>2, <1>3, <1>4, DriversOfPart
<1>6. Drives(part, EnableNets(stage) \cup {Net("pre_input_launch", k)})
  BY <1>5 DEF Drives, EnableNets, EnableReq, EnableData, EnableValue, Net
<1>7. \A net : net \in NetsRead(part) <=>
         AssignmentReads(value, net) \/ AssignmentReads(entry, net) \/ CellReads(cell, net)
  BY <1>2, NetsReadOfPart
<1>8. CompletelyBound(part)
  BY <1>2, <1>4, CompletelyBoundPart
<1> QED BY <1>1, <1>3, <1>4, <1>6, <1>7, <1>8 DEF AssignmentReads

\* The controller of the BODY.
LEMMA Controller ==
    ASSUME NEW part, part = BindController
    PROVE  /\ Drives(part, {Wire("reset_n"), Wire("base_Lack"), Wire("base_raw_Rreq"),
                            Wire("storage_enable")})
           /\ NetsRead(part) \subseteq {Wire("reset_n"), Wire("base_Lreq"), Wire("base_Rack")}
           /\ CompletelyBound(part)
<1> DEFINE wires == {"reset_n", "base_Lreq", "base_Rack", "base_Lack", "base_raw_Rreq",
                     "storage_enable"}
           port == PublicPort(<<"base", 0>>, Wire("reset_n"), "input")
           cell == Instance("four_phase_half_buffer_controller", "base", 1,
                            [w \in wires |-> Wire(w)])
           signals == {Wire(w) : w \in wires}
<1>1. part = Part({port}, signals, {cell}, {})
  BY DEF BindController
<1>2. /\ Bound(cell)
      /\ \A net, d : CellDrives(cell, net, d) <=>
            \/ net = Wire("base_Lack") /\ d = ByInstance(cell, "base_Lack")
            \/ net = Wire("base_raw_Rreq") /\ d = ByInstance(cell, "base_raw_Rreq")
            \/ net = Wire("storage_enable") /\ d = ByInstance(cell, "storage_enable")
      /\ \A net : CellReads(cell, net) <=>
            net \in {Wire("reset_n"), Wire("base_Lreq"), Wire("base_Rack")}
  BY DEF Bound, CellDrives, CellReads, Instance, TemplateInputs, TemplateOutputs
<1>3. /\ \A net, d : PortDrives(port, net, d) <=> net = Wire("reset_n") /\ d = ByPort(port)
      /\ \A net : ~PortReads(port, net)
  BY DEF PortDrives, PortReads, PublicPort
<1> HIDE DEF port, cell, signals
<1>4. \A net, d : d \in DriversOf(part, net) <=>
         \/ net = Wire("reset_n") /\ d = ByPort(port)
         \/ net = Wire("base_Lack") /\ d = ByInstance(cell, "base_Lack")
         \/ net = Wire("base_raw_Rreq") /\ d = ByInstance(cell, "base_raw_Rreq")
         \/ net = Wire("storage_enable") /\ d = ByInstance(cell, "storage_enable")
  BY <1>1, <1>2, <1>3, DriversOfPart
<1>5. Drives(part, {Wire("reset_n"), Wire("base_Lack"), Wire("base_raw_Rreq"),
                    Wire("storage_enable")})
  BY <1>4 DEF Drives, Wire, Net
<1>6. \A net : net \in NetsRead(part) <=> CellReads(cell, net)
  BY <1>1, <1>3, NetsReadOfPart
<1>7. CompletelyBound(part)
  BY <1>1, <1>2, CompletelyBoundPart
<1> QED BY <1>2, <1>5, <1>6, <1>7

\* A wire of the BODY connected to the one port there is.
LEMMA CopiedWire ==
    ASSUME NEW target, NEW source, NEW part, part = Part({}, {}, {}, {SignalCopy(target, source)})
    PROVE  Drives(part, {target}) /\ NetsRead(part) = {source} /\ CompletelyBound(part)
<1> DEFINE copy == SignalCopy(target, source)
<1>1. part = Part({}, {}, {}, {copy}) /\ copy.target = target /\ ToSet(copy.sources) = {source}
  BY SignalCopyCell
<1> HIDE DEF copy
<1>2. \A net, d : d \in DriversOf(part, net) <=> net = target /\ d = ByAssignment(copy)
  BY <1>1, DriversOfPart
<1>3. Drives(part, {target})
  BY <1>2 DEF Drives
<1>4. \A net : net \in NetsRead(part) <=> AssignmentReads(copy, net)
  BY <1>1, NetsReadOfPart
<1>5. CompletelyBound(part)
  BY <1>1, CompletelyBoundPart
<1> QED BY <1>1, <1>3, <1>4, <1>5 DEF AssignmentReads

\* The nets of one role of all ports; a cell with one output.
PortNets(role, ports) == {Net(role, k) : k \in DOMAIN ports}
FanOut(role, ports, vector) ==
    {Unpack(Nets(role, ports)[k], vector, k) : k \in DOMAIN Nets(role, ports)}
DrivesOnly(cell, f, net) ==
    \A n, d : CellDrives(cell, n, d) <=> n = net /\ d = ByInstance(cell, f)
ReadsWithin(cell, nets) == \A net : CellReads(cell, net) => net \in nets

\* A wire of the BODY that is the join of the ports.
LEMMA JoinedWire ==
    ASSUME NEW role, NEW ports, NEW vector, NEW target, NEW signals, NEW cell, NEW f, NEW part,
           part = Part({}, signals, {cell}, {Pack(vector, Nets(role, ports))}),
           Bound(cell), target # vector, DrivesOnly(cell, f, target),
           ReadsWithin(cell, {Wire("reset_n"), vector})
    PROVE  /\ Drives(part, {target, vector})
           /\ NetsRead(part) \subseteq
                 {Wire("reset_n"), vector} \cup PortNets(role, ports)
           /\ CompletelyBound(part)
<1> DEFINE pack == Pack(vector, Nets(role, ports))
<1>1. /\ pack.target = vector
      /\ ToSet(pack.sources) = PortNets(role, ports)
  BY SourcesOfPack DEF Pack, Assignment, PortNets
<1> HIDE DEF pack
<1>2. \A net, d : d \in DriversOf(part, net) <=>
         \/ net = target /\ d = ByInstance(cell, f)
         \/ net = vector /\ d = ByAssignment(pack)
  BY <1>1, DriversOfPart DEF pack, DrivesOnly
<1>3. Drives(part, {target, vector})
  BY <1>2 DEF Drives
<1>4. \A net : net \in NetsRead(part) <=> AssignmentReads(pack, net) \/ CellReads(cell, net)
  BY NetsReadOfPart DEF pack
<1>5. CompletelyBound(part)
  BY CompletelyBoundPart
<1> QED BY <1>1, <1>3, <1>4, <1>5 DEF AssignmentReads, ReadsWithin

\* Ports that fan a wire of the BODY out.
LEMMA FannedWire ==
    ASSUME NEW role, NEW ports, NEW vector, NEW source, NEW signals, NEW cell, NEW f, NEW part,
           part = Part({}, signals, {cell}, FanOut(role, ports, vector)),
           Bound(cell), vector \notin PortNets(role, ports), DrivesOnly(cell, f, vector),
           ReadsWithin(cell, {source})
    PROVE  /\ Drives(part, {vector} \cup PortNets(role, ports))
           /\ NetsRead(part) \subseteq {source, vector}
           /\ CompletelyBound(part)
<1> DEFINE wire(k) == Unpack(Net(role, k), vector, k)
           wires == {wire(k) : k \in DOMAIN ports}
<1>1. part = Part({}, signals, {cell}, wires)
  <2>1. FanOut(role, ports, vector) = wires
    BY DEF FanOut, Nets
  <2> QED BY <2>1
<1>2. \A k : /\ wire(k).target = Net(role, k)
             /\ ToSet(wire(k).sources) = {vector}
  BY Sources DEF Unpack, Assignment
<1> HIDE DEF wire, wires
<1>3. \A net, d : d \in DriversOf(part, net) <=>
         \/ net = vector /\ d = ByInstance(cell, f)
         \/ \E k \in DOMAIN ports : net = Net(role, k) /\ d = ByAssignment(wire(k))
  <2> TAKE net, d
  <2>1. d \in DriversOf(part, net) <=>
           \/ \E p \in {} : PortDrives(p, net, d)
           \/ \E x \in wires : x.target = net /\ d = ByAssignment(x)
           \/ \E x \in {cell} : CellDrives(x, net, d)
    BY <1>1, DriversOfPart
  <2>2. (\E x \in wires : x.target = net /\ d = ByAssignment(x)) <=>
           \E k \in DOMAIN ports : net = Net(role, k) /\ d = ByAssignment(wire(k))
    BY <1>2 DEF wires
  <2> QED BY <2>1, <2>2 DEF DrivesOnly
<1>4. \A k \in DOMAIN ports : Net(role, k) # vector
  BY DEF PortNets
<1>5. \A k, l : Net(role, k) = Net(role, l) => k = l
  BY DEF Net
<1>6. Drives(part, {vector} \cup PortNets(role, ports))
  <2>1. ASSUME NEW net, NEW d \in DriversOf(part, net), NEW e \in DriversOf(part, net)
        PROVE  d = e
    BY <1>3, <1>4, <1>5
  <2>2. ASSUME NEW net
        PROVE  net \in {vector} \cup PortNets(role, ports) <=> DriversOf(part, net) # {}
    BY <1>3 DEF PortNets
  <2> QED BY <2>1, <2>2 DEF Drives
<1>7. \A net : net \in NetsRead(part) => net \in {source, vector}
  <2> TAKE net
  <2>1. net \in NetsRead(part) <=>
           \/ \E p \in {} : PortReads(p, net)
           \/ \E x \in wires : AssignmentReads(x, net)
           \/ \E x \in {cell} : CellReads(x, net)
    BY <1>1, NetsReadOfPart
  <2>2. \A x \in wires : AssignmentReads(x, net) => net = vector
    BY <1>2 DEF AssignmentReads, wires
  <2> QED BY <2>1, <2>2 DEF ReadsWithin
<1>8. CompletelyBound(part)
  BY <1>1, CompletelyBoundPart
<1> QED BY <1>6, <1>7, <1>8

-----------------------------------------------------------------------------
(***************************************************************************)
(* The architectures of M6.                                                *)
(***************************************************************************)
Architecture(a) ==
    /\ 1 \in DOMAIN a.inputs /\ (a.inputSide = "direct" => DOMAIN a.inputs = {1})
    /\ 1 \in DOMAIN a.outputs /\ (a.outputSide = "direct" => DOMAIN a.outputs = {1})
    /\ DOMAIN a.matchedDelays = DOMAIN a.outputs
    /\ \A s \in a.enReceives : s.port \in DOMAIN a.inputs /\ s.availability = "pre_input"
    /\ \A s \in a.enSends : s.port \in DOMAIN a.outputs /\ s.availability = "post_input"
    /\ \A s, t \in a.enReceives : s.port = t.port => s = t
    /\ \A s, t \in a.enSends : s.port = t.port => s = t
    /\ \A s, t \in a.enReceives \cup a.enSends : s.channel = t.channel => s = t

\* A stage has a number below that of every later stage and below their count.
LEMMA StageIndexes ==
    ASSUME NEW Port, NEW ports \in Seq(Port), NEW i \in ConditionalPorts(ports)
    PROVE  /\ StageIndex(ports, i) \in Nat
           /\ StageIndex(ports, i) < Cardinality(ConditionalPorts(ports))
           /\ \A k \in ConditionalPorts(ports) : k < i => StageIndex(ports, k) < StageIndex(ports, i)
           /\ Cardinality(ConditionalPorts(ports)) \in Nat
<1> DEFINE all == ConditionalPorts(ports)
           before(k) == {m \in all : m < k}
<1>1. all \subseteq 1..Len(ports) /\ Len(ports) \in Nat
  BY DEF ConditionalPorts
<1>2. IsFiniteSet(1..Len(ports)) /\ all \subseteq Int
  BY <1>1, FS_Interval
<1>3. IsFiniteSet(all) /\ Cardinality(all) \in Nat
  BY <1>1, <1>2, FS_Subset, FS_CardinalityType
<1>4. ASSUME NEW S, S \subseteq all, NEW m \in all \ S
      PROVE  Cardinality(S) \in Nat /\ Cardinality(S) < Cardinality(all)
  <2>1. IsFiniteSet(S) /\ Cardinality(S) \in Nat
    BY <1>3, <1>4, FS_Subset, FS_CardinalityType
  <2>2. Cardinality(S) <= Cardinality(all)
    BY <1>3, <1>4, FS_Subset
  <2>3. Cardinality(S) # Cardinality(all)
    BY <1>3, <1>4, FS_Subset
  <2> QED BY <1>3, <2>1, <2>2, <2>3
<1>5. StageIndex(ports, i) \in Nat /\ StageIndex(ports, i) < Cardinality(all)
  <2>1. before(i) \subseteq all /\ i \in all \ before(i)
    BY <1>2
  <2> QED BY <1>4, <2>1 DEF StageIndex
<1>6. ASSUME NEW k \in all, k < i
      PROVE  StageIndex(ports, k) < StageIndex(ports, i)
  <2>1. before(k) \subseteq before(i) /\ k \in before(i) /\ k \notin before(k) /\ before(i) \subseteq all
    BY <1>2, <1>6
  <2>2. IsFiniteSet(before(i)) /\ IsFiniteSet(before(k))
    BY <1>3, <2>1, FS_Subset
  <2>3. /\ Cardinality(before(k)) \in Nat /\ Cardinality(before(i)) \in Nat
        /\ Cardinality(before(k)) <= Cardinality(before(i))
        /\ Cardinality(before(k)) = Cardinality(before(i)) => before(k) = before(i)
    BY <2>1, <2>2, FS_Subset, FS_CardinalityType
  <2> QED BY <2>1, <2>3 DEF StageIndex
<1> QED BY <1>3, <1>5, <1>6

\* The stages of one kind: a stage per conditional port, with channels from
\* first up to first and their number.
LEMMA StagesOfPorts ==
    ASSUME NEW Port, NEW ports \in Seq(Port), NEW availability, NEW first \in Nat,
           NEW stages, stages = EnableStages(ports, availability, first)
    PROVE  /\ \A s \in stages : /\ s.port \in DOMAIN ports /\ s.availability = availability
                                /\ s.channel \in Nat /\ first <= s.channel
                                /\ s.channel < first + Cardinality(ConditionalPorts(ports))
           /\ \A s, t \in stages : s.port = t.port => s = t
           /\ \A s, t \in stages : s.channel = t.channel => s = t
<1> DEFINE stage(i) == [index |-> StageIndex(ports, i), port |-> i,
                        channel |-> first + StageIndex(ports, i),
                        enable |-> ports[i].enable, availability |-> availability]
<1>1. \A i : /\ stage(i).port = i /\ stage(i).channel = first + StageIndex(ports, i)
             /\ stage(i).availability = availability
  OBVIOUS
<1>2. stages = {stage(i) : i \in ConditionalPorts(ports)}
  BY DEF EnableStages
<1> HIDE DEF stage
<1>3. \A i \in ConditionalPorts(ports) : i \in DOMAIN ports /\ i \in Int
  BY DEF ConditionalPorts
<1>4. ASSUME NEW s \in stages
      PROVE  /\ s.port \in DOMAIN ports /\ s.availability = availability
             /\ s.channel \in Nat /\ first <= s.channel
             /\ s.channel < first + Cardinality(ConditionalPorts(ports))
  <2>1. PICK i \in ConditionalPorts(ports) : s = stage(i)
    BY <1>2
  <2>2. /\ StageIndex(ports, i) \in Nat /\ Cardinality(ConditionalPorts(ports)) \in Nat
        /\ StageIndex(ports, i) < Cardinality(ConditionalPorts(ports))
    BY StageIndexes
  <2> QED BY <1>1, <1>3, <2>1, <2>2
<1>5. ASSUME NEW s \in stages, NEW t \in stages, s.port = t.port
      PROVE  s = t
  BY <1>1, <1>2, <1>5
<1>6. ASSUME NEW s \in stages, NEW t \in stages, s.channel = t.channel
      PROVE  s = t
  <2>1. PICK i \in ConditionalPorts(ports) : s = stage(i)
    BY <1>2
  <2>2. PICK k \in ConditionalPorts(ports) : t = stage(k)
    BY <1>2
  <2>3. StageIndex(ports, i) \in Nat /\ StageIndex(ports, k) \in Nat
    BY StageIndexes
  <2>4. StageIndex(ports, i) = StageIndex(ports, k)
    BY <1>1, <1>6, <2>1, <2>2, <2>3
  <2>5. ~(i < k) /\ ~(k < i)
    BY <2>3, <2>4, StageIndexes
  <2> QED BY <1>3, <2>1, <2>2, <2>5
<1> QED BY <1>4, <1>5, <1>6

\* What M6 makes of the ports of M4 is an architecture: the enable channels of
\* the Sends are numbered after those of the Receives, so every stage has a
\* channel of its own.
THEOREM LoweredArchitecture ==
    ASSUME NEW Port, NEW x, NEW d, d.receives \in Seq(Port), d.receives # <<>>,
           d.sends \in Seq(Port), d.sends # <<>>
    PROVE  Architecture(LowerMicroarchitecture(x, d))
<1> DEFINE a == LowerMicroarchitecture(x, d)
           first == Cardinality(ConditionalPorts(d.receives))
<1>1. /\ a.inputs = d.receives /\ a.outputs = d.sends
      /\ a.inputSide = Topology(d.receives) /\ a.outputSide = Topology(d.sends)
      /\ a.enReceives = EnableStages(d.receives, "pre_input", 0)
      /\ a.enSends = EnableStages(d.sends, "post_input", first)
      /\ DOMAIN a.matchedDelays = DOMAIN d.sends
  BY DEF LowerMicroarchitecture
<1>2. ASSUME NEW ports \in Seq(Port), ports # <<>>
      PROVE  1 \in DOMAIN ports /\ (Topology(ports) = "direct" => DOMAIN ports = {1})
  <2>1. DOMAIN ports = 1..Len(ports) /\ Len(ports) \in Nat /\ Len(ports) # 0
    BY <1>2
  <2>2. Topology(ports) = "direct" => Len(ports) = 1
    BY <2>1 DEF Topology
  <2> QED BY <2>1, <2>2
<1>3. first \in Nat
  <2>1. ConditionalPorts(d.receives) \subseteq 1..Len(d.receives)
    BY DEF ConditionalPorts
  <2>2. IsFiniteSet(1..Len(d.receives))
    BY FS_Interval
  <2> QED BY <2>1, <2>2, FS_Subset, FS_CardinalityType
<1>4. /\ \A s \in a.enReceives : /\ s.port \in DOMAIN a.inputs /\ s.availability = "pre_input"
                                 /\ s.channel \in Nat /\ s.channel < first
      /\ \A s, t \in a.enReceives : s.port = t.port => s = t
      /\ \A s, t \in a.enReceives : s.channel = t.channel => s = t
  BY <1>1, <1>3, StagesOfPorts
<1>5. /\ \A s \in a.enSends : /\ s.port \in DOMAIN a.outputs /\ s.availability = "post_input"
                              /\ s.channel \in Nat /\ first <= s.channel
      /\ \A s, t \in a.enSends : s.port = t.port => s = t
      /\ \A s, t \in a.enSends : s.channel = t.channel => s = t
  BY <1>1, <1>3, StagesOfPorts
<1>6. \A s, t \in a.enReceives \cup a.enSends : s.channel = t.channel => s = t
  BY <1>3, <1>4, <1>5
<1> QED BY <1>1, <1>2, <1>4, <1>5, <1>6 DEF Architecture

-----------------------------------------------------------------------------
(***************************************************************************)
(* The parts of an architecture: what each drives and reads.               *)
(***************************************************************************)
ChannelOfPort(ports, i) == ports[i].source.operation.channel

\* An input drives the nets of its Channel and of its side of the BODY and, with
\* an EN_RECV stage, those of the stage.
LEMMA InputPart ==
    ASSUME NEW a, NEW i, NEW part, part = BindInput(a, i), NEW c, c = ChannelOfPort(a.inputs, i)
    PROVE  /\ CompletelyBound(part)
           /\ ReceiveNets(i, c) \cup {InputAck(i)} \subseteq part.signals
           /\ \/ /\ StagesOf(a.enReceives, i) = {}
                 /\ Drives(part, ReceiveNets(i, c))
                 /\ NetsRead(part) \subseteq ReceiveNets(i, c) \cup {InputAck(i)}
              \/ \E s \in a.enReceives :
                    /\ s.port = i
                    /\ EnReceiveNets(i, s.channel) \subseteq {EnableAck(s.channel)} \cup part.signals
                    /\ Drives(part, ReceiveNets(i, c) \cup EnReceiveNets(i, s.channel))
                    /\ NetsRead(part) \subseteq
                          ReceiveNets(i, c) \cup EnReceiveNets(i, s.channel) \cup
                          {EnableReq(s.channel), EnableData(s.channel), InputAck(i)}
<1> DEFINE staged == StagesOf(a.enReceives, i)
           signals == {Net("receive_request", c), Net("receive_acknowledge", c),
                       Net("receive_payload", c), InputReq(i), InputAck(i), InputValue(i)}
<1>1. CASE staged = {}
  <2>1. part = Part(ReceivePorts(i, c), signals, {}, ConnectInput(i, c))
    BY <1>1 DEF BindInput, ChannelOfPort
  <2>2. /\ Drives(part, ReceiveNets(i, c)) /\ CompletelyBound(part)
        /\ NetsRead(part) \subseteq
              {Net("receive_acknowledge", c), Net("receive_request", c),
               Net("receive_payload", c), InputAck(i)}
    BY <2>1, ConnectedInput
  <2>3. ReceiveNets(i, c) \cup {InputAck(i)} \subseteq part.signals
    BY <2>1 DEF ReceiveNets, Part
  <2> QED BY <1>1, <2>2, <2>3 DEF ReceiveNets
<1>2. CASE staged # {}
  <2> DEFINE s == CHOOSE t \in staged : TRUE
             nets == signals \cup {Net("input_body_raw_req", i), Net("en_receive_data_in", i),
                                   Net("en_receive_enable", i)}
  <2>1. s \in a.enReceives /\ s.port = i
    BY <1>2 DEF StagesOf
  <2>2. part = Part(ReceivePorts(i, c), nets, EnReceiveStage(i, s.channel, a.inputs[i], c), {})
    BY <1>2 DEF BindInput, ChannelOfPort, ChannelOf
  <2> HIDE DEF s, nets
  <2>3. /\ Drives(part, ReceiveNets(i, c) \cup EnReceiveNets(i, s.channel)) /\ CompletelyBound(part)
        /\ NetsRead(part) \subseteq
              {Net("receive_acknowledge", c), Net("receive_request", c), Net("receive_payload", c),
               EnableReq(s.channel), EnableData(s.channel), InputAck(i),
               Net("input_body_raw_req", i), Net("en_receive_data_in", i),
               Net("en_receive_enable", i)}
    BY <2>2, StagedInput
  <2>4. NetsRead(part) \subseteq
           ReceiveNets(i, c) \cup EnReceiveNets(i, s.channel) \cup
           {EnableReq(s.channel), EnableData(s.channel), InputAck(i)}
    BY <2>3 DEF ReceiveNets, EnReceiveNets
  <2>5. /\ ReceiveNets(i, c) \cup {InputAck(i)} \subseteq part.signals
        /\ EnReceiveNets(i, s.channel) \subseteq {EnableAck(s.channel)} \cup part.signals
    BY <2>2 DEF nets, ReceiveNets, EnReceiveNets, Part
  <2> QED BY <2>1, <2>3, <2>4, <2>5
<1> QED BY <1>1, <1>2

\* The same for an output and EN_SEND.
LEMMA OutputPart ==
    ASSUME NEW a, NEW j, NEW part, part = BindOutput(a, j), NEW c, c = ChannelOfPort(a.outputs, j)
    PROVE  /\ CompletelyBound(part)
           /\ SendNets(j, c) \cup {OutputRawReq(j), OutputReq(j)} \subseteq part.signals
           /\ \/ /\ StagesOf(a.enSends, j) = {}
                 /\ Drives(part, SendNets(j, c))
                 /\ NetsRead(part) \subseteq SendNets(j, c) \cup {OutputReq(j), StorageOut(j)}
              \/ \E s \in a.enSends :
                    /\ s.port = j
                    /\ EnSendNets(j, s.channel) \subseteq {EnableAck(s.channel)} \cup part.signals
                    /\ Drives(part, SendNets(j, c) \cup EnSendNets(j, s.channel))
                    /\ NetsRead(part) \subseteq
                          SendNets(j, c) \cup EnSendNets(j, s.channel) \cup
                          {EnableReq(s.channel), EnableData(s.channel), OutputReq(j), StorageOut(j)}
<1> DEFINE staged == StagesOf(a.enSends, j)
           signals == {Net("send_request", c), Net("send_acknowledge", c), Net("send_payload", c),
                       OutputRawReq(j), OutputReq(j), OutputAck(j)}
<1>1. CASE staged = {}
  <2>1. part = Part(SendPorts(j, c), signals, {}, ConnectOutput(j, c))
    BY <1>1 DEF BindOutput, ChannelOfPort
  <2>2. /\ Drives(part, SendNets(j, c)) /\ CompletelyBound(part)
        /\ NetsRead(part) \subseteq
              {Net("send_acknowledge", c), Net("send_request", c), Net("send_payload", c),
               OutputReq(j), StorageOut(j)}
    BY <2>1, ConnectedOutput
  <2>3. SendNets(j, c) \cup {OutputRawReq(j), OutputReq(j)} \subseteq part.signals
    BY <2>1 DEF SendNets, Part
  <2> QED BY <1>1, <2>2, <2>3 DEF SendNets
<1>2. CASE staged # {}
  <2> DEFINE s == CHOOSE t \in staged : TRUE
             nets == signals \cup {Net("external_raw_req", j), Net("en_send_data_in", j),
                                   Net("en_send_enable", j)}
  <2>1. s \in a.enSends /\ s.port = j
    BY <1>2 DEF StagesOf
  <2>2. part = Part(SendPorts(j, c), nets, EnSendStage(j, s.channel, a.outputs[j], c), {})
    BY <1>2 DEF BindOutput, ChannelOfPort, ChannelOf
  <2> HIDE DEF s, nets
  <2>3. /\ Drives(part, SendNets(j, c) \cup EnSendNets(j, s.channel)) /\ CompletelyBound(part)
        /\ NetsRead(part) \subseteq
              {Net("send_acknowledge", c), Net("send_request", c), Net("send_payload", c),
               EnableReq(s.channel), EnableData(s.channel), OutputReq(j), StorageOut(j),
               Net("external_raw_req", j), Net("en_send_data_in", j), Net("en_send_enable", j)}
    BY <2>2, StagedOutput
  <2>4. NetsRead(part) \subseteq
           SendNets(j, c) \cup EnSendNets(j, s.channel) \cup
           {EnableReq(s.channel), EnableData(s.channel), OutputReq(j), StorageOut(j)}
    BY <2>3 DEF SendNets, EnSendNets
  <2>5. /\ SendNets(j, c) \cup {OutputRawReq(j), OutputReq(j)} \subseteq part.signals
        /\ EnSendNets(j, s.channel) \subseteq {EnableAck(s.channel)} \cup part.signals
    BY <2>2 DEF nets, SendNets, EnSendNets, Part
  <2> QED BY <2>1, <2>3, <2>4, <2>5
<1> QED BY <1>1, <1>2

\* The four connections of the ports to the BODY, each with a vector when there
\* is more than one port.
LEMMA InputRequestPart ==
    ASSUME NEW a, Architecture(a), NEW part, part = BindInputRequest(a)
    PROVE  /\ CompletelyBound(part)
           /\ \E vectors \in {{}, {Wire("input_request_vector")}} :
                 /\ vectors \subseteq part.signals
                 /\ Drives(part, {Wire("base_Lreq")} \cup vectors)
                 /\ NetsRead(part) \subseteq
                       {Wire("reset_n")} \cup vectors \cup {InputReq(i) : i \in DOMAIN a.inputs}
<1> DEFINE target == Wire("base_Lreq")  vector == Wire("input_request_vector")
           cell == Instance("four_phase_request_join", "base", Len(a.inputs),
                            [reset_n |-> Wire("reset_n"), input_req |-> vector,
                             base_Lreq |-> target])
<1>1. CASE a.inputSide = "direct"
  <2>1. part = Part({}, {}, {}, {SignalCopy(target, InputReq(1))}) /\ 1 \in DOMAIN a.inputs
    BY <1>1 DEF BindInputRequest, Architecture, Nets, InputReq
  <2>2. Drives(part, {target}) /\ NetsRead(part) = {InputReq(1)} /\ CompletelyBound(part)
    BY <2>1, CopiedWire
  <2>3. {target} \cup {} = {target}
    OBVIOUS
  <2> QED BY <2>1, <2>2, <2>3
<1>2. CASE a.inputSide # "direct"
  <2>1. part = Part({}, {vector}, {cell}, {Pack(vector, Nets("input_body_req", a.inputs))})
    BY <1>2 DEF BindInputRequest
  <2>2. /\ Bound(cell) /\ target # vector
        /\ DrivesOnly(cell, "base_Lreq", target)
        /\ ReadsWithin(cell, {Wire("reset_n"), vector})
    BY DEF Bound, DrivesOnly, ReadsWithin, CellDrives, CellReads, Instance, TemplateInputs,
           TemplateOutputs, Wire, Net
  <2> HIDE DEF cell, target, vector
  <2>3. /\ Drives(part, {target, vector}) /\ CompletelyBound(part)
        /\ NetsRead(part) \subseteq
              {Wire("reset_n"), vector} \cup PortNets("input_body_req", a.inputs)
    BY <2>1, <2>2, JoinedWire
  <2>4. {target, vector} = {target} \cup {vector}
    OBVIOUS
  <2>5. part.signals = {vector}
    BY <2>1 DEF Part
  <2> QED BY <2>3, <2>4, <2>5 DEF InputReq, target, vector, PortNets
<1> QED BY <1>1, <1>2

\* The acknowledge of the BODY goes to every input.
LEMMA InputAckPart ==
    ASSUME NEW a, Architecture(a), NEW part, part = BindInputAck(a)
    PROVE  /\ CompletelyBound(part)
           /\ \E vectors \in {{}, {Wire("input_ack_vector")}} :
                 /\ vectors \subseteq part.signals
                 /\ Drives(part, vectors \cup {InputAck(i) : i \in DOMAIN a.inputs})
                 /\ NetsRead(part) \subseteq {Wire("base_Lack")} \cup vectors
<1> DEFINE source == Wire("base_Lack")  vector == Wire("input_ack_vector")
           cell == Instance("four_phase_ack_fanout", "base", Len(a.inputs),
                            [base_Lack |-> source, input_ack |-> vector])
<1>1. CASE a.inputSide = "direct"
  <2>1. part = Part({}, {}, {}, {SignalCopy(InputAck(1), source)}) /\ DOMAIN a.inputs = {1}
    BY <1>1 DEF BindInputAck, Architecture, Nets, InputAck
  <2>2. Drives(part, {InputAck(1)}) /\ NetsRead(part) = {source} /\ CompletelyBound(part)
    BY <2>1, CopiedWire
  <2>3. {} \cup {InputAck(i) : i \in DOMAIN a.inputs} = {InputAck(1)}
    BY <2>1
  <2> QED BY <2>2, <2>3
<1>2. CASE a.inputSide # "direct"
  <2>1. part = Part({}, {vector}, {cell}, FanOut("input_body_ack", a.inputs, vector))
    BY <1>2 DEF BindInputAck, FanOut
  <2>2. /\ Bound(cell) /\ vector \notin PortNets("input_body_ack", a.inputs)
        /\ DrivesOnly(cell, "input_ack", vector)
        /\ ReadsWithin(cell, {source})
    BY DEF Bound, DrivesOnly, ReadsWithin, CellDrives, CellReads, Instance, TemplateInputs,
           TemplateOutputs, Wire, Net, PortNets
  <2> HIDE DEF cell, source, vector
  <2>3. /\ Drives(part, {vector} \cup PortNets("input_body_ack", a.inputs))
        /\ NetsRead(part) \subseteq {source, vector} /\ CompletelyBound(part)
    BY <2>1, <2>2, FannedWire
  <2>4. part.signals = {vector}
    BY <2>1 DEF Part
  <2> QED BY <2>3, <2>4 DEF InputAck, source, vector, PortNets
<1> QED BY <1>1, <1>2

\* The request of the BODY goes to every output.
LEMMA OutputRequestPart ==
    ASSUME NEW a, Architecture(a), NEW part, part = BindOutputRequest(a)
    PROVE  /\ CompletelyBound(part)
           /\ \E vectors \in {{}, {Wire("output_raw_request_vector")}} :
                 /\ vectors \subseteq part.signals
                 /\ Drives(part, vectors \cup {OutputRawReq(j) : j \in DOMAIN a.outputs})
                 /\ NetsRead(part) \subseteq {Wire("base_raw_Rreq")} \cup vectors
<1> DEFINE source == Wire("base_raw_Rreq")  vector == Wire("output_raw_request_vector")
           cell == Instance("four_phase_request_fanout", "base", Len(a.outputs),
                            [base_raw_Rreq |-> source, output_raw_Rreq |-> vector])
<1>1. CASE a.outputSide = "direct"
  <2>1. part = Part({}, {}, {}, {SignalCopy(OutputRawReq(1), source)}) /\ DOMAIN a.outputs = {1}
    BY <1>1 DEF BindOutputRequest, Architecture, Nets, OutputRawReq
  <2>2. Drives(part, {OutputRawReq(1)}) /\ NetsRead(part) = {source} /\ CompletelyBound(part)
    BY <2>1, CopiedWire
  <2>3. {} \cup {OutputRawReq(j) : j \in DOMAIN a.outputs} = {OutputRawReq(1)}
    BY <2>1
  <2> QED BY <2>2, <2>3
<1>2. CASE a.outputSide # "direct"
  <2>1. part = Part({}, {vector}, {cell}, FanOut("output_raw_req", a.outputs, vector))
    BY <1>2 DEF BindOutputRequest, FanOut
  <2>2. /\ Bound(cell) /\ vector \notin PortNets("output_raw_req", a.outputs)
        /\ DrivesOnly(cell, "output_raw_Rreq", vector)
        /\ ReadsWithin(cell, {source})
    BY DEF Bound, DrivesOnly, ReadsWithin, CellDrives, CellReads, Instance, TemplateInputs,
           TemplateOutputs, Wire, Net, PortNets
  <2> HIDE DEF cell, source, vector
  <2>3. /\ Drives(part, {vector} \cup PortNets("output_raw_req", a.outputs))
        /\ NetsRead(part) \subseteq {source, vector} /\ CompletelyBound(part)
    BY <2>1, <2>2, FannedWire
  <2>4. part.signals = {vector}
    BY <2>1 DEF Part
  <2> QED BY <2>3, <2>4 DEF OutputRawReq, source, vector, PortNets
<1> QED BY <1>1, <1>2

\* The acknowledges of the outputs make that of the BODY.
LEMMA OutputAckPart ==
    ASSUME NEW a, Architecture(a), NEW part, part = BindOutputAck(a)
    PROVE  /\ CompletelyBound(part)
           /\ \E vectors \in {{}, {Wire("output_ack_vector")}} :
                 /\ vectors \subseteq part.signals
                 /\ Drives(part, {Wire("base_Rack")} \cup vectors)
                 /\ NetsRead(part) \subseteq
                       {Wire("reset_n")} \cup vectors \cup {OutputAck(j) : j \in DOMAIN a.outputs}
<1> DEFINE target == Wire("base_Rack")  vector == Wire("output_ack_vector")
           cell == Instance("four_phase_ack_join", "base", Len(a.outputs),
                            [reset_n |-> Wire("reset_n"), output_ack |-> vector,
                             base_Rack |-> target])
<1>1. CASE a.outputSide = "direct"
  <2>1. part = Part({}, {}, {}, {SignalCopy(target, OutputAck(1))}) /\ 1 \in DOMAIN a.outputs
    BY <1>1 DEF BindOutputAck, Architecture, Nets, OutputAck
  <2>2. Drives(part, {target}) /\ NetsRead(part) = {OutputAck(1)} /\ CompletelyBound(part)
    BY <2>1, CopiedWire
  <2>3. {target} \cup {} = {target}
    OBVIOUS
  <2> QED BY <2>1, <2>2, <2>3
<1>2. CASE a.outputSide # "direct"
  <2>1. part = Part({}, {vector}, {cell}, {Pack(vector, Nets("output_ack", a.outputs))})
    BY <1>2 DEF BindOutputAck
  <2>2. /\ Bound(cell) /\ target # vector
        /\ DrivesOnly(cell, "base_Rack", target)
        /\ ReadsWithin(cell, {Wire("reset_n"), vector})
    BY DEF Bound, DrivesOnly, ReadsWithin, CellDrives, CellReads, Instance, TemplateInputs,
           TemplateOutputs, Wire, Net, PortNets
  <2> HIDE DEF cell, target, vector
  <2>3. /\ Drives(part, {target, vector}) /\ CompletelyBound(part)
        /\ NetsRead(part) \subseteq
              {Wire("reset_n"), vector} \cup PortNets("output_ack", a.outputs)
    BY <2>1, <2>2, JoinedWire
  <2>4. {target, vector} = {target} \cup {vector}
    OBVIOUS
  <2>5. part.signals = {vector}
    BY <2>1 DEF Part
  <2> QED BY <2>3, <2>4, <2>5 DEF OutputAck, target, vector, PortNets
<1> QED BY <1>1, <1>2

-----------------------------------------------------------------------------
(***************************************************************************)
(* Two ports of a kind have two Channels, or the public port of a Channel  *)
(* would be bound for both.                                                *)
(***************************************************************************)
DistinctChannels(ports) ==
    \A i, k \in DOMAIN ports : ChannelOfPort(ports, i) = ChannelOfPort(ports, k) => i = k

\* When every public port is bound once, ports of a kind have distinct Channels.
LEMMA BoundOnceDistinct ==
    ASSUME NEW a, PortsBoundOnce(BindAsyncTemplates(a))
    PROVE  DistinctChannels(a.inputs) /\ DistinctChannels(a.outputs)
<1> DEFINE ack(i, c)  == PublicPort(<<"input", i>>, Net("receive_acknowledge", c), "output")
           sack(j, c) == PublicPort(<<"output", j>>, Net("send_acknowledge", c), "input")
<1>1. \A i \in DOMAIN a.inputs :
         ack(i, ChannelOfPort(a.inputs, i)) \in BindAsyncTemplates(a).ports
  <2> TAKE i \in DOMAIN a.inputs
  <2>1. ack(i, ChannelOfPort(a.inputs, i)) \in BindInput(a, i).ports
    BY DEF BindInput, Part, ReceivePorts, ChannelOfPort
  <2>2. BindInput(a, i) \in PartsOf(a)
    BY DEF PartsOf
  <2> QED BY <2>1, <2>2 DEF BindAsyncTemplates, Module, Part
<1>2. \A j \in DOMAIN a.outputs :
         sack(j, ChannelOfPort(a.outputs, j)) \in BindAsyncTemplates(a).ports
  <2> TAKE j \in DOMAIN a.outputs
  <2>1. sack(j, ChannelOfPort(a.outputs, j)) \in BindOutput(a, j).ports
    BY DEF BindOutput, Part, SendPorts, ChannelOfPort
  <2>2. BindOutput(a, j) \in PartsOf(a)
    BY DEF PartsOf
  <2> QED BY <2>1, <2>2 DEF BindAsyncTemplates, Module, Part
<1>3. \A i, k, c, e : /\ ack(i, c).net = ack(k, c).net /\ (ack(i, c) = ack(k, e) => i = k)
                      /\ sack(i, c).net = sack(k, c).net /\ (sack(i, c) = sack(k, e) => i = k)
  BY DEF PublicPort
<1> HIDE DEF ack, sack
<1>4. ASSUME NEW i \in DOMAIN a.inputs, NEW k \in DOMAIN a.inputs,
             ChannelOfPort(a.inputs, i) = ChannelOfPort(a.inputs, k)
      PROVE  i = k
  <2>1. ack(i, ChannelOfPort(a.inputs, i)) = ack(k, ChannelOfPort(a.inputs, k))
    BY <1>1, <1>3, <1>4 DEF PortsBoundOnce
  <2> QED BY <1>3, <1>4, <2>1
<1>5. ASSUME NEW j \in DOMAIN a.outputs, NEW k \in DOMAIN a.outputs,
             ChannelOfPort(a.outputs, j) = ChannelOfPort(a.outputs, k)
      PROVE  j = k
  <2>1. sack(j, ChannelOfPort(a.outputs, j)) = sack(k, ChannelOfPort(a.outputs, k))
    BY <1>2, <1>3, <1>5 DEF PortsBoundOnce
  <2> QED BY <1>3, <1>5, <2>1
<1> QED BY <1>4, <1>5 DEF DistinctChannels

-----------------------------------------------------------------------------
(***************************************************************************)
(* The part that drives a net.  The acknowledge of an enable channel is    *)
(* driven by the stage that uses it.                                       *)
(***************************************************************************)
PortOf(ports, c) == CHOOSE i \in DOMAIN ports : ChannelOfPort(ports, i) = c
StageOf(a, k)    == CHOOSE s \in a.enReceives \cup a.enSends : s.channel = k

HomeOf(a, role, who) ==
    CASE role \in {"reset_n", "base_Lack", "base_raw_Rreq", "storage_enable"} -> BindController
      [] role \in {"base_Lreq", "input_request_vector"} -> BindInputRequest(a)
      [] role \in {"input_body_ack", "input_ack_vector"} -> BindInputAck(a)
      [] role \in {"output_raw_req", "output_raw_request_vector"} -> BindOutputRequest(a)
      [] role \in {"base_Rack", "output_ack_vector"} -> BindOutputAck(a)
      [] role \in {"receive_request", "receive_payload", "receive_acknowledge"} ->
             BindInput(a, PortOf(a.inputs, who))
      [] role \in {"input_body_req", "receive_value", "input_body_raw_req", "en_receive_data_in",
                   "en_receive_enable"} -> BindInput(a, who)
      [] role \in {"send_request", "send_payload", "send_acknowledge"} ->
             BindOutput(a, PortOf(a.outputs, who))
      [] role \in {"output_ack", "external_raw_req", "en_send_data_in", "en_send_enable"} ->
             BindOutput(a, who)
      [] role \in {"storage_data_in", "storage_data_out"} -> BindStorage(a, who)
      [] role = "output_req" -> BindOutputDelay(who)
      [] role \in {"enable_value", "enable_req", "enable_data", "pre_input_launch"} ->
             BindEnableChannel(StageOf(a, who))
      [] role = "enable_ack" ->
             IF StageOf(a, who) \in a.enReceives THEN BindInput(a, StageOf(a, who).port)
             ELSE BindOutput(a, StageOf(a, who).port)

Home(a, net) == HomeOf(a, net[1], net[2])

\* A part with all formals bound that drives a net at most once, and only nets
\* whose home it is.
Settled(a, part) ==
    /\ CompletelyBound(part)
    /\ \A net : \A d, e \in DriversOf(part, net) : d = e
    /\ \A net : DriversOf(part, net) # {} => Home(a, net) = part

\* A part is settled when it drives a known set of nets and is the home of each.
LEMMA SettledBy ==
    ASSUME NEW a, NEW part, NEW nets, CompletelyBound(part), Drives(part, nets),
           \A net \in nets : Home(a, net) = part
    PROVE  Settled(a, part)
BY DEF Settled, Drives

\* The controller, the joins and the fanouts are settled, ...
LEMMA SettledControl ==
    ASSUME NEW a, Architecture(a)
    PROVE  /\ Settled(a, BindController)
           /\ Settled(a, BindInputRequest(a)) /\ Settled(a, BindInputAck(a))
           /\ Settled(a, BindOutputRequest(a)) /\ Settled(a, BindOutputAck(a))
<1>1. Settled(a, BindController)
  <2>1. \A net \in {Wire("reset_n"), Wire("base_Lack"), Wire("base_raw_Rreq"),
                    Wire("storage_enable")} : Home(a, net) = BindController
    BY DEF Home, HomeOf, Wire, Net
  <2> QED BY <2>1, Controller, SettledBy
<1>2. Settled(a, BindInputRequest(a))
  <2> DEFINE part == BindInputRequest(a)
  <2>1. PICK vectors \in {{}, {Wire("input_request_vector")}} :
           CompletelyBound(part) /\ Drives(part, {Wire("base_Lreq")} \cup vectors)
    BY InputRequestPart
  <2>2. \A net \in {Wire("base_Lreq")} \cup vectors : Home(a, net) = part
    BY DEF Home, HomeOf, Wire, Net
  <2> QED BY <2>1, <2>2, SettledBy
<1>3. Settled(a, BindInputAck(a))
  <2> DEFINE part == BindInputAck(a)
             acks == {InputAck(i) : i \in DOMAIN a.inputs}
  <2>1. PICK vectors \in {{}, {Wire("input_ack_vector")}} :
           CompletelyBound(part) /\ Drives(part, vectors \cup acks)
    BY InputAckPart
  <2>2. \A net \in vectors \cup acks : Home(a, net) = part
    BY DEF Home, HomeOf, Wire, InputAck, Net
  <2> QED BY <2>1, <2>2, SettledBy
<1>4. Settled(a, BindOutputRequest(a))
  <2> DEFINE part == BindOutputRequest(a)
             requests == {OutputRawReq(j) : j \in DOMAIN a.outputs}
  <2>1. PICK vectors \in {{}, {Wire("output_raw_request_vector")}} :
           CompletelyBound(part) /\ Drives(part, vectors \cup requests)
    BY OutputRequestPart
  <2>2. \A net \in vectors \cup requests : Home(a, net) = part
    BY DEF Home, HomeOf, Wire, OutputRawReq, Net
  <2> QED BY <2>1, <2>2, SettledBy
<1>5. Settled(a, BindOutputAck(a))
  <2> DEFINE part == BindOutputAck(a)
  <2>1. PICK vectors \in {{}, {Wire("output_ack_vector")}} :
           CompletelyBound(part) /\ Drives(part, {Wire("base_Rack")} \cup vectors)
    BY OutputAckPart
  <2>2. \A net \in {Wire("base_Rack")} \cup vectors : Home(a, net) = part
    BY DEF Home, HomeOf, Wire, Net
  <2> QED BY <2>1, <2>2, SettledBy
<1> QED BY <1>1, <1>2, <1>3, <1>4, <1>5

\* ... so is every input, whose Channel no other input has, ...
LEMMA SettledInput ==
    ASSUME NEW a, Architecture(a), DistinctChannels(a.inputs), NEW i \in DOMAIN a.inputs
    PROVE  Settled(a, BindInput(a, i))
<1> DEFINE c == ChannelOfPort(a.inputs, i)
           part == BindInput(a, i)
<1>1. PortOf(a.inputs, c) = i
  BY DEF PortOf, DistinctChannels
<1>2. \A net \in ReceiveNets(i, c) : Home(a, net) = part
  BY <1>1 DEF ReceiveNets, Home, HomeOf, InputReq, InputValue, Net
<1>3. ASSUME NEW s \in a.enReceives, s.port = i
      PROVE  \A net \in EnReceiveNets(i, s.channel) : Home(a, net) = part
  <2>1. StageOf(a, s.channel) = s
    BY DEF StageOf, Architecture
  <2>2. Home(a, EnableAck(s.channel)) = part
    BY <1>3, <2>1 DEF Home, HomeOf, EnableAck, Net
  <2>3. /\ Home(a, Net("input_body_raw_req", i)) = part
        /\ Home(a, Net("en_receive_data_in", i)) = part
        /\ Home(a, Net("en_receive_enable", i)) = part
    BY DEF Home, HomeOf, Net
  <2> QED BY <2>2, <2>3 DEF EnReceiveNets
<1> HIDE DEF part
<1>4. PICK nets : Drives(part, nets) /\ \A net \in nets : Home(a, net) = part
  <2>1. CASE Drives(part, ReceiveNets(i, c))
    BY <1>2, <2>1
  <2>2. ASSUME NEW s \in a.enReceives, s.port = i,
               Drives(part, ReceiveNets(i, c) \cup EnReceiveNets(i, s.channel))
        PROVE  \E nets : Drives(part, nets) /\ \A net \in nets : Home(a, net) = part
    BY <1>2, <1>3, <2>2
  <2>3. \/ Drives(part, ReceiveNets(i, c))
        \/ \E s \in a.enReceives :
              s.port = i /\ Drives(part, ReceiveNets(i, c) \cup EnReceiveNets(i, s.channel))
    BY InputPart DEF part
  <2> QED BY <2>1, <2>2, <2>3
<1>5. CompletelyBound(part)
  BY InputPart DEF part
<1>6. Settled(a, part)
  BY <1>4, <1>5, SettledBy
<1> QED BY <1>6 DEF part

\* ... every output with its slot and its delay, ...
LEMMA SettledOutput ==
    ASSUME NEW a, Architecture(a), DistinctChannels(a.outputs), NEW j \in DOMAIN a.outputs
    PROVE  /\ Settled(a, BindOutput(a, j))
           /\ Settled(a, BindStorage(a, j)) /\ Settled(a, BindOutputDelay(j))
<1> DEFINE c == ChannelOfPort(a.outputs, j)
           part == BindOutput(a, j)
<1>1. PortOf(a.outputs, c) = j
  BY DEF PortOf, DistinctChannels
<1>2. \A net \in SendNets(j, c) : Home(a, net) = part
  BY <1>1 DEF SendNets, Home, HomeOf, OutputAck, Net
<1>3. ASSUME NEW s \in a.enSends, s.port = j
      PROVE  \A net \in EnSendNets(j, s.channel) : Home(a, net) = part
  <2>1. StageOf(a, s.channel) = s /\ s \notin a.enReceives
    BY DEF StageOf, Architecture
  <2>2. Home(a, EnableAck(s.channel)) = part
    BY <1>3, <2>1 DEF Home, HomeOf, EnableAck, Net
  <2>3. /\ Home(a, Net("external_raw_req", j)) = part
        /\ Home(a, Net("en_send_data_in", j)) = part
        /\ Home(a, Net("en_send_enable", j)) = part
    BY DEF Home, HomeOf, Net
  <2> QED BY <2>2, <2>3 DEF EnSendNets
<1> HIDE DEF part
<1>4. PICK nets : Drives(part, nets) /\ \A net \in nets : Home(a, net) = part
  <2>1. CASE Drives(part, SendNets(j, c))
    BY <1>2, <2>1
  <2>2. ASSUME NEW s \in a.enSends, s.port = j,
               Drives(part, SendNets(j, c) \cup EnSendNets(j, s.channel))
        PROVE  \E nets : Drives(part, nets) /\ \A net \in nets : Home(a, net) = part
    BY <1>2, <1>3, <2>2
  <2>3. \/ Drives(part, SendNets(j, c))
        \/ \E s \in a.enSends :
              s.port = j /\ Drives(part, SendNets(j, c) \cup EnSendNets(j, s.channel))
    BY OutputPart DEF part
  <2> QED BY <2>1, <2>2, <2>3
<1>5. CompletelyBound(part)
  BY OutputPart DEF part
<1>6. Settled(a, part)
  BY <1>4, <1>5, SettledBy
<1>7. Settled(a, BindStorage(a, j))
  <2>1. \A net \in {StorageIn(j), StorageOut(j)} : Home(a, net) = BindStorage(a, j)
    BY DEF Home, HomeOf, StorageIn, StorageOut, Net
  <2>2. Drives(BindStorage(a, j), {StorageIn(j), StorageOut(j)}) /\ CompletelyBound(BindStorage(a, j))
    BY StoredOutput
  <2> QED BY <2>1, <2>2, SettledBy
<1>8. Settled(a, BindOutputDelay(j))
  <2>1. \A net \in {OutputReq(j)} : Home(a, net) = BindOutputDelay(j)
    BY DEF Home, HomeOf, OutputReq, Net
  <2>2. Drives(BindOutputDelay(j), {OutputReq(j)}) /\ CompletelyBound(BindOutputDelay(j))
    BY DelayedOutput
  <2> QED BY <2>1, <2>2, SettledBy
<1> QED BY <1>6, <1>7, <1>8 DEF part

\* ... and every enable channel, which one stage has.
LEMMA SettledEnable ==
    ASSUME NEW a, Architecture(a), NEW s \in a.enReceives \cup a.enSends
    PROVE  Settled(a, BindEnableChannel(s))
<1> DEFINE k == s.channel
<1>1. StageOf(a, k) = s
  BY DEF StageOf, Architecture
<1>2. \A net \in EnableNets(s) \cup {Net("pre_input_launch", k)} :
         Home(a, net) = BindEnableChannel(s)
  BY <1>1 DEF EnableNets, Home, HomeOf, EnableValue, EnableReq, EnableData, Net
<1>3. CASE s.availability = "pre_input"
  <2>1. /\ Drives(BindEnableChannel(s), EnableNets(s) \cup {Net("pre_input_launch", k)})
        /\ CompletelyBound(BindEnableChannel(s))
    BY <1>3, EnabledByEntry
  <2> QED BY <1>2, <2>1, SettledBy
<1>4. CASE s.availability # "pre_input"
  <2>1. \A net \in EnableNets(s) : Home(a, net) = BindEnableChannel(s)
    BY <1>2
  <2>2. Drives(BindEnableChannel(s), EnableNets(s)) /\ CompletelyBound(BindEnableChannel(s))
    BY <1>4, EnabledByGuard
  <2> QED BY <2>1, <2>2, SettledBy
<1> QED BY <1>3, <1>4

-----------------------------------------------------------------------------
(***************************************************************************)
(* What a part reads some part drives.                                     *)
(***************************************************************************)
Driven(a, net) == \E part \in PartsOf(a) : DriversOf(part, net) # {}

\* What a part drives is driven.
LEMMA DrivenByPart ==
    ASSUME NEW a, NEW part \in PartsOf(a), NEW nets, Drives(part, nets), NEW net \in nets
    PROVE  Driven(a, net)
BY DEF Driven, Drives

\* The wires of the BODY are driven, ...
LEMMA DrivenWires ==
    ASSUME NEW a, Architecture(a)
    PROVE  \A net \in {Wire("reset_n"), Wire("base_Lack"), Wire("base_raw_Rreq"),
                       Wire("storage_enable"), Wire("base_Lreq"), Wire("base_Rack")} :
               Driven(a, net)
<1>1. /\ BindController \in PartsOf(a) /\ BindInputRequest(a) \in PartsOf(a)
      /\ BindOutputAck(a) \in PartsOf(a)
  BY DEF PartsOf
<1>2. \A net \in {Wire("reset_n"), Wire("base_Lack"), Wire("base_raw_Rreq"),
                  Wire("storage_enable")} : Driven(a, net)
  BY <1>1, Controller, DrivenByPart
<1>3. Driven(a, Wire("base_Lreq"))
  <2>1. PICK vectors : Drives(BindInputRequest(a), {Wire("base_Lreq")} \cup vectors)
    BY InputRequestPart
  <2> QED BY <1>1, <2>1, DrivenByPart
<1>4. Driven(a, Wire("base_Rack"))
  <2>1. PICK vectors : Drives(BindOutputAck(a), {Wire("base_Rack")} \cup vectors)
    BY OutputAckPart
  <2> QED BY <1>1, <2>1, DrivenByPart
<1> QED BY <1>2, <1>3, <1>4

\* ... so are the nets of every input, ...
LEMMA DrivenInput ==
    ASSUME NEW a, Architecture(a), NEW i \in DOMAIN a.inputs
    PROVE  \A net \in ReceiveNets(i, ChannelOfPort(a.inputs, i)) \cup {InputAck(i)} :
               Driven(a, net)
<1> DEFINE nets == ReceiveNets(i, ChannelOfPort(a.inputs, i))
           acks == {InputAck(k) : k \in DOMAIN a.inputs}
<1>1. BindInput(a, i) \in PartsOf(a) /\ BindInputAck(a) \in PartsOf(a)
  BY DEF PartsOf
<1>2. PICK others : Drives(BindInput(a, i), nets \cup others)
  <2>1. CASE Drives(BindInput(a, i), nets)
    <3>1. nets \cup {} = nets
      OBVIOUS
    <3> QED BY <2>1, <3>1
  <2>2. Drives(BindInput(a, i), nets) \/ \E others : Drives(BindInput(a, i), nets \cup others)
    BY InputPart
  <2> QED BY <2>1, <2>2
<1>3. PICK vectors : Drives(BindInputAck(a), vectors \cup acks)
  BY InputAckPart
<1>4. Driven(a, InputAck(i))
  BY <1>1, <1>3, DrivenByPart
<1>5. \A net \in nets : Driven(a, net)
  BY <1>1, <1>2, DrivenByPart
<1> QED BY <1>4, <1>5

\* ... of every output, ...
LEMMA DrivenOutput ==
    ASSUME NEW a, Architecture(a), NEW j \in DOMAIN a.outputs
    PROVE  \A net \in SendNets(j, ChannelOfPort(a.outputs, j)) \cup
                      {StorageIn(j), StorageOut(j), OutputReq(j), OutputRawReq(j)} :
               Driven(a, net)
<1> DEFINE nets == SendNets(j, ChannelOfPort(a.outputs, j))
           requests == {OutputRawReq(k) : k \in DOMAIN a.outputs}
<1>1. /\ BindOutput(a, j) \in PartsOf(a) /\ BindStorage(a, j) \in PartsOf(a)
      /\ BindOutputDelay(j) \in PartsOf(a) /\ BindOutputRequest(a) \in PartsOf(a)
  BY DEF PartsOf, Architecture
<1>2. PICK others : Drives(BindOutput(a, j), nets \cup others)
  <2>1. CASE Drives(BindOutput(a, j), nets)
    <3>1. nets \cup {} = nets
      OBVIOUS
    <3> QED BY <2>1, <3>1
  <2>2. Drives(BindOutput(a, j), nets) \/ \E others : Drives(BindOutput(a, j), nets \cup others)
    BY OutputPart
  <2> QED BY <2>1, <2>2
<1>3. PICK vectors : Drives(BindOutputRequest(a), vectors \cup requests)
  BY OutputRequestPart
<1>4. Driven(a, OutputRawReq(j))
  BY <1>1, <1>3, DrivenByPart
<1>5. \A net \in nets : Driven(a, net)
  BY <1>1, <1>2, DrivenByPart
<1>6. Driven(a, StorageIn(j)) /\ Driven(a, StorageOut(j))
  <2>1. Drives(BindStorage(a, j), {StorageIn(j), StorageOut(j)})
    BY StoredOutput
  <2> QED BY <1>1, <2>1, DrivenByPart
<1>7. Driven(a, OutputReq(j))
  <2>1. Drives(BindOutputDelay(j), {OutputReq(j)})
    BY DelayedOutput
  <2> QED BY <1>1, <2>1, DrivenByPart
<1> QED BY <1>4, <1>5, <1>6, <1>7

\* ... and of every enable channel; its acknowledge by the stage that has it.
LEMMA DrivenEnable ==
    ASSUME NEW a, Architecture(a), NEW s \in a.enReceives \cup a.enSends
    PROVE  \A net \in EnableNets(s) \cup {EnableAck(s.channel)} : Driven(a, net)
<1>1. \A net \in EnableNets(s) : Driven(a, net)
  <2>1. BindEnableChannel(s) \in PartsOf(a)
    BY DEF PartsOf
  <2>2. CASE s.availability = "pre_input"
    <3>1. Drives(BindEnableChannel(s), EnableNets(s) \cup {Net("pre_input_launch", s.channel)})
      BY <2>2, EnabledByEntry
    <3> QED BY <2>1, <3>1, DrivenByPart
  <2>3. CASE s.availability # "pre_input"
    <3>1. Drives(BindEnableChannel(s), EnableNets(s))
      BY <2>3, EnabledByGuard
    <3> QED BY <2>1, <3>1, DrivenByPart
  <2> QED BY <2>2, <2>3
<1>2. CASE s \in a.enReceives
  <2> DEFINE i == s.port  c == ChannelOfPort(a.inputs, i)
  <2>1. i \in DOMAIN a.inputs /\ BindInput(a, i) \in PartsOf(a)
    BY <1>2 DEF Architecture, PartsOf
  <2>2. StagesOf(a.enReceives, i) # {}
    BY <1>2 DEF StagesOf
  <2>3. PICK t \in a.enReceives :
           t.port = i /\ Drives(BindInput(a, i), ReceiveNets(i, c) \cup EnReceiveNets(i, t.channel))
    BY <2>2, InputPart
  <2>4. t = s
    BY <1>2, <2>3 DEF Architecture
  <2>5. EnableAck(s.channel) \in EnReceiveNets(i, s.channel)
    BY DEF EnReceiveNets
  <2> QED BY <1>1, <2>1, <2>3, <2>4, <2>5, DrivenByPart
<1>3. CASE s \in a.enSends
  <2> DEFINE j == s.port  c == ChannelOfPort(a.outputs, j)
  <2>1. j \in DOMAIN a.outputs /\ BindOutput(a, j) \in PartsOf(a)
    BY <1>3 DEF Architecture, PartsOf
  <2>2. StagesOf(a.enSends, j) # {}
    BY <1>3 DEF StagesOf
  <2>3. PICK t \in a.enSends :
           t.port = j /\ Drives(BindOutput(a, j), SendNets(j, c) \cup EnSendNets(j, t.channel))
    BY <2>2, OutputPart
  <2>4. t = s
    BY <1>3, <2>3 DEF Architecture
  <2>5. EnableAck(s.channel) \in EnSendNets(j, s.channel)
    BY DEF EnSendNets
  <2> QED BY <1>1, <2>1, <2>3, <2>4, <2>5, DrivenByPart
<1> QED BY <1>2, <1>3

\* What a part reads.
ReadsDriven(a, part) == \A net \in NetsRead(part) : Driven(a, net)

\* A part may read what it drives itself and what is driven elsewhere.
LEMMA ReadsDrivenBy ==
    ASSUME NEW a, NEW part \in PartsOf(a), NEW own, Drives(part, own),
           \A net \in NetsRead(part) : net \in own \/ Driven(a, net)
    PROVE  ReadsDriven(a, part)
BY DrivenByPart DEF ReadsDriven

\* What the controller, the joins and the fanouts read is driven, ...
LEMMA ReadsOfControl ==
    ASSUME NEW a, Architecture(a)
    PROVE  /\ ReadsDriven(a, BindController)
           /\ ReadsDriven(a, BindInputRequest(a)) /\ ReadsDriven(a, BindInputAck(a))
           /\ ReadsDriven(a, BindOutputRequest(a)) /\ ReadsDriven(a, BindOutputAck(a))
<1> DEFINE requests == {InputReq(i) : i \in DOMAIN a.inputs}
           acks == {OutputAck(j) : j \in DOMAIN a.outputs}
<1>1. /\ BindController \in PartsOf(a)
      /\ BindInputRequest(a) \in PartsOf(a) /\ BindInputAck(a) \in PartsOf(a)
      /\ BindOutputRequest(a) \in PartsOf(a) /\ BindOutputAck(a) \in PartsOf(a)
  BY DEF PartsOf
<1>2. ReadsDriven(a, BindController)
  <2>1. NetsRead(BindController) \subseteq {Wire("reset_n"), Wire("base_Lreq"), Wire("base_Rack")}
    BY Controller
  <2> QED BY <2>1, DrivenWires DEF ReadsDriven
<1>3. ReadsDriven(a, BindInputRequest(a))
  <2>1. PICK vectors : /\ Drives(BindInputRequest(a), {Wire("base_Lreq")} \cup vectors)
                       /\ NetsRead(BindInputRequest(a)) \subseteq
                             {Wire("reset_n")} \cup vectors \cup requests
    BY InputRequestPart
  <2>2. \A net \in {Wire("reset_n")} \cup requests : Driven(a, net)
    BY DrivenWires, DrivenInput DEF ReceiveNets
  <2>3. \A net \in NetsRead(BindInputRequest(a)) :
           net \in {Wire("base_Lreq")} \cup vectors \/ Driven(a, net)
    BY <2>1, <2>2
  <2> QED BY <1>1, <2>1, <2>3, ReadsDrivenBy
<1>4. ReadsDriven(a, BindInputAck(a))
  <2>1. PICK vectors : /\ Drives(BindInputAck(a), vectors \cup {InputAck(i) : i \in DOMAIN a.inputs})
                       /\ NetsRead(BindInputAck(a)) \subseteq {Wire("base_Lack")} \cup vectors
    BY InputAckPart
  <2>2. \A net \in {Wire("base_Lack")} : Driven(a, net)
    BY DrivenWires
  <2>3. \A net \in NetsRead(BindInputAck(a)) :
           net \in vectors \cup {InputAck(i) : i \in DOMAIN a.inputs} \/ Driven(a, net)
    BY <2>1, <2>2
  <2> QED BY <1>1, <2>1, <2>3, ReadsDrivenBy
<1>5. ReadsDriven(a, BindOutputRequest(a))
  <2>1. PICK vectors : /\ Drives(BindOutputRequest(a),
                                 vectors \cup {OutputRawReq(j) : j \in DOMAIN a.outputs})
                       /\ NetsRead(BindOutputRequest(a)) \subseteq {Wire("base_raw_Rreq")} \cup vectors
    BY OutputRequestPart
  <2>2. \A net \in {Wire("base_raw_Rreq")} : Driven(a, net)
    BY DrivenWires
  <2>3. \A net \in NetsRead(BindOutputRequest(a)) :
           net \in vectors \cup {OutputRawReq(j) : j \in DOMAIN a.outputs} \/ Driven(a, net)
    BY <2>1, <2>2
  <2> QED BY <1>1, <2>1, <2>3, ReadsDrivenBy
<1>6. ReadsDriven(a, BindOutputAck(a))
  <2>1. PICK vectors : /\ Drives(BindOutputAck(a), {Wire("base_Rack")} \cup vectors)
                       /\ NetsRead(BindOutputAck(a)) \subseteq
                             {Wire("reset_n")} \cup vectors \cup acks
    BY OutputAckPart
  <2>2. \A net \in {Wire("reset_n")} \cup acks : Driven(a, net)
    BY DrivenWires, DrivenOutput DEF SendNets
  <2>3. \A net \in NetsRead(BindOutputAck(a)) :
           net \in {Wire("base_Rack")} \cup vectors \/ Driven(a, net)
    BY <2>1, <2>2
  <2> QED BY <1>1, <2>1, <2>3, ReadsDrivenBy
<1> QED BY <1>2, <1>3, <1>4, <1>5, <1>6

\* ... so is what an input reads, ...
LEMMA ReadsOfInput ==
    ASSUME NEW a, Architecture(a), NEW i \in DOMAIN a.inputs
    PROVE  ReadsDriven(a, BindInput(a, i))
<1> DEFINE part == BindInput(a, i)
           nets == ReceiveNets(i, ChannelOfPort(a.inputs, i))
<1>1. part \in PartsOf(a)
  BY DEF PartsOf
<1>2. Driven(a, InputAck(i)) /\ \A net \in nets : Driven(a, net)
  BY DrivenInput
<1> HIDE DEF part, nets
<1>3. CASE NetsRead(part) \subseteq nets \cup {InputAck(i)}
  BY <1>2, <1>3 DEF ReadsDriven, part
<1>4. ASSUME NEW s \in a.enReceives,
             Drives(part, nets \cup EnReceiveNets(i, s.channel)),
             NetsRead(part) \subseteq nets \cup EnReceiveNets(i, s.channel) \cup
                                      {EnableReq(s.channel), EnableData(s.channel), InputAck(i)}
      PROVE  ReadsDriven(a, part)
  <2>1. Driven(a, EnableReq(s.channel)) /\ Driven(a, EnableData(s.channel))
    BY DrivenEnable DEF EnableNets
  <2>2. \A net \in {EnableReq(s.channel), EnableData(s.channel), InputAck(i)} : Driven(a, net)
    BY <1>2, <2>1
  <2>3. \A net \in NetsRead(part) : net \in nets \cup EnReceiveNets(i, s.channel) \/ Driven(a, net)
    BY <1>4, <2>2
  <2> QED BY <1>1, <1>4, <2>3, ReadsDrivenBy
<1>5. \/ NetsRead(part) \subseteq nets \cup {InputAck(i)}
      \/ \E s \in a.enReceives :
            /\ Drives(part, nets \cup EnReceiveNets(i, s.channel))
            /\ NetsRead(part) \subseteq nets \cup EnReceiveNets(i, s.channel) \cup
                                        {EnableReq(s.channel), EnableData(s.channel), InputAck(i)}
  BY InputPart DEF part, nets
<1> QED BY <1>3, <1>4, <1>5 DEF part

\* ... an output with its slot and its delay, ...
LEMMA ReadsOfOutput ==
    ASSUME NEW a, Architecture(a), NEW j \in DOMAIN a.outputs
    PROVE  /\ ReadsDriven(a, BindOutput(a, j))
           /\ ReadsDriven(a, BindStorage(a, j)) /\ ReadsDriven(a, BindOutputDelay(j))
<1> DEFINE part == BindOutput(a, j)
           nets == SendNets(j, ChannelOfPort(a.outputs, j))
<1>1. part \in PartsOf(a)
  BY DEF PartsOf
<1>2. /\ Driven(a, StorageIn(j)) /\ Driven(a, StorageOut(j)) /\ Driven(a, OutputReq(j))
      /\ Driven(a, OutputRawReq(j)) /\ \A net \in nets : Driven(a, net)
  BY DrivenOutput
<1> HIDE DEF part, nets
<1>3. ASSUME NetsRead(part) \subseteq nets \cup {OutputReq(j), StorageOut(j)}
      PROVE  ReadsDriven(a, part)
  BY <1>2, <1>3 DEF ReadsDriven
<1>4. ASSUME NEW s \in a.enSends,
             Drives(part, nets \cup EnSendNets(j, s.channel)),
             NetsRead(part) \subseteq nets \cup EnSendNets(j, s.channel) \cup
                {EnableReq(s.channel), EnableData(s.channel), OutputReq(j), StorageOut(j)}
      PROVE  ReadsDriven(a, part)
  <2>1. Driven(a, EnableReq(s.channel)) /\ Driven(a, EnableData(s.channel))
    BY DrivenEnable DEF EnableNets
  <2>2. \A net \in {EnableReq(s.channel), EnableData(s.channel), OutputReq(j), StorageOut(j)} :
           Driven(a, net)
    BY <1>2, <2>1
  <2>3. \A net \in NetsRead(part) : net \in nets \cup EnSendNets(j, s.channel) \/ Driven(a, net)
    BY <1>4, <2>2
  <2> QED BY <1>1, <1>4, <2>3, ReadsDrivenBy
<1>5. \/ NetsRead(part) \subseteq nets \cup {OutputReq(j), StorageOut(j)}
      \/ \E s \in a.enSends :
            /\ Drives(part, nets \cup EnSendNets(j, s.channel))
            /\ NetsRead(part) \subseteq nets \cup EnSendNets(j, s.channel) \cup
                  {EnableReq(s.channel), EnableData(s.channel), OutputReq(j), StorageOut(j)}
  BY OutputPart DEF part, nets
<1>6. ReadsDriven(a, BindStorage(a, j))
  <2>1. NetsRead(BindStorage(a, j)) \subseteq {StorageIn(j), Wire("storage_enable")}
    BY StoredOutput
  <2> QED BY <1>2, <2>1, DrivenWires DEF ReadsDriven
<1>7. ReadsDriven(a, BindOutputDelay(j))
  <2>1. NetsRead(BindOutputDelay(j)) \subseteq {OutputRawReq(j)}
    BY DelayedOutput
  <2> QED BY <1>2, <2>1 DEF ReadsDriven
<1> QED BY <1>3, <1>4, <1>5, <1>6, <1>7 DEF part

\* ... and an enable channel.
LEMMA ReadsOfEnable ==
    ASSUME NEW a, Architecture(a), NEW s \in a.enReceives \cup a.enSends
    PROVE  ReadsDriven(a, BindEnableChannel(s))
<1> DEFINE part == BindEnableChannel(s)
           launch == Net("pre_input_launch", s.channel)
<1>1. part \in PartsOf(a)
  BY DEF PartsOf
<1>2. /\ Driven(a, EnableAck(s.channel)) /\ Driven(a, EnableValue(s.channel))
      /\ Driven(a, Wire("storage_enable")) /\ Driven(a, Wire("base_Rack"))
  BY DrivenEnable, DrivenWires DEF EnableNets
<1>3. CASE s.availability = "pre_input"
  <2>1. /\ Drives(part, EnableNets(s) \cup {launch})
        /\ NetsRead(part) \subseteq
              {EnableValue(s.channel), launch, EnableAck(s.channel), Wire("base_Rack")}
    BY <1>3, EnabledByEntry
  <2>2. Driven(a, launch)
    BY <1>1, <2>1, DrivenByPart
  <2> QED BY <1>2, <2>1, <2>2 DEF ReadsDriven
<1>4. CASE s.availability # "pre_input"
  <2>1. NetsRead(part) \subseteq
           {EnableValue(s.channel), Wire("storage_enable"), EnableAck(s.channel)}
    BY <1>4, EnabledByGuard
  <2> QED BY <1>2, <2>1 DEF ReadsDriven
<1> QED BY <1>3, <1>4

-----------------------------------------------------------------------------
\* The bound module of every architecture is closed: all formals are bound and
\* every net that is read has one driver.
THEOREM ArchitectureClosed ==
    ASSUME NEW a, Architecture(a), PortsBoundOnce(BindAsyncTemplates(a))
    PROVE  Closed(BindAsyncTemplates(a))
<1> DEFINE parts == PartsOf(a)
<1>1. DistinctChannels(a.inputs) /\ DistinctChannels(a.outputs)
  BY BoundOnceDistinct
<1>2. ASSUME NEW part \in parts
      PROVE  Settled(a, part) /\ ReadsDriven(a, part)
  <2>1. CASE part \in {BindController, BindInputRequest(a), BindInputAck(a),
                       BindOutputRequest(a), BindOutputAck(a)}
    BY <2>1, SettledControl, ReadsOfControl
  <2>2. CASE \E i \in DOMAIN a.inputs : part = BindInput(a, i)
    BY <1>1, <2>2, SettledInput, ReadsOfInput
  <2>3. CASE \E j \in DOMAIN a.outputs :
                part = BindOutput(a, j) \/ part = BindStorage(a, j) \/ part = BindOutputDelay(j)
    BY <1>1, <2>3, SettledOutput, ReadsOfOutput
  <2>4. CASE \E s \in a.enReceives \cup a.enSends : part = BindEnableChannel(s)
    BY <2>4, SettledEnable, ReadsOfEnable
  <2> QED BY <2>1, <2>2, <2>3, <2>4 DEF PartsOf, Architecture
<1> HIDE DEF parts
<1>3. CompletelyBound(Module(parts))
  BY <1>2, CompletelyBoundModule DEF Settled
<1>4. ASSUME NEW net \in NetsRead(Module(parts))
      PROVE  Cardinality(DriversOf(Module(parts), net)) = 1
  <2>1. PICK reader \in parts : net \in NetsRead(reader)
    BY NetsReadOfModule
  <2>2. PICK home \in parts : DriversOf(home, net) # {}
    BY <1>2, <2>1 DEF ReadsDriven, Driven, parts
  <2>3. PICK d : d \in DriversOf(home, net)
    BY <2>2
  <2>4. DriversOf(Module(parts), net) = UNION {DriversOf(p, net) : p \in parts}
    BY DriversOfModule
  <2>5. ASSUME NEW p \in parts, NEW e \in DriversOf(p, net)
        PROVE  e = d
    <3>1. Home(a, net) = p /\ Home(a, net) = home
      BY <1>2, <2>2, <2>5 DEF Settled
    <3> QED BY <1>2, <2>3, <2>5, <3>1 DEF Settled
  <2>6. DriversOf(Module(parts), net) = {d}
    BY <2>3, <2>4, <2>5
  <2> QED BY <2>6, FS_Singleton
<1> QED BY <1>3, <1>4 DEF Closed, BindAsyncTemplates, parts

\* What M6 and M7 make of a decomposition with Receives and Sends is closed,
\* however many ports it has and whichever are conditional, when M7 accepts
\* its public ports.
THEOREM BoundModuleClosed ==
    ASSUME NEW Port, NEW x, NEW d, d.receives \in Seq(Port), d.receives # <<>>,
           d.sends \in Seq(Port), d.sends # <<>>,
           PortsBoundOnce(BindAsyncTemplates(LowerMicroarchitecture(x, d)))
    PROVE  Closed(BindAsyncTemplates(LowerMicroarchitecture(x, d)))
BY LoweredArchitecture, ArchitectureClosed

-----------------------------------------------------------------------------
(***************************************************************************)
(* What the emitter checks.  Every net in use is in the table of signals:  *)
(* it is driven or read, so some part drives it, and what a part drives is *)
(* in the table of that part or, for the acknowledge of an enable channel, *)
(* in that of the channel.                                                 *)
(***************************************************************************)
SignalsOf(a) == UNION {p.signals : p \in PartsOf(a)}

\* Nets that the controller, a join or a fanout drives are in the table, ...
LEMMA ControlInSignals ==
    ASSUME NEW a, Architecture(a), NEW net,
           NEW part \in {BindController, BindInputRequest(a), BindInputAck(a),
                         BindOutputRequest(a), BindOutputAck(a)}, DriversOf(part, net) # {}
    PROVE  net \in SignalsOf(a)
<1>1. /\ BindController \in PartsOf(a)
      /\ BindInputRequest(a) \in PartsOf(a) /\ BindInputAck(a) \in PartsOf(a)
      /\ BindOutputRequest(a) \in PartsOf(a) /\ BindOutputAck(a) \in PartsOf(a)
      /\ \A i \in DOMAIN a.inputs : BindInput(a, i) \in PartsOf(a)
      /\ \A j \in DOMAIN a.outputs : BindOutput(a, j) \in PartsOf(a)
  BY DEF PartsOf
<1>2. \A w \in {"reset_n", "base_Lreq", "base_Rack", "base_Lack", "base_raw_Rreq",
                "storage_enable"} : Wire(w) \in SignalsOf(a)
  <2>1. \A w \in {"reset_n", "base_Lreq", "base_Rack", "base_Lack", "base_raw_Rreq",
                  "storage_enable"} : Wire(w) \in BindController.signals
    BY DEF BindController, Part
  <2> QED BY <1>1, <2>1 DEF SignalsOf
<1>3. CASE part = BindController
  <2>1. Drives(part, {Wire("reset_n"), Wire("base_Lack"), Wire("base_raw_Rreq"),
                      Wire("storage_enable")})
    BY <1>3, Controller
  <2> QED BY <1>2, <2>1 DEF Drives
<1>4. CASE part = BindInputRequest(a)
  <2>1. PICK vectors : /\ vectors \subseteq part.signals
                       /\ Drives(part, {Wire("base_Lreq")} \cup vectors)
    BY <1>4, InputRequestPart
  <2>2. vectors \subseteq SignalsOf(a)
    BY <1>1, <1>4, <2>1 DEF SignalsOf
  <2> QED BY <1>2, <2>1, <2>2 DEF Drives
<1>5. CASE part = BindInputAck(a)
  <2> DEFINE acks == {InputAck(i) : i \in DOMAIN a.inputs}
  <2>1. PICK vectors : vectors \subseteq part.signals /\ Drives(part, vectors \cup acks)
    BY <1>5, InputAckPart
  <2>2. vectors \subseteq SignalsOf(a)
    BY <1>1, <1>5, <2>1 DEF SignalsOf
  <2>3. \A i \in DOMAIN a.inputs : InputAck(i) \in BindInput(a, i).signals
    BY InputPart
  <2>4. acks \subseteq SignalsOf(a)
    BY <1>1, <2>3 DEF SignalsOf
  <2> QED BY <2>1, <2>2, <2>4 DEF Drives
<1>6. CASE part = BindOutputRequest(a)
  <2> DEFINE requests == {OutputRawReq(j) : j \in DOMAIN a.outputs}
  <2>1. PICK vectors : vectors \subseteq part.signals /\ Drives(part, vectors \cup requests)
    BY <1>6, OutputRequestPart
  <2>2. vectors \subseteq SignalsOf(a)
    BY <1>1, <1>6, <2>1 DEF SignalsOf
  <2>3. \A j \in DOMAIN a.outputs : OutputRawReq(j) \in BindOutput(a, j).signals
    BY OutputPart
  <2>4. requests \subseteq SignalsOf(a)
    BY <1>1, <2>3 DEF SignalsOf
  <2> QED BY <2>1, <2>2, <2>4 DEF Drives
<1>7. CASE part = BindOutputAck(a)
  <2>1. PICK vectors : /\ vectors \subseteq part.signals
                       /\ Drives(part, {Wire("base_Rack")} \cup vectors)
    BY <1>7, OutputAckPart
  <2>2. vectors \subseteq SignalsOf(a)
    BY <1>1, <1>7, <2>1 DEF SignalsOf
  <2> QED BY <1>2, <2>1, <2>2 DEF Drives
<1> QED BY <1>3, <1>4, <1>5, <1>6, <1>7

\* ... so are those of an enable channel, ...
LEMMA EnableInSignals ==
    ASSUME NEW a, NEW s \in a.enReceives \cup a.enSends
    PROVE  /\ EnableNets(s) \cup {EnableAck(s.channel)} \subseteq SignalsOf(a)
           /\ \A net : DriversOf(BindEnableChannel(s), net) # {} => net \in SignalsOf(a)
<1> DEFINE part == BindEnableChannel(s)
<1>1. part \in PartsOf(a)
  BY DEF PartsOf
<1>2. EnableNets(s) \cup {EnableAck(s.channel), Launch(s)} \subseteq part.signals
  BY DEF BindEnableChannel, EnableNets, Part
<1>3. EnableNets(s) \cup {EnableAck(s.channel), Launch(s)} \subseteq SignalsOf(a)
  BY <1>1, <1>2 DEF SignalsOf
<1>4. CASE s.availability = "pre_input"
  <2>1. Drives(part, EnableNets(s) \cup {Launch(s)})
    BY <1>4, EnabledByEntry DEF Launch
  <2> QED BY <1>3, <2>1 DEF Drives
<1>5. CASE s.availability # "pre_input"
  <2>1. Drives(part, EnableNets(s))
    BY <1>5, EnabledByGuard
  <2> QED BY <1>3, <2>1 DEF Drives
<1> QED BY <1>4, <1>5

\* ... of an input, ...
LEMMA InputInSignals ==
    ASSUME NEW a, NEW i \in DOMAIN a.inputs, NEW net, DriversOf(BindInput(a, i), net) # {}
    PROVE  net \in SignalsOf(a)
<1> DEFINE part == BindInput(a, i)
           nets == ReceiveNets(i, ChannelOfPort(a.inputs, i))
<1>1. part \in PartsOf(a)
  BY DEF PartsOf
<1>2. part.signals \subseteq SignalsOf(a)
  BY <1>1 DEF SignalsOf
<1>3. nets \subseteq SignalsOf(a)
  <2>1. nets \subseteq part.signals
    BY InputPart
  <2> QED BY <1>2, <2>1
<1>4. CASE Drives(part, nets)
  BY <1>3, <1>4 DEF Drives
<1>5. ASSUME NEW s \in a.enReceives,
             EnReceiveNets(i, s.channel) \subseteq {EnableAck(s.channel)} \cup part.signals,
             Drives(part, nets \cup EnReceiveNets(i, s.channel))
      PROVE  net \in SignalsOf(a)
  <2>1. EnableAck(s.channel) \in SignalsOf(a)
    BY EnableInSignals
  <2>2. net \in nets \cup EnReceiveNets(i, s.channel)
    BY <1>5 DEF Drives
  <2> QED BY <1>2, <1>3, <1>5, <2>1, <2>2
<1>6. \/ Drives(part, nets)
      \/ \E s \in a.enReceives :
            /\ EnReceiveNets(i, s.channel) \subseteq {EnableAck(s.channel)} \cup part.signals
            /\ Drives(part, nets \cup EnReceiveNets(i, s.channel))
  BY InputPart
<1> QED BY <1>4, <1>5, <1>6

\* ... and of an output.
LEMMA OutputInSignals ==
    ASSUME NEW a, Architecture(a), NEW j \in DOMAIN a.outputs, NEW net,
           NEW part \in {BindOutput(a, j), BindStorage(a, j), BindOutputDelay(j)},
           DriversOf(part, net) # {}
    PROVE  net \in SignalsOf(a)
<1> DEFINE output == BindOutput(a, j)
           nets == SendNets(j, ChannelOfPort(a.outputs, j))
<1>1. output \in PartsOf(a) /\ BindStorage(a, j) \in PartsOf(a)
  BY DEF PartsOf
<1>2. output.signals \subseteq SignalsOf(a) /\ BindStorage(a, j).signals \subseteq SignalsOf(a)
  BY <1>1 DEF SignalsOf
<1>3. nets \cup {OutputReq(j)} \subseteq SignalsOf(a)
  <2>1. nets \cup {OutputReq(j)} \subseteq output.signals
    BY OutputPart
  <2> QED BY <1>2, <2>1
<1>4. ASSUME Drives(output, nets), part = output
      PROVE  net \in SignalsOf(a)
  BY <1>3, <1>4 DEF Drives
<1>5. ASSUME NEW s \in a.enSends, part = output,
             EnSendNets(j, s.channel) \subseteq {EnableAck(s.channel)} \cup output.signals,
             Drives(output, nets \cup EnSendNets(j, s.channel))
      PROVE  net \in SignalsOf(a)
  <2>1. EnableAck(s.channel) \in SignalsOf(a)
    BY EnableInSignals
  <2>2. net \in nets \cup EnSendNets(j, s.channel)
    BY <1>5 DEF Drives
  <2> QED BY <1>2, <1>3, <1>5, <2>1, <2>2
<1>6. \/ Drives(output, nets)
      \/ \E s \in a.enSends :
            /\ EnSendNets(j, s.channel) \subseteq {EnableAck(s.channel)} \cup output.signals
            /\ Drives(output, nets \cup EnSendNets(j, s.channel))
  BY OutputPart
<1>7. CASE part = BindStorage(a, j)
  <2>1. Drives(part, {StorageIn(j), StorageOut(j)})
    BY <1>7, StoredOutput
  <2>2. {StorageIn(j), StorageOut(j)} \subseteq SignalsOf(a)
    BY <1>2 DEF BindStorage, Part
  <2> QED BY <2>1, <2>2 DEF Drives
<1>8. CASE part = BindOutputDelay(j)
  <2>1. Drives(part, {OutputReq(j)})
    BY <1>8, DelayedOutput
  <2> QED BY <1>3, <2>1 DEF Drives
<1> QED BY <1>4, <1>5, <1>6, <1>7, <1>8

\* The parts one by one.
LEMMA PartCases ==
    ASSUME NEW a, Architecture(a), NEW part \in PartsOf(a)
    PROVE  \/ part \in {BindController, BindInputRequest(a), BindInputAck(a),
                        BindOutputRequest(a), BindOutputAck(a)}
           \/ \E i \in DOMAIN a.inputs : part = BindInput(a, i)
           \/ \E j \in DOMAIN a.outputs :
                 part \in {BindOutput(a, j), BindStorage(a, j), BindOutputDelay(j)}
           \/ \E s \in a.enReceives \cup a.enSends : part = BindEnableChannel(s)
BY DEF PartsOf, Architecture

\* Every driven net is in the table of signals.
LEMMA DrivenInSignals ==
    ASSUME NEW a, Architecture(a), NEW net, Driven(a, net)
    PROVE  net \in SignalsOf(a)
<1>1. PICK part \in PartsOf(a) : DriversOf(part, net) # {}
  BY DEF Driven
<1> QED BY <1>1, PartCases, ControlInSignals, InputInSignals, OutputInSignals, EnableInSignals

-----------------------------------------------------------------------------
(***************************************************************************)
(* No two instances have one name: the name says which part an instance    *)
(* belongs to, and the instances of a part have names of their own.        *)
(***************************************************************************)
OwnerOf(a, kind, k) ==
    CASE kind = "en_receive" -> BindInput(a, k)
      [] kind = "en_send"    -> BindOutput(a, k)
      [] kind = "storage"    -> BindStorage(a, k)
      [] kind = "output"     -> BindOutputDelay(k)

Owner(a, template, of) ==
    CASE template = "four_phase_half_buffer_controller" -> BindController
      [] template = "four_phase_request_join"   -> BindInputRequest(a)
      [] template = "four_phase_ack_fanout"     -> BindInputAck(a)
      [] template = "four_phase_request_fanout" -> BindOutputRequest(a)
      [] template = "four_phase_ack_join"       -> BindOutputAck(a)
      [] template = "four_phase_enable_sender"  -> BindEnableChannel(StageOf(a, of))
      [] template = "en_receive_controller"     -> BindInput(a, of)
      [] template = "en_send_controller"        -> BindOutput(a, of)
      [] template \in {"bundled_data_latch_bank", "bundled_data_matched_delay"} ->
             OwnerOf(a, of[1], of[2])

Named(a, part) ==
    /\ \A x, y \in part.instances : x.id = y.id => x = y
    /\ \A x \in part.instances : Owner(a, x.id[1], x.id[2]) = part

\* A part with one instance, and with none.
LEMMA NamedOne ==
    ASSUME NEW a, NEW ports, NEW signals, NEW assignments, NEW template, NEW of, NEW size, NEW binds,
           NEW part, part = Part(ports, signals, {Instance(template, of, size, binds)}, assignments),
           Owner(a, template, of) = part
    PROVE  Named(a, part)
BY DEF Named, Part, Instance

\* A part without instances.
LEMMA NamedNone ==
    ASSUME NEW a, NEW ports, NEW signals, NEW assignments
    PROVE  Named(a, Part(ports, signals, {}, assignments))
BY DEF Named, Part

\* The instances of the controller, the joins and the fanouts have their names, ...
LEMMA NamedControl ==
    ASSUME NEW a
    PROVE  /\ Named(a, BindController)
           /\ Named(a, BindInputRequest(a)) /\ Named(a, BindInputAck(a))
           /\ Named(a, BindOutputRequest(a)) /\ Named(a, BindOutputAck(a))
<1>1. Named(a, BindController)
  BY NamedOne DEF BindController, Owner
<1>2. Named(a, BindInputRequest(a))
  BY NamedOne, NamedNone DEF BindInputRequest, Owner
<1>3. Named(a, BindInputAck(a))
  BY NamedOne, NamedNone DEF BindInputAck, Owner
<1>4. Named(a, BindOutputRequest(a))
  BY NamedOne, NamedNone DEF BindOutputRequest, Owner
<1>5. Named(a, BindOutputAck(a))
  BY NamedOne, NamedNone DEF BindOutputAck, Owner
<1> QED BY <1>1, <1>2, <1>3, <1>4, <1>5

\* ... so has the enable sender of a stage, ...
LEMMA NamedEnable ==
    ASSUME NEW a, Architecture(a), NEW s \in a.enReceives \cup a.enSends
    PROVE  Named(a, BindEnableChannel(s))
<1>1. StageOf(a, s.channel) = s
  BY DEF StageOf, Architecture
<1>2. Owner(a, "four_phase_enable_sender", s.channel) = BindEnableChannel(s)
  BY <1>1 DEF Owner
<1>3. /\ BindEnableChannel(s).instances = {EnableSenderOf(s)}
      /\ EnableSenderOf(s).id[1] = "four_phase_enable_sender"
      /\ EnableSenderOf(s).id[2] = s.channel
  BY DEF BindEnableChannel, EnableSenderOf, Part, Instance
<1> QED BY <1>2, <1>3 DEF Named

\* ... so have the three instances of an EN_RECV stage, ...
LEMMA NamedInput ==
    ASSUME NEW a, NEW i
    PROVE  Named(a, BindInput(a, i))
<1> DEFINE part == BindInput(a, i)
           c == ChannelOfPort(a.inputs, i)
           k == ChannelOf(CHOOSE s \in StagesOf(a.enReceives, i) : TRUE)
           port == a.inputs[i]
           cell == EnReceiveController(i, k, port, c)
           bank == LatchBank(<<"en_receive", i>>, port.width, Net("en_receive_enable", i),
                             Net("en_receive_data_in", i), InputValue(i))
           delay == MatchedDelay(<<"en_receive", i>>, Net("input_body_raw_req", i), InputReq(i))
<1>1. /\ cell.id = <<"en_receive_controller", i>>
      /\ bank.id = <<"bundled_data_latch_bank", <<"en_receive", i>>>>
      /\ delay.id = <<"bundled_data_matched_delay", <<"en_receive", i>>>>
  BY DEF EnReceiveController, LatchBank, MatchedDelay, Instance
<1>2. part.instances \subseteq {cell, bank, delay}
  BY DEF BindInput, EnReceiveStage, ChannelOfPort, Part
<1>3. /\ Owner(a, "en_receive_controller", i) = part
      /\ Owner(a, "bundled_data_latch_bank", <<"en_receive", i>>) = part
      /\ Owner(a, "bundled_data_matched_delay", <<"en_receive", i>>) = part
  BY DEF Owner, OwnerOf
<1> HIDE DEF part, cell, bank, delay
<1>4. Named(a, part)
  <2>1. \A x, y \in {cell, bank, delay} : x.id = y.id => x = y
    BY <1>1
  <2>2. \A x \in {cell, bank, delay} : Owner(a, x.id[1], x.id[2]) = part
    BY <1>1, <1>3
  <2> QED BY <1>2, <2>1, <2>2 DEF Named
<1> QED BY <1>4 DEF part

\* ... those of an EN_SEND stage, the latch bank and the delay of an output.
LEMMA NamedOutput ==
    ASSUME NEW a, NEW j
    PROVE  /\ Named(a, BindOutput(a, j))
           /\ Named(a, BindStorage(a, j)) /\ Named(a, BindOutputDelay(j))
<1> DEFINE part == BindOutput(a, j)
           c == ChannelOfPort(a.outputs, j)
           k == ChannelOf(CHOOSE s \in StagesOf(a.enSends, j) : TRUE)
           port == a.outputs[j]
           cell == EnSendController(j, k, port, c)
           bank == LatchBank(<<"en_send", j>>, port.width, Net("en_send_enable", j),
                             Net("en_send_data_in", j), Net("send_payload", c))
           delay == MatchedDelay(<<"en_send", j>>, Net("external_raw_req", j), Net("send_request", c))
<1>1. /\ cell.id = <<"en_send_controller", j>>
      /\ bank.id = <<"bundled_data_latch_bank", <<"en_send", j>>>>
      /\ delay.id = <<"bundled_data_matched_delay", <<"en_send", j>>>>
  BY DEF EnSendController, LatchBank, MatchedDelay, Instance
<1>2. part.instances \subseteq {cell, bank, delay}
  BY DEF BindOutput, EnSendStage, ChannelOfPort, Part
<1>3. /\ Owner(a, "en_send_controller", j) = part
      /\ Owner(a, "bundled_data_latch_bank", <<"en_send", j>>) = part
      /\ Owner(a, "bundled_data_matched_delay", <<"en_send", j>>) = part
  BY DEF Owner, OwnerOf
<1>4. /\ Owner(a, "bundled_data_latch_bank", <<"storage", j>>) = BindStorage(a, j)
      /\ Owner(a, "bundled_data_matched_delay", <<"output", j>>) = BindOutputDelay(j)
  BY DEF Owner, OwnerOf
<1>5. Named(a, BindStorage(a, j)) /\ Named(a, BindOutputDelay(j))
  BY <1>4, NamedOne DEF BindStorage, BindOutputDelay, LatchBank, MatchedDelay
<1> HIDE DEF part, cell, bank, delay
<1>6. Named(a, part)
  <2>1. \A x, y \in {cell, bank, delay} : x.id = y.id => x = y
    BY <1>1
  <2>2. \A x \in {cell, bank, delay} : Owner(a, x.id[1], x.id[2]) = part
    BY <1>1, <1>3
  <2> QED BY <1>2, <2>1, <2>2 DEF Named
<1> QED BY <1>5, <1>6 DEF part

-----------------------------------------------------------------------------
\* A public port is an input or an output of the module.
LEMMA Directions ==
    ASSUME NEW a, Architecture(a), NEW part \in PartsOf(a), NEW p \in part.ports
    PROVE  p.direction \in {"input", "output"}
<1>1. CASE part \in {BindController, BindInputRequest(a), BindInputAck(a), BindOutputRequest(a),
                     BindOutputAck(a)}
  BY <1>1 DEF BindController, BindInputRequest, BindInputAck, BindOutputRequest, BindOutputAck,
              Part, PublicPort
<1>2. CASE \E i \in DOMAIN a.inputs : part = BindInput(a, i)
  <2>1. PICK i \in DOMAIN a.inputs : part = BindInput(a, i)
    BY <1>2
  <2>2. part.ports = ReceivePorts(i, ChannelOfPort(a.inputs, i))
    BY <2>1 DEF BindInput, Part, ChannelOfPort
  <2> QED BY <2>2 DEF ReceivePorts, PublicPort
<1>3. CASE \E j \in DOMAIN a.outputs :
              part \in {BindOutput(a, j), BindStorage(a, j), BindOutputDelay(j)}
  <2>1. PICK j \in DOMAIN a.outputs :
           part \in {BindOutput(a, j), BindStorage(a, j), BindOutputDelay(j)}
    BY <1>3
  <2>2. BindOutput(a, j).ports = SendPorts(j, ChannelOfPort(a.outputs, j))
    BY DEF BindOutput, Part, ChannelOfPort
  <2>3. BindStorage(a, j).ports = {} /\ BindOutputDelay(j).ports = {}
    BY DEF BindStorage, BindOutputDelay, Part
  <2> QED BY <2>1, <2>2, <2>3 DEF SendPorts, PublicPort
<1>4. CASE \E s \in a.enReceives \cup a.enSends : part = BindEnableChannel(s)
  BY <1>4 DEF BindEnableChannel, Part
<1> QED BY <1>1, <1>2, <1>3, <1>4, PartCases

\* In a module with all formals bound every net in use is driven or read.
LEMMA UsedNets ==
    ASSUME NEW m, CompletelyBound(m), \A p \in m.ports : p.direction \in {"input", "output"},
           NEW net \in NetsUsed(m)
    PROVE  DriversOf(m, net) # {} \/ net \in NetsRead(m)
<1>1. CASE net \in {p.net : p \in m.ports}
  BY <1>1 DEF DriversOf, NetsRead
<1>2. CASE net \in {x.target : x \in m.assignments}
  BY <1>2 DEF DriversOf
<1>3. CASE net \in UNION {ToSet(x.sources) : x \in m.assignments}
  BY <1>3 DEF NetsRead
<1>4. ASSUME NEW cell \in m.instances, NEW f \in DOMAIN cell.binds, net = cell.binds[f]
      PROVE  DriversOf(m, net) # {} \/ net \in NetsRead(m)
  <2>1. f \in TemplateInputs[cell.template] \/ f \in TemplateOutputs[cell.template]
    BY <1>4 DEF CompletelyBound
  <2>2. CASE f \in TemplateInputs[cell.template]
    BY <1>4, <2>2 DEF NetsRead
  <2>3. CASE f \in TemplateOutputs[cell.template]
    BY <1>4, <2>3 DEF DriversOf
  <2> QED BY <2>1, <2>2, <2>3
<1> QED BY <1>1, <1>2, <1>3, <1>4 DEF NetsUsed

\* The checks of the emitter on nets, ports and instances pass when no public
\* port is bound twice: every net in use is declared and no two instances have
\* one name.
THEOREM ArchitectureRenderable ==
    ASSUME NEW a, Architecture(a), PortsBoundOnce(BindAsyncTemplates(a))
    PROVE  Renderable(BindAsyncTemplates(a))
<1> DEFINE parts == PartsOf(a)
           m == BindAsyncTemplates(a)
<1>1. /\ m.signals = SignalsOf(a)
      /\ m.instances = UNION {p.instances : p \in parts}
      /\ m.ports = UNION {p.ports : p \in parts}
  BY DEF BindAsyncTemplates, Module, Part, SignalsOf
<1>2. CompletelyBound(m)
  BY ArchitectureClosed DEF Closed
<1>3. \A p \in m.ports : p.direction \in {"input", "output"}
  BY <1>1, Directions
<1>4. \A net \in NetsRead(m) : Driven(a, net)
  <2> TAKE net \in NetsRead(m)
  <2>1. Cardinality(DriversOf(m, net)) = 1
    BY ArchitectureClosed DEF Closed
  <2>2. DriversOf(m, net) # {}
    BY <2>1, FS_EmptySet
  <2> QED BY <2>2, DriversOfModule DEF Driven, BindAsyncTemplates
<1>5. \A net : DriversOf(m, net) # {} => Driven(a, net)
  BY DriversOfModule DEF Driven, BindAsyncTemplates
<1>6. NetsUsed(m) \subseteq m.signals
  <2> SUFFICES ASSUME NEW net \in NetsUsed(m) PROVE net \in m.signals
    OBVIOUS
  <2>1. Driven(a, net)
    BY <1>2, <1>3, <1>4, <1>5, UsedNets
  <2> QED BY <1>1, <2>1, DrivenInSignals
<1>7. \A part \in parts : Named(a, part)
  BY PartCases, NamedControl, NamedInput, NamedOutput, NamedEnable
<1>8. ASSUME NEW x \in m.instances, NEW y \in m.instances, x.id = y.id
      PROVE  x = y
  <2>1. PICK p \in parts : x \in p.instances
    BY <1>1
  <2>2. PICK r \in parts : y \in r.instances
    BY <1>1
  <2>3. p = r
    BY <1>7, <1>8, <2>1, <2>2 DEF Named
  <2> QED BY <1>7, <1>8, <2>1, <2>2, <2>3 DEF Named
<1> QED BY <1>6, <1>8 DEF Renderable

\* So whatever M6 and M7 make of a decomposition the emitter renders, when M7
\* accepts its public ports.
THEOREM BoundModuleRenderable ==
    ASSUME NEW Port, NEW x, NEW d, d.receives \in Seq(Port), d.receives # <<>>,
           d.sends \in Seq(Port), d.sends # <<>>,
           PortsBoundOnce(BindAsyncTemplates(LowerMicroarchitecture(x, d)))
    PROVE  Renderable(BindAsyncTemplates(LowerMicroarchitecture(x, d)))
BY LoweredArchitecture, ArchitectureRenderable
=============================================================================
