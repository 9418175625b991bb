---------------------- MODULE ConditionalEnableProofs ----------------------
(***************************************************************************)
(* TLAPS proofs about the enable channels of ConditionalTransaction: where *)
(* every enable sender stands while the BODY works (EnableInv, in any      *)
(* surroundings), and, when sel is held, that all guards of a transaction  *)
(* read one value of it and that a receiver is owed exactly what the BODY  *)
(* has not handed over and what its EN_SEND stage is offering.             *)
(***************************************************************************)
EXTENDS ConditionalTransactionProofs

\* The joined acknowledge is a Boolean wire, the only output's or the last cell's.
LEMMA RackType == StageTypeOK => base_Rack \in BOOLEAN
<1>1. 1 \in Outputs /\ (M # 1 => M - 1 \in AckCells)
  BY SizeAssumption DEF Outputs, AckCells
<1> QED
  BY <1>1 DEF base_Rack, StageTypeOK

\* What the EN_RECV stage of a port reads, with its types.
LEMMA RecvPortTypes ==
  ASSUME WireTypeOK, NEW i \in CondIn
  PROVE  /\ i \in Inputs
         /\ recvEnable[i] \in EnableSenderStates /\ recvCtl[i] \in EnReceiveStates
         /\ recvEnable[i].req \in BOOLEAN /\ recvEnable[i].data \in BOOLEAN
         /\ extReq[i] \in BOOLEAN /\ inReq[i] \in BOOLEAN
         /\ q \in BOOLEAN /\ base_Rack \in BOOLEAN
         /\ EnableValue(RecvWhen[i], sel) \in BOOLEAN
  BY CondPorts, RackType DEF WireTypeOK, StageTypeOK, EnableSenderStates, EnableValue

\* What the EN_SEND stage of a port reads, with its types.
LEMMA SendPortTypes ==
  ASSUME WireTypeOK, NEW j \in CondOut
  PROVE  /\ j \in Outputs
         /\ sendEnable[j] \in EnableSenderStates /\ sendCtl[j] \in EnSendStates
         /\ sendEnable[j].req \in BOOLEAN /\ sendEnable[j].data \in BOOLEAN
         /\ sendCtl[j].externalReq \in BOOLEAN /\ sendCtl[j].bodyAck \in BOOLEAN
         /\ extRreq[j] \in BOOLEAN /\ extRack[j] \in BOOLEAN
         /\ q \in BOOLEAN /\ rreq[j] \in BOOLEAN /\ outAck[j] \in BOOLEAN
         /\ EnableValue(SendWhen[j], sel) \in BOOLEAN
  BY CondPorts DEF WireTypeOK, StageTypeOK, EnableSenderStates, EnSendStates, EnableValue

-----------------------------------------------------------------------------
(***************************************************************************)
(* How the BODY's acknowledge and the end of a transaction move.           *)
(***************************************************************************)

\* The joined acknowledge follows q, stands where q does when q moves, and falls
\* only once a BODY request has returned to zero.
LEMMA RackStep ==
  ASSUME WireTypeOK, ControlInv, StepCases
  PROVE  /\ StartBody => base_Rack' = base_Rack /\ base_Rack = q /\ q' = ~q
         /\ ~StartBody => q' = q /\ (base_Rack' = base_Rack \/ base_Rack' = q)
         /\ base_Rack' = base_Rack \/ q \/ Resting
<1>0. /\ StageTypeOK /\ StageInv /\ q \in BOOLEAN
      /\ 1 \in Outputs /\ (M # 1 => M - 1 \in AckCells)
  BY SizeAssumption DEF WireTypeOK, StageTypeOK, ControlInv, Outputs, AckCells
<1>1. CASE StartBody
  <2>1. /\ ControllerExcited /\ q' = ControllerValue
        /\ UNCHANGED <<outAck, ackRed>>
    BY <1>1 DEF StartBody, SwitchController
  <2>2. ControllerValue \in BOOLEAN
    BY DEF ControllerValue, CElement
  <2>3. base_Rack' = base_Rack
    BY <2>1 DEF base_Rack
  <2>4. base_Rack = q /\ q' = ~q
    BY <1>0, <2>1, <2>2, ControllerSwitch DEF base_Rack, StageTypeOK, ControllerExcited
  <2> QED BY <1>1, <2>3, <2>4
<1>2. CASE \E k \in AckCells : SwitchAckCell(k) /\ UNCHANGED bodyOnly
  <2> PICK k \in AckCells : SwitchAckCell(k) BY <1>2
  <2>1. /\ AckCellExcited(k) /\ UNCHANGED <<q, outAck>>
        /\ ackRed' = [ackRed EXCEPT ![k] = AckCellValue(k)]
    BY DEF SwitchAckCell
  <2>2. AckCellValue(k) \in BOOLEAN
    BY DEF AckCellValue, CElement
  <2>3. AckCellValue(k) = q
    BY <1>0, <2>1, <2>2, AckCellSwitch
  <2>4. base_Rack' = base_Rack \/ base_Rack' = q
    BY <1>0, <2>1, <2>3 DEF base_Rack, StageTypeOK
  <2>5. ~StartBody
    BY <1>0, <2>1 DEF StartBody, SwitchController, ControllerExcited
  <2>6. ~q => ~outAck[1]
    <3>1. 1 \in 1..(k + 1)
      BY SizeAssumption DEF AckCells
    <3> QED BY <1>0, <2>1, <3>1, AckCellSwitch
  <2>7. ~q => Resting
    BY <1>0, <2>6 DEF StageInv, OutputPhase, Resting
  <2> QED BY <2>1, <2>4, <2>5, <2>7
<1>3. CASE \/ \E j \in Outputs : Take(j) \/ Release(j)
           \/ \E j \in CondOut : EvaluateEnSend(j)
  <2> PICK j \in Outputs : Take(j) \/ Release(j) \/ (j \in CondOut /\ EvaluateEnSend(j))
    BY <1>3, CondPorts
  <2>1. UNCHANGED <<q, ackRed>>
    BY AcknowledgeStep
  <2>2. UNCHANGED outAck \/ (outAck' = [outAck EXCEPT ![j] = q] /\ q = rreq[j])
    BY <1>0, AcknowledgeStep, AcknowledgeMoves
  <2>3. base_Rack' = base_Rack \/ base_Rack' = q
    BY <1>0, <2>1, <2>2 DEF base_Rack, StageTypeOK
  <2>4. ~StartBody
    BY <1>0, <2>1 DEF StartBody, SwitchController, ControllerExcited
  <2>5. UNCHANGED outAck => base_Rack' = base_Rack
    BY <2>1 DEF base_Rack
  <2>6. ~q /\ q = rreq[j] => Resting
    BY <1>0 DEF Resting
  <2> QED BY <2>1, <2>2, <2>3, <2>4, <2>5, <2>6
<1>4. CASE UNCHANGED <<q, outAck, ackRed>>
  <2>1. base_Rack' = base_Rack
    BY <1>4 DEF base_Rack
  <2>2. ~StartBody
    BY <1>0, <1>4 DEF StartBody, SwitchController, ControllerExcited
  <2> QED BY <1>4, <2>1, <2>2
<1> QED
  BY <1>1, <1>2, <1>3, <1>4
  DEF StepCases, BodyGateStep, ReleaseReset, SwitchReqCell, PassLatch, EndBodyDelay, EndDelay,
      CaptureEnable, EvaluateEnReceive, PassRecvStorage, EndRecvDelay, LaunchEnable,
      PassSendStorage, EndSendDelay, Offer, Retract, OfferExternal, RetractExternal,
      TakeExternal, ReleaseExternal, ChangeSel, AssertReset, vars, stageVars

\* A transaction is over from the end of the first falling delay, which needs a
\* settled network, to the next rise of q.
LEMMA RestingStep ==
  ASSUME WireTypeOK, ControlInv, StepCases
  PROVE  /\ StartBody => ~Resting' /\ (Resting <=> ~q)
         /\ ~StartBody /\ Resting => Resting'
         /\ ~StartBody /\ Resting' => Resting \/ \E j \in Outputs : EndBodyDelay(j)
<1>0. /\ StageTypeOK /\ StageInv /\ q \in BOOLEAN /\ rreq \in [Outputs -> BOOLEAN]
      /\ 1 \in Outputs
  BY SizeAssumption DEF WireTypeOK, StageTypeOK, ControlInv, Outputs
<1>1. CASE StartBody
  <2>1. /\ ControllerExcited /\ q' = ControllerValue
        /\ UNCHANGED rreq
    BY <1>1 DEF StartBody, SwitchController
  <2> QED BY <1>0, <1>1, <2>1, ControllerSwitch DEF Resting
<1>2. CASE \E j \in Outputs : EndBodyDelay(j)
  <2> PICK j \in Outputs : EndBodyDelay(j) BY <1>2
  <2>1. rreq' = [rreq EXCEPT ![j] = q] /\ UNCHANGED q
    BY DEF EndBodyDelay, EndDelay
  <2>2. Resting => Resting'
    BY <1>0, <2>1 DEF Resting
  <2> QED BY <1>0, <2>1, <2>2 DEF StartBody, SwitchController, ControllerExcited
<1>3. CASE UNCHANGED <<q, rreq>>
  BY <1>0, <1>3 DEF Resting, StartBody, SwitchController, ControllerExcited
<1> QED
  BY <1>1, <1>2, <1>3
  DEF StepCases, BodyGateStep, ReleaseReset, SwitchReqCell, SwitchAckCell, PassLatch,
      CaptureEnable, EvaluateEnReceive, PassRecvStorage, EndRecvDelay, LaunchEnable,
      EvaluateEnSend, PassSendStorage, EndSendDelay, Offer, Retract, OfferExternal,
      RetractExternal, Take, Release, TakeExternal, ReleaseExternal, ChangeSel, AssertReset,
      vars, stageVars

-----------------------------------------------------------------------------
(***************************************************************************)
(* An enable channel, one move at a time: e is the enable sender, c the    *)
(* controller it serves.                                                   *)
(***************************************************************************)
LEMMA RecvEnableCaptures ==
  ASSUME NEW e \in EnableSenderStates, NEW c \in EnReceiveStates, NEW value \in BOOLEAN,
         NEW ack \in BOOLEAN, NEW rack \in BOOLEAN, NEW resting \in BOOLEAN,
         RecvEnablePhase(e, c, ack, rack, resting),
         NEW f, f = EnableSender(e, value, ~rack, c.enableAck)
  PROVE  RecvEnablePhase(f, c, ack, rack, resting)
<1>1. CASE e.state = "IDLE"
  BY <1>1 DEF EnableSender, EnableSenderStates, EnReceiveStates, RecvEnablePhase
<1>2. CASE e.state = "ACTIVE"
  BY <1>2 DEF EnableSender, EnableSenderStates, EnReceiveStates, RecvEnablePhase
<1>3. CASE e.state = "REARM"
  BY <1>3 DEF EnableSender, EnableSenderStates, EnReceiveStates, RecvEnablePhase
<1> QED
  BY <1>1, <1>2, <1>3 DEF EnableSenderStates

\* EN_RECV keeps the phase of its enable channel.
LEMMA RecvEnableEvaluates ==
  ASSUME NEW e \in EnableSenderStates, NEW c \in EnReceiveStates, NEW externalReq \in BOOLEAN,
         NEW r \in BOOLEAN, NEW ack \in BOOLEAN, NEW rack \in BOOLEAN, NEW resting \in BOOLEAN,
         RecvPhase(c, r, ack), RecvEnablePhase(e, c, ack, rack, resting),
         NEW d, d = EnReceive(c, e.req, e.data, externalReq, ack)
  PROVE  RecvEnablePhase(e, d, ack, rack, resting)
<1>0. e.req \in BOOLEAN /\ e.data \in BOOLEAN
  BY DEF EnableSenderStates
<1>1. CASE c.state = "IDLE"
  BY <1>0, <1>1 DEF EnReceive, EnReceiveIdle, EnReceiveStates, RecvPhase, RecvEnablePhase
<1>2. CASE c.state = "WAIT_EXTERNAL"
  BY <1>0, <1>2 DEF EnReceive, EnReceiveWaitExternal, EnReceiveStates, RecvPhase, RecvEnablePhase
<1>3. CASE c.state = "WAIT_BODY"
  BY <1>0, <1>3 DEF EnReceive, EnReceiveWaitBody, EnReceiveStates, RecvPhase, RecvEnablePhase
<1> QED
  BY <1>1, <1>2, <1>3 DEF EnReceiveStates

\* On a settled network no PRE_INPUT enable is still to be withdrawn or rearmed.
LEMMA RecvEnableSettled ==
  ASSUME NEW e \in EnableSenderStates, NEW c \in EnReceiveStates, NEW value \in BOOLEAN,
         NEW externalReq \in BOOLEAN, NEW r \in BOOLEAN, NEW ack \in BOOLEAN,
         NEW rack \in BOOLEAN, NEW resting \in BOOLEAN,
         RecvPhase(c, r, ack), RecvEnablePhase(e, c, ack, rack, resting),
         EnableSender(e, value, ~rack, c.enableAck) = e,
         EnReceive(c, e.req, e.data, externalReq, ack) = c
  PROVE  e.state # "REARM" /\ ~(e.state = "ACTIVE" /\ rack)
<1>1. ASSUME e.state = "REARM" PROVE FALSE
  <2>1. rack /\ ~e.req
    BY <1>1 DEF RecvEnablePhase
  <2>2. c.enableAck
    BY <1>1, <2>1 DEF EnableSender, EnableSenderStates
  <2>3. CASE c.state = "IDLE"
    BY <2>2, <2>3 DEF RecvPhase
  <2>4. CASE c.state = "WAIT_EXTERNAL"
    BY <1>1, <2>4 DEF RecvEnablePhase
  <2>5. CASE c.state = "WAIT_BODY"
    <3>1. EnReceive(c, e.req, e.data, externalReq, ack).enableAck <=> c.enableAck /\ e.req
      BY <2>5 DEF EnReceive, EnReceiveWaitBody
    <3> QED BY <2>1, <2>2, <3>1
  <2> QED
    BY <2>3, <2>4, <2>5 DEF EnReceiveStates
<1>2. ASSUME e.state = "ACTIVE", rack PROVE FALSE
  BY <1>2 DEF RecvEnablePhase, EnableSender, EnableSenderStates
<1> QED
  BY <1>1, <1>2

\* q follows the requests of its inputs, and the joined acknowledge follows q.
LEMMA RecvEnableMoves ==
  ASSUME NEW e \in EnableSenderStates, NEW c \in EnReceiveStates,
         NEW r \in BOOLEAN, NEW ack \in BOOLEAN, NEW rack \in BOOLEAN, NEW resting \in BOOLEAN,
         RecvPhase(c, r, ack), RecvEnablePhase(e, c, ack, rack, resting)
  PROVE  /\ rack = ack /\ r = ~ack => RecvEnablePhase(e, c, ~ack, rack, FALSE)
         /\ ~ack /\ resting => RecvEnablePhase(e, c, ack, FALSE, resting)
         /\ ack /\ ~resting => RecvEnablePhase(e, c, ack, TRUE, resting)
  BY DEF RecvPhase, RecvEnablePhase, EnReceiveStates, EnableSenderStates

\* The POST_INPUT enable sender keeps the phase of its enable channel.
LEMMA SendEnableLaunches ==
  ASSUME NEW e \in EnableSenderStates, NEW c \in EnSendStates, NEW value \in BOOLEAN,
         NEW launch \in BOOLEAN, NEW resting \in BOOLEAN,
         SendEnablePhase(e, c, launch, resting),
         NEW f, f = EnableSender(e, value, launch, c.enableAck)
  PROVE  SendEnablePhase(f, c, launch, resting)
<1>1. CASE e.state = "IDLE"
  BY <1>1 DEF EnableSender, EnableSenderStates, EnSendStates, SendEnablePhase
<1>2. CASE e.state = "ACTIVE"
  BY <1>2 DEF EnableSender, EnableSenderStates, EnSendStates, SendEnablePhase
<1>3. CASE e.state = "REARM"
  BY <1>3 DEF EnableSender, EnableSenderStates, EnSendStates, SendEnablePhase
<1> QED
  BY <1>1, <1>2, <1>3 DEF EnableSenderStates

\* So does EN_SEND.
LEMMA SendEnableEvaluates ==
  ASSUME NEW e \in EnableSenderStates, NEW c \in EnSendStates, NEW bodyReq \in BOOLEAN,
         NEW a \in BOOLEAN, NEW launch \in BOOLEAN, NEW resting \in BOOLEAN,
         c.bodyAck => c.state = "ACTIVE",
         launch /\ c.bodyAck => bodyReq, ~launch /\ ~bodyReq => resting,
         SendEnablePhase(e, c, launch, resting),
         NEW d, d = EnSend(c, e.req, e.data, bodyReq, a)
  PROVE  SendEnablePhase(e, d, launch, resting)
<1>0. e.req \in BOOLEAN /\ e.data \in BOOLEAN
  BY DEF EnableSenderStates
<1>1. CASE c.state = "IDLE"
  BY <1>0, <1>1 DEF EnSend, EnSendIdle, EnSendStates, SendEnablePhase
<1>2. CASE c.state = "WAIT_BODY"
  BY <1>0, <1>2 DEF EnSend, EnSendWaitBody, EnSendStates, SendEnablePhase
<1>3. CASE c.state = "ACTIVE"
  BY <1>0, <1>3 DEF EnSend, EnSendActive, EnSendStates, SendEnablePhase
<1> QED
  BY <1>1, <1>2, <1>3 DEF EnSendStates

\* Nor is a POST_INPUT enable, once storage has closed.
LEMMA SendEnableSettled ==
  ASSUME NEW e \in EnableSenderStates, NEW c \in EnSendStates, NEW value \in BOOLEAN,
         NEW bodyReq \in BOOLEAN, NEW a \in BOOLEAN, NEW resting \in BOOLEAN,
         SendEnablePhase(e, c, FALSE, resting),
         EnableSender(e, value, FALSE, c.enableAck) = e,
         EnSend(c, e.req, e.data, bodyReq, a) = c
  PROVE  e.state = "IDLE"
<1>1. ASSUME e.state = "REARM" PROVE FALSE
  <2>1. c.state = "ACTIVE" /\ ~e.req
    BY <1>1 DEF SendEnablePhase
  <2>2. c.enableAck
    BY <1>1 DEF EnableSender, EnableSenderStates
  <2>3. EnSend(c, e.req, e.data, bodyReq, a).enableAck <=> c.enableAck /\ e.req
    BY <2>1 DEF EnSend, EnSendActive
  <2> QED
    BY <2>1, <2>2, <2>3
<1>2. ASSUME e.state = "ACTIVE" PROVE FALSE
  BY <1>2 DEF SendEnablePhase, EnableSender, EnableSenderStates
<1> QED
  BY <1>1, <1>2 DEF EnableSenderStates

\* q falls when the output is acknowledged and rises when it has been released.
LEMMA SendEnableMoves ==
  ASSUME NEW e \in EnableSenderStates, NEW c \in EnSendStates,
         NEW launch \in BOOLEAN, NEW resting \in BOOLEAN, SendEnablePhase(e, c, launch, resting),
         c.bodyAck => c.state = "ACTIVE", c.bodyAck = launch, launch \/ resting
  PROVE  SendEnablePhase(e, c, ~launch, FALSE)
  BY DEF SendEnablePhase, EnSendStates, EnableSenderStates

-----------------------------------------------------------------------------
(***************************************************************************)
(* EnableInv is inductive.                                                 *)
(***************************************************************************)
LEMMA EnableInit == Init => EnableInv
<1> SUFFICES ASSUME Init PROVE EnableInv
  OBVIOUS
<1>1. ~q /\ base_Rack = FALSE
  <2>1. 1 \in Outputs /\ (M # 1 => M - 1 \in AckCells)
    BY SizeAssumption DEF Outputs, AckCells
  <2> QED BY <2>1 DEF Init, StageInit, base_Rack
<1>2. ASSUME NEW i \in CondIn
      PROVE  RecvEnablePhase(recvEnable[i], recvCtl[i], q, base_Rack, Resting)
  BY <1>1 DEF Init, RecvEnablePhase, EnableSenderReset, EnReceiveReset
<1>3. ASSUME NEW j \in CondOut
      PROVE  SendEnablePhase(sendEnable[j], sendCtl[j], q, Resting)
  BY <1>1 DEF Init, SendEnablePhase, EnableSenderReset, EnSendReset
<1> QED
  BY <1>2, <1>3 DEF EnableInv

\* Every step keeps the phase of every PRE_INPUT enable channel.
LEMMA RecvEnableStep ==
  ASSUME WireTypeOK, ControlInv, EnableInv, StepCases, NEW i \in CondIn
  PROVE  RecvEnablePhase(recvEnable[i], recvCtl[i], q, base_Rack, Resting)'
<1> DEFINE e == recvEnable[i]
           c == recvCtl[i]
<1>0. /\ RecvPhase(c, inReq[i], q) /\ RecvEnablePhase(e, c, q, base_Rack, Resting)
      /\ e \in EnableSenderStates /\ c \in EnReceiveStates
      /\ q \in BOOLEAN /\ base_Rack \in BOOLEAN /\ Resting \in BOOLEAN
      /\ inReq[i] \in BOOLEAN /\ extReq[i] \in BOOLEAN /\ i \in Inputs
      /\ EnableValue(RecvWhen[i], sel) \in BOOLEAN
  BY RecvPortTypes DEF ControlInv, EnableInv, Resting
<1> HIDE DEF e, c
<1>1. CASE StartBody
  <2>1. base_Rack' = base_Rack /\ base_Rack = q /\ q' = ~q /\ Resting' = FALSE
    BY <1>1, RackStep, RestingStep DEF Resting
  <2>2. inReq[i] = ~q
    BY <1>0, <1>1, ControllerSwitch
    DEF StartBody, SwitchController, WireTypeOK, StageTypeOK, ControlInv
  <2>3. UNCHANGED <<recvEnable, recvCtl>>
    BY <1>1 DEF StartBody, recvVars
  <2>4. RecvEnablePhase(e, c, ~q, base_Rack, FALSE)
    BY <1>0, <2>1, <2>2, RecvEnableMoves
  <2> QED BY <2>1, <2>3, <2>4 DEF e, c
<1>2. CASE \E j \in Outputs : EndBodyDelay(j)
  <2> PICK j \in Outputs : EndBodyDelay(j) BY <1>2
  <2>1. UNCHANGED <<q, outAck, ackRed, recvEnable, recvCtl>>
    BY DEF EndBodyDelay, EndDelay, recvVars
  <2>2. base_Rack' = base_Rack
    BY <2>1 DEF base_Rack
  <2>3. EnableSender(e, EnableValue(RecvWhen[i], sel), ~base_Rack, c.enableAck) = e
    BY DEF EndBodyDelay, DelayMayEnd, Settled, RecvEnableValue, PreInputLaunch, e, c
  <2>4. EnReceive(c, e.req, e.data, extReq[i], q) = c
    BY DEF EndBodyDelay, DelayMayEnd, Settled, RecvCtlValue, base_Lack, e, c
  <2>5. e.state # "REARM" /\ ~(e.state = "ACTIVE" /\ base_Rack)
    BY <1>0, <2>3, <2>4, RecvEnableSettled
  <2>6. RecvEnablePhase(e, c, q, base_Rack, Resting')
    BY <1>0, <2>5 DEF RecvEnablePhase
  <2> QED BY <2>1, <2>2, <2>6 DEF e, c
<1>3. CASE \E k \in CondIn : CaptureEnable(k)
  <2> PICK k \in CondIn : CaptureEnable(k) BY <1>3
  <2>1. UNCHANGED <<q, outAck, ackRed, rreq, recvCtl>>
    BY DEF CaptureEnable, stageVars
  <2>2. base_Rack' = base_Rack /\ Resting' = Resting
    BY <2>1 DEF base_Rack, Resting
  <2>3. recvEnable'[i] = e \/ recvEnable'[i] = RecvEnableValue(i)
    BY DEF CaptureEnable, WireTypeOK, e
  <2>4. RecvEnablePhase(RecvEnableValue(i), c, q, base_Rack, Resting)
    BY <1>0, RecvEnableCaptures DEF RecvEnableValue, PreInputLaunch, e, c
  <2>5. RecvEnablePhase(recvEnable'[i], c, q, base_Rack, Resting)
    BY <1>0, <2>3, <2>4
  <2> QED BY <2>1, <2>2, <2>5 DEF c
<1>4. CASE \E k \in CondIn : EvaluateEnReceive(k)
  <2> PICK k \in CondIn : EvaluateEnReceive(k) BY <1>4
  <2>1. UNCHANGED <<q, outAck, ackRed, rreq, recvEnable>>
    BY DEF EvaluateEnReceive, stageVars
  <2>2. base_Rack' = base_Rack /\ Resting' = Resting
    BY <2>1 DEF base_Rack, Resting
  <2>3. recvCtl'[i] = c \/ recvCtl'[i] = RecvCtlValue(i)
    BY DEF EvaluateEnReceive, WireTypeOK, c
  <2>4. RecvEnablePhase(e, RecvCtlValue(i), q, base_Rack, Resting)
    BY <1>0, RecvEnableEvaluates DEF RecvCtlValue, base_Lack, e, c
  <2>5. RecvEnablePhase(e, recvCtl'[i], q, base_Rack, Resting)
    BY <1>0, <2>3, <2>4
  <2> QED BY <2>1, <2>2, <2>5 DEF e
<1>5. CASE /\ ~StartBody
           /\ ~\E j \in Outputs : EndBodyDelay(j)
           /\ UNCHANGED <<recvEnable, recvCtl>>
  <2>1. q' = q /\ Resting' = Resting
    BY <1>0, <1>5, RackStep, RestingStep DEF Resting
  <2>2. base_Rack' = base_Rack \/ (base_Rack' = q /\ (q \/ Resting))
    BY <1>5, RackStep
  <2>3. RecvEnablePhase(e, c, q, base_Rack', Resting)
    BY <1>0, <2>2, RecvEnableMoves DEF Resting
  <2> QED BY <1>5, <2>1, <2>3 DEF e, c
<1> QED
  BY <1>1, <1>2, <1>3, <1>4, <1>5
  DEF StepCases, BodyGateStep, bodyOnly, PassRecvStorage, EndRecvDelay, LaunchEnable,
      EvaluateEnSend, PassSendStorage, EndSendDelay, Offer, Retract, OfferExternal,
      RetractExternal, Take, Release, TakeExternal, ReleaseExternal, ChangeSel, AssertReset,
      vars, recvVars

\* Every step keeps the phase of every POST_INPUT enable channel.
LEMMA SendEnableStep ==
  ASSUME WireTypeOK, ControlInv, EnableInv, StepCases, NEW j \in CondOut
  PROVE  SendEnablePhase(sendEnable[j], sendCtl[j], q, Resting)'
<1> DEFINE e == sendEnable[j]
           c == sendCtl[j]
<1>0. /\ SendEnablePhase(e, c, q, Resting)
      /\ outAck[j] = c.bodyAck /\ (c.bodyAck => c.state = "ACTIVE")
      /\ e \in EnableSenderStates /\ c \in EnSendStates /\ j \in Outputs
      /\ q \in BOOLEAN /\ Resting \in BOOLEAN /\ rreq[j] \in BOOLEAN /\ extRack[j] \in BOOLEAN
      /\ EnableValue(SendWhen[j], sel) \in BOOLEAN
  BY SendPortTypes DEF ControlInv, SendPhase, EnableInv, Resting
<1> HIDE DEF e, c
<1>1. CASE StartBody
  <2>1. q' = ~q /\ Resting' = FALSE /\ (q \/ Resting)
    BY <1>0, <1>1, RackStep, RestingStep DEF Resting
  <2>2. c.bodyAck = q
    BY <1>0, <1>1, ControllerSwitch
    DEF StartBody, SwitchController, WireTypeOK, StageTypeOK, ControlInv
  <2>3. UNCHANGED <<sendEnable, sendCtl>>
    BY <1>1 DEF StartBody, sendVars
  <2>4. SendEnablePhase(e, c, ~q, FALSE)
    BY <1>0, <2>1, <2>2, SendEnableMoves
  <2> QED BY <2>1, <2>3, <2>4 DEF e, c
<1>2. CASE \E n \in Outputs : EndBodyDelay(n)
  <2> PICK n \in Outputs : EndBodyDelay(n) BY <1>2
  <2>1. UNCHANGED <<q, sendEnable, sendCtl>>
    BY DEF EndBodyDelay, EndDelay, sendVars
  <2>2. CASE q
    BY <1>0, <2>1, <2>2 DEF Resting, e, c
  <2>3. CASE ~q
    <3>1. EnableSender(e, EnableValue(SendWhen[j], sel), FALSE, c.enableAck) = e
      BY <1>0, <2>3 DEF EndBodyDelay, DelayMayEnd, Settled, SendEnableValue, storage_enable, e, c
    <3>2. EnSend(c, e.req, e.data, rreq[j], extRack[j]) = c
      BY DEF EndBodyDelay, DelayMayEnd, Settled, SendCtlValue, e, c
    <3>3. SendEnablePhase(e, c, FALSE, Resting)
      BY <1>0, <2>3
    <3>4. e.state = "IDLE"
      BY <1>0, <3>1, <3>2, <3>3, SendEnableSettled
    <3>5. SendEnablePhase(e, c, q, Resting')
      BY <1>0, <3>4 DEF SendEnablePhase
    <3> QED BY <2>1, <3>5 DEF e, c
  <2> QED BY <2>2, <2>3
<1>3. CASE \E k \in CondOut : LaunchEnable(k)
  <2> PICK k \in CondOut : LaunchEnable(k) BY <1>3
  <2>1. UNCHANGED <<q, rreq, sendCtl>>
    BY DEF LaunchEnable, stageVars
  <2>2. sendEnable'[j] = e \/ sendEnable'[j] = SendEnableValue(j)
    BY DEF LaunchEnable, WireTypeOK, e
  <2>3. SendEnablePhase(SendEnableValue(j), c, q, Resting)
    BY <1>0, SendEnableLaunches DEF SendEnableValue, storage_enable, e, c
  <2>4. SendEnablePhase(sendEnable'[j], c, q, Resting)
    BY <1>0, <2>2, <2>3
  <2> QED BY <2>1, <2>4 DEF Resting, c
<1>4. CASE \E k \in CondOut : EvaluateEnSend(k)
  <2> PICK k \in CondOut : EvaluateEnSend(k) BY <1>4
  <2>1. UNCHANGED <<q, rreq, sendEnable>>
    BY DEF EvaluateEnSend
  <2>2. sendCtl'[j] = c \/ sendCtl'[j] = SendCtlValue(j)
    BY DEF EvaluateEnSend, WireTypeOK, c
  <2>3. (q /\ c.bodyAck => rreq[j]) /\ (~q /\ ~rreq[j] => Resting)
    BY <1>0 DEF ControlInv, StageInv, OutputPhase, Resting
  <2>4. SendEnablePhase(e, SendCtlValue(j), q, Resting)
    BY <1>0, <2>3, SendEnableEvaluates DEF SendCtlValue, e, c
  <2>5. SendEnablePhase(e, sendCtl'[j], q, Resting)
    BY <1>0, <2>2, <2>4
  <2> QED BY <2>1, <2>5 DEF Resting, e
<1>5. CASE UNCHANGED <<q, rreq, sendEnable, sendCtl>>
  BY <1>0, <1>5 DEF Resting, e, c
<1> QED
  BY <1>1, <1>2, <1>3, <1>4, <1>5
  DEF StepCases, BodyGateStep, bodyOnly, ReleaseReset, SwitchReqCell, SwitchAckCell, PassLatch,
      CaptureEnable, EvaluateEnReceive, PassRecvStorage, EndRecvDelay, PassSendStorage,
      EndSendDelay, Offer, Retract, OfferExternal, RetractExternal, Take, Release,
      TakeExternal, ReleaseExternal, ChangeSel, AssertReset, vars, stageVars, sendVars

\* The enable invariant is inductive.
LEMMA EnableStep ==
  WireTypeOK /\ ControlInv /\ EnableInv /\ [Next]_vars => EnableInv'
  BY StepsOfNext, RecvEnableStep, SendEnableStep DEF EnableInv

\* Every enable sender is launched, acknowledged and rearmed within one
\* transaction of the BODY, in any surroundings that follow the protocol.
THEOREM EnableInvCorrect == Spec => []EnableInv
<1>1. Init => WireTypeOK /\ ControlInv /\ EnableInv
  BY WireTypeInit, ControlInit, EnableInit
<1>2. WireTypeOK /\ ControlInv /\ EnableInv /\ [Next]_vars => (WireTypeOK /\ ControlInv /\ EnableInv)'
  BY WireTypeStep, ControlStep, EnableStep
<1> QED
  BY <1>1, <1>2, PTL DEF Spec

-----------------------------------------------------------------------------
(***************************************************************************)
(* One guard per transaction.  sel is held until the BODY latches close,   *)
(* so it cannot move between the capture of the first PRE_INPUT enable and *)
(* the launch of the last POST_INPUT one.                                  *)
(***************************************************************************)
LEMMA GuardInit == Init => GuardInv
<1> SUFFICES ASSUME Init PROVE GuardInv
  OBVIOUS
<1>1. ~q
  BY DEF Init, StageInit
<1> QED
  BY <1>1 DEF Init, GuardInv, EnableSenderReset, EnSendReset

\* The captured guard is sel whenever q is high, and stays the same until q falls.
LEMMA GuardMoves ==
  ASSUME SelHeld, WireTypeOK, ControlInv, EnableInv, GuardInv, StepCases
  PROVE  /\ q' => guard' = sel'
         /\ q => guard' = guard
<1>0. q \in BOOLEAN /\ (q => guard = sel)
  BY DEF WireTypeOK, StageTypeOK, GuardInv
<1>1. CASE StartBody
  <2>1. /\ UNCHANGED sel /\ guard' = IF q' /\ CondIn = {} THEN sel ELSE guard
        /\ ControllerExcited /\ q' = ~q
    BY <1>1, RackStep DEF StartBody, SwitchController
  <2>2. CASE q
    BY <2>1, <2>2
  <2>3. CASE ~q /\ CondIn = {}
    BY <2>1, <2>3
  <2>4. CASE ~q /\ CondIn # {}
    <3> PICK i \in CondIn : TRUE BY <2>4
    <3>1. inReq[i] /\ ~base_Rack
      BY <1>1, <2>1, <2>4, RecvPortTypes, RackStep, ControllerSwitch DEF WireTypeOK, ControlInv
    <3>2. recvCtl[i].bodyReq
      BY <2>4, <3>1 DEF ControlInv, RecvPhase
    <3>3. recvEnable[i].state = "ACTIVE"
      BY <2>4, <3>2 DEF EnableInv, RecvEnablePhase
    <3> QED BY <2>1, <2>4, <3>1, <3>3 DEF GuardInv
  <2> QED BY <2>2, <2>3, <2>4
<1>2. CASE \E i \in CondIn : CaptureEnable(i)
  <2>1. UNCHANGED <<q, sel>> /\ (guard' = sel \/ guard' = guard)
    BY <1>2 DEF CaptureEnable, stageVars
  <2> QED BY <1>0, <2>1
<1>3. CASE ChangeSel
  <2>1. ~q /\ UNCHANGED <<q, guard>>
    BY <1>3 DEF ChangeSel, stageVars
  <2> QED BY <2>1
<1>4. CASE UNCHANGED <<q, sel, guard>>
  BY <1>0, <1>4
<1> QED
  BY <1>1, <1>2, <1>3, <1>4
  DEF StepCases, BodyGateStep, bodyOnly, ReleaseReset, SwitchReqCell, SwitchAckCell, PassLatch,
      EndBodyDelay, EndDelay, EvaluateEnReceive, PassRecvStorage, EndRecvDelay, LaunchEnable,
      EvaluateEnSend, PassSendStorage, EndSendDelay, Offer, Retract, OfferExternal,
      RetractExternal, Take, Release, TakeExternal, ReleaseExternal, AssertReset, vars, stageVars

\* A PRE_INPUT token carries the guard of the transaction being prepared.
LEMMA RecvGuardStep ==
  ASSUME SelHeld, WireTypeOK, ControlInv, EnableInv, GuardInv, StepCases, NEW i \in CondIn,
         recvEnable'[i].state = "ACTIVE", ~base_Rack'
  PROVE  guard' = sel' /\ recvEnable'[i].data = EnableValue(RecvWhen[i], guard')
<1>0. /\ recvEnable[i] \in EnableSenderStates /\ q \in BOOLEAN
      /\ recvEnable[i].req <=> recvEnable[i].state = "ACTIVE"
      /\ recvEnable[i].state = "ACTIVE" /\ base_Rack => ~Resting
      /\ recvEnable[i].state = "ACTIVE" /\ ~base_Rack =>
             guard = sel /\ recvEnable[i].data = EnableValue(RecvWhen[i], guard)
  BY RecvPortTypes DEF EnableInv, RecvEnablePhase, GuardInv
<1>1. CASE StartBody
  <2>1. UNCHANGED <<sel, guard, recvEnable>> /\ base_Rack' = base_Rack
    BY <1>1, RackStep DEF StartBody, recvVars
  <2> QED BY <1>0, <2>1
<1>2. CASE \E k \in CondIn : CaptureEnable(k)
  <2> PICK k \in CondIn : CaptureEnable(k) BY <1>2
  <2>1. UNCHANGED <<sel, outAck, ackRed>>
    BY DEF CaptureEnable, stageVars
  <2>2. ~base_Rack
    BY <2>1 DEF base_Rack
  <2>3. guard' = IF RecvEnableValue(k).req /\ ~recvEnable[k].req THEN sel ELSE guard
    BY DEF CaptureEnable
  <2>4. CASE k # i
    <3>1. recvEnable'[i] = recvEnable[i]
      BY <2>4 DEF CaptureEnable, WireTypeOK
    <3> QED BY <1>0, <2>1, <2>2, <2>3, <3>1
  <2>5. CASE k = i
    <3>1. /\ recvEnable'[i] = RecvEnableValue(i) /\ RecvEnableValue(i) # recvEnable[i]
      BY <2>5 DEF CaptureEnable, WireTypeOK
    <3>2. /\ recvEnable[i].state = "IDLE"
          /\ RecvEnableValue(i) = [state |-> "ACTIVE", req |-> TRUE,
                                   data |-> EnableValue(RecvWhen[i], sel)]
      BY <1>0, <3>1 DEF RecvEnableValue, EnableSender, EnableSenderStates
    <3>3. ~recvEnable[i].req /\ RecvEnableValue(i).req
      BY <1>0, <3>2
    <3>4. guard' = sel
      BY <2>3, <2>5, <3>3
    <3> QED BY <2>1, <3>1, <3>2, <3>4
  <2> QED BY <2>4, <2>5
<1>3. CASE ChangeSel
  <2>1. base_Rack /\ UNCHANGED <<outAck, ackRed>>
    BY <1>3 DEF ChangeSel, stageVars
  <2> QED BY <2>1 DEF base_Rack
<1>4. CASE ~StartBody /\ UNCHANGED <<sel, guard, recvEnable>>
  <2>1. base_Rack' = base_Rack \/ (~q /\ Resting)
    BY <1>0, <1>4, RackStep
  <2> QED BY <1>0, <1>4, <2>1
<1> QED
  BY <1>1, <1>2, <1>3, <1>4
  DEF StepCases, BodyGateStep, bodyOnly, EndBodyDelay, EvaluateEnReceive, PassRecvStorage,
      EndRecvDelay, LaunchEnable, EvaluateEnSend, PassSendStorage, EndSendDelay, Offer, Retract,
      OfferExternal, RetractExternal, Take, Release, TakeExternal, ReleaseExternal, AssertReset,
      vars, recvVars

\* A POST_INPUT token carries the guard the PRE_INPUT tokens have carried.
LEMMA SendGuardStep ==
  ASSUME SelHeld, WireTypeOK, ControlInv, EnableInv, GuardInv, StepCases, NEW j \in CondOut
  PROVE  /\ q' /\ sendEnable'[j].state = "ACTIVE" =>
                sendEnable'[j].data = EnableValue(SendWhen[j], guard')
         /\ sendCtl'[j].state = "WAIT_BODY" =>
                sendCtl'[j].enabled = EnableValue(SendWhen[j], guard')
<1>0. /\ sendEnable[j] \in EnableSenderStates /\ sendCtl[j] \in EnSendStates
      /\ q \in BOOLEAN /\ EnableValue(SendWhen[j], sel) \in BOOLEAN
      /\ q => guard = sel
      /\ q /\ sendEnable[j].state = "ACTIVE" =>
             sendEnable[j].data = EnableValue(SendWhen[j], guard)
      /\ sendCtl[j].state = "WAIT_BODY" =>
             q /\ sendCtl[j].enabled = EnableValue(SendWhen[j], guard)
      /\ q => guard' = guard
      /\ sendEnable[j].req <=> sendEnable[j].state = "ACTIVE"
  BY SendPortTypes, GuardMoves DEF EnableInv, SendEnablePhase, GuardInv
<1>1. CASE StartBody
  <2>1. UNCHANGED <<sendEnable, sendCtl>> /\ q' = ~q /\ (~q => Resting)
    BY <1>0, <1>1, RackStep, RestingStep DEF StartBody, sendVars
  <2>2. ~q => sendEnable[j].state # "ACTIVE"
    BY <2>1 DEF EnableInv, SendEnablePhase
  <2> QED BY <1>0, <2>1, <2>2
<1>2. CASE \E k \in CondOut : LaunchEnable(k)
  <2> PICK k \in CondOut : LaunchEnable(k) BY <1>2
  <2>1. UNCHANGED <<q, sendCtl>>
    BY DEF LaunchEnable, stageVars
  <2>2. sendEnable'[j] = sendEnable[j] \/ sendEnable'[j] = SendEnableValue(j)
    BY DEF LaunchEnable, WireTypeOK
  <2>3. SendEnableValue(j).state = "ACTIVE" =>
            \/ SendEnableValue(j) = sendEnable[j]
            \/ SendEnableValue(j).data = EnableValue(SendWhen[j], sel)
    BY <1>0 DEF SendEnableValue, EnableSender, EnableSenderStates
  <2> QED BY <1>0, <2>1, <2>2, <2>3
<1>3. CASE \E k \in CondOut : EvaluateEnSend(k)
  <2> PICK k \in CondOut : EvaluateEnSend(k) BY <1>3
  <2>1. UNCHANGED <<q, sendEnable>>
    BY DEF EvaluateEnSend
  <2>2. sendCtl'[j] = sendCtl[j] \/ sendCtl'[j] = SendCtlValue(j)
    BY DEF EvaluateEnSend, WireTypeOK
  <2>3. ASSUME sendCtl'[j].state = "WAIT_BODY", sendCtl'[j] = SendCtlValue(j)
        PROVE  sendCtl'[j].enabled = EnableValue(SendWhen[j], guard)
    <3>1. q
      BY <2>1, <2>3, SendEnableStep DEF SendEnablePhase
    <3>2. CASE sendCtl[j].state = "IDLE"
      <4>1. sendEnable[j].state = "ACTIVE" /\ sendCtl'[j].enabled = sendEnable[j].data
        BY <1>0, <2>3, <3>2 DEF SendCtlValue, EnSend, EnSendIdle
      <4> QED BY <1>0, <3>1, <4>1
    <3>3. CASE sendCtl[j].state = "WAIT_BODY"
      <4>1. sendCtl'[j].enabled = sendCtl[j].enabled
        BY <1>0, <2>3, <3>3 DEF SendCtlValue, EnSend, EnSendWaitBody, EnSendStates
      <4> QED BY <1>0, <3>3, <4>1
    <3>4. CASE sendCtl[j].state = "ACTIVE"
      BY <2>3, <3>4 DEF SendCtlValue, EnSend, EnSendActive
    <3> QED BY <1>0, <3>2, <3>3, <3>4 DEF EnSendStates
  <2>4. sendCtl'[j].state = "WAIT_BODY" => q
    BY <2>1, SendEnableStep DEF SendEnablePhase
  <2> QED BY <1>0, <2>1, <2>2, <2>3, <2>4
<1>4. CASE UNCHANGED <<q, sendEnable, sendCtl>>
  BY <1>0, <1>4
<1> QED
  BY <1>1, <1>2, <1>3, <1>4
  DEF StepCases, BodyGateStep, bodyOnly, ReleaseReset, SwitchReqCell, SwitchAckCell, PassLatch,
      EndBodyDelay, EndDelay, CaptureEnable, EvaluateEnReceive, PassRecvStorage, EndRecvDelay,
      PassSendStorage, EndSendDelay, Offer, Retract, OfferExternal, RetractExternal, Take,
      Release, TakeExternal, ReleaseExternal, ChangeSel, AssertReset, vars, stageVars, sendVars

\* The guard invariant is inductive when sel is held.
LEMMA GuardStep ==
  SelHeld /\ WireTypeOK /\ ControlInv /\ EnableInv /\ GuardInv /\ [Next]_vars => GuardInv'
  BY StepsOfNext, GuardMoves, RecvGuardStep, SendGuardStep DEF GuardInv

-----------------------------------------------------------------------------
(***************************************************************************)
(* Results owed.  An unconditional receiver takes its result from the BODY;*)
(* a conditional one takes it from its EN_SEND stage, which may still be   *)
(* offering the last result while the BODY works on the next.              *)
(***************************************************************************)
Owed(j) == (IF Offered(j) THEN 1 ELSE 0) + (IF Pending(j) THEN 1 ELSE 0)

\* At first nobody is owed anything.
LEMMA OwedInit == Init => OwedInv
  BY DEF Init, StageInit, OwedInv, Offered, Pending, EnSendReset

\* A queue that grows at its end and shrinks at its head.
LEMMA QueueEnds ==
  ASSUME NEW S, NEW s \in Seq(S)
  PROVE  /\ Len(s) \in Nat /\ (s = <<>> <=> Len(s) = 0)
         /\ s # <<>> => /\ Head(s) = s[1]
                        /\ Len(Tail(s)) = Len(s) - 1
                        /\ Len(s) > 1 => Tail(s)[Len(s) - 1] = s[Len(s)]
  OBVIOUS

\* The start of a transaction adds one result to every enabled output's queue.
LEMMA QueueGrows ==
  ASSUME NEW S, NEW s \in Seq(S), NEW x \in S
  PROVE  /\ Len(Append(s, x)) = Len(s) + 1 /\ Append(s, x)[Len(s) + 1] = x
         /\ s # <<>> => Head(Append(s, x)) = Head(s)
  OBVIOUS

\* The values of an enable are Boolean, and "always" is always enabled.
LEMMA SendValues ==
  ASSUME NEW j \in Outputs, NEW v
  PROVE  /\ EnableValue(SendWhen[j], v) \in BOOLEAN
         /\ j \notin CondOut => EnableValue(SendWhen[j], v)
  BY DEF EnableValue, CondOut

\* EN_SEND hands a result over exactly when it takes it from the BODY.
LEMMA OwedAtSend ==
  ASSUME SelHeld, WireTypeOK, ControlInv, EnableInv, GuardInv,
         NEW j \in CondOut, EvaluateEnSend(j)
  PROVE  Owed(j)' = Owed(j)
<1> DEFINE c == sendCtl[j]
           d == SendCtlValue(j)
<1>0. /\ c \in EnSendStates /\ d \in EnSendStates /\ sendEnable[j] \in EnableSenderStates
      /\ SendPhase(c, extRreq[j], extRack[j]) /\ outAck[j] = c.bodyAck
      /\ q \in BOOLEAN /\ rreq[j] \in BOOLEAN /\ extRack[j] \in BOOLEAN /\ j \in Outputs
      /\ outAck[j] \in BOOLEAN
      /\ SendEnablePhase(sendEnable[j], c, q, Resting)
      /\ EnableValue(SendWhen[j], guard) \in BOOLEAN
  BY SendPortTypes, ValueTypes, SendValues DEF ControlInv, EnableInv
<1>1. (q /\ outAck[j] => rreq[j]) /\ (~q /\ ~outAck[j] => ~rreq[j])
  BY <1>0 DEF ControlInv, StageInv, OutputPhase
<1>2. /\ sendCtl'[j] = d /\ outAck'[j] = d.bodyAck
      /\ UNCHANGED <<q, guard, extRack, rreq>>
  BY <1>0 DEF EvaluateEnSend, WireTypeOK, StageTypeOK
<1>3. d = EnSend(c, sendEnable[j].req, sendEnable[j].data, rreq[j], extRack[j])
  BY DEF SendCtlValue
<1> HIDE DEF c, d
<1>4. /\ Offered(j) <=> c.externalReq /\ ~extRack[j]
      /\ Offered(j)' <=> d.externalReq /\ ~extRack[j]
      /\ Pending(j) <=> q /\ ~c.bodyAck /\ EnableValue(SendWhen[j], guard)
      /\ Pending(j)' <=> q /\ ~d.bodyAck /\ EnableValue(SendWhen[j], guard)
  BY <1>0, <1>2 DEF Offered, Pending, c
<1>5. CASE c.state = "IDLE"
  <2>1. ~c.bodyAck /\ ~c.externalReq /\ ~extRack[j]
    BY <1>0, <1>5 DEF SendPhase
  <2>2. CASE ~sendEnable[j].req
    BY <1>3, <1>4, <1>5, <2>2 DEF EnSend, EnSendIdle, Owed
  <2>3. CASE sendEnable[j].req /\ rreq[j]
    <3>1. q /\ sendEnable[j].data = EnableValue(SendWhen[j], guard)
      BY <1>0, <1>1, <2>1, <2>3 DEF GuardInv, SendEnablePhase
    <3>2. d.bodyAck /\ d.externalReq = sendEnable[j].data
      BY <1>0, <1>3, <1>5, <2>1, <2>3 DEF EnSend, EnSendIdle, EnableSenderStates
    <3> QED BY <1>4, <2>1, <3>1, <3>2 DEF Owed
  <2>4. CASE sendEnable[j].req /\ ~rreq[j]
    <3>1. ~d.bodyAck /\ ~d.externalReq
      BY <1>0, <1>3, <1>5, <2>1, <2>4 DEF EnSend, EnSendIdle
    <3> QED BY <1>4, <2>1, <3>1 DEF Owed
  <2> QED BY <2>2, <2>3, <2>4
<1>6. CASE c.state = "WAIT_BODY"
  <2>1. ~c.bodyAck /\ ~c.externalReq /\ ~extRack[j]
    BY <1>0, <1>6 DEF SendPhase
  <2>2. q /\ c.enabled = EnableValue(SendWhen[j], guard)
    BY <1>0, <1>6 DEF GuardInv, SendEnablePhase, c
  <2>3. d.bodyAck = rreq[j] /\ d.externalReq = (rreq[j] /\ c.enabled)
    BY <1>0, <1>3, <1>6, <2>1 DEF EnSend, EnSendWaitBody, EnSendStates
  <2> QED BY <1>0, <1>4, <2>1, <2>2, <2>3 DEF Owed
<1>7. CASE c.state = "ACTIVE"
  <2>1. /\ d.bodyAck <=> c.bodyAck /\ rreq[j]
        /\ d.externalReq <=> c.externalReq /\ ~(c.enabled /\ extRack[j])
    BY <1>0, <1>3, <1>7 DEF EnSend, EnSendActive, EnSendStates
  <2> QED BY <1>0, <1>1, <1>4, <2>1 DEF Owed
<1> QED
  BY <1>0, <1>5, <1>6, <1>7 DEF EnSendStates

\* Every step keeps the count of the results owed.
LEMMA OwedStep ==
  ASSUME SelHeld, WireTypeOK, ControlInv, EnableInv, GuardInv, OwedInv, StepCases,
         NEW j \in Outputs
  PROVE  Len(due'[j]) = Owed(j)'
<1>0. /\ Len(due[j]) = Owed(j) /\ due[j] \in Seq([Inputs -> Payload])
      /\ due \in [Outputs -> Seq([Inputs -> Payload])]
      /\ q \in BOOLEAN /\ outAck \in [Outputs -> BOOLEAN]
      /\ q /\ outAck[j] => rreq[j]
      /\ ~q /\ ~outAck[j] => ~rreq[j]
  BY DEF OwedInv, Owed, WireTypeOK, StageTypeOK, ControlInv, StageInv, OutputPhase
<1>1. CASE StartBody
  <2>1. /\ ControllerExcited /\ q' = ~q
        /\ due' = IF q' THEN DueWith(guard') ELSE due
        /\ UNCHANGED <<outAck, sendCtl, extRack>>
    BY <1>1, RackStep DEF StartBody, SwitchController, sendVars
  <2>2. Offered(j)' <=> Offered(j)
    BY <2>1 DEF Offered
  <2>3. CASE q
    <3>1. ~Pending(j) /\ ~Pending(j)'
      BY <2>1, <2>3, ControllerSwitch DEF Pending, WireTypeOK, ControlInv
    <3> QED BY <1>0, <2>1, <2>2, <2>3, <3>1 DEF Owed
  <2>4. CASE ~q
    <3>1. ~outAck'[j] /\ ~Pending(j)
      BY <2>1, <2>4, ControllerSwitch DEF Pending, WireTypeOK, ControlInv
    <3>2. Pending(j)' <=> EnableValue(SendWhen[j], guard')
      BY <2>1, <2>4, <3>1 DEF Pending
    <3>3. Len(due'[j]) = Len(due[j]) + (IF EnableValue(SendWhen[j], guard') THEN 1 ELSE 0)
      <4>1. TransactionResult(guard') \in [Inputs -> Payload]
        BY ResultTypes
      <4>2. due'[j] = IF EnableValue(SendWhen[j], guard')
                        THEN Append(due[j], TransactionResult(guard')) ELSE due[j]
        BY <2>1, <2>4 DEF DueWith
      <4> QED BY <1>0, <4>1, <4>2, QueueGrows
    <3> QED BY <1>0, <2>2, <3>1, <3>2, <3>3 DEF Owed
  <2> QED BY <2>3, <2>4
<1>2. CASE \E i \in CondIn : CaptureEnable(i)
  <2>1. UNCHANGED <<q, outAck, sendCtl, extRack, due>> /\ (q => guard' = guard)
    BY <1>2, GuardMoves DEF CaptureEnable, stageVars, sendVars
  <2>2. (Offered(j)' <=> Offered(j)) /\ (Pending(j)' <=> Pending(j))
    BY <2>1 DEF Offered, Pending
  <2> QED BY <1>0, <2>1, <2>2 DEF Owed
<1>3. CASE \E k \in CondOut : EvaluateEnSend(k)
  <2> PICK k \in CondOut : EvaluateEnSend(k) BY <1>3
  <2>1. UNCHANGED due
    BY DEF EvaluateEnSend
  <2>2. CASE k = j
    BY <1>0, <2>1, <2>2, OwedAtSend
  <2>3. CASE k # j
    <3>1. UNCHANGED <<q, guard, extRack, outAck[j], sendCtl[j]>>
      BY <1>0, <2>3 DEF EvaluateEnSend, WireTypeOK
    <3> QED BY <1>0, <2>1, <3>1 DEF Owed, Offered, Pending
  <2> QED BY <2>2, <2>3
<1>4. CASE \E k \in Outputs : Take(k) \/ Release(k)
  <2> PICK k \in Outputs : Take(k) \/ Release(k) BY <1>4
  <2>1. UNCHANGED <<q, guard, sendCtl, extRack>> /\ k \notin CondOut
    BY DEF Take, Release, sendVars
  <2>2. CASE k # j
    <3>1. UNCHANGED <<outAck[j], due[j]>>
      BY <1>0, <2>2 DEF Take, Release
    <3> QED BY <1>0, <2>1, <3>1 DEF Owed, Offered, Pending
  <2>3. CASE k = j /\ Take(k)
    <3>1. outAck'[j] /\ rreq[j] /\ ~outAck[j] /\ due'[j] = IF due[j] = <<>> THEN due[j] ELSE Tail(due[j])
      BY <1>0, <2>3 DEF Take
    <3>2. ~Offered(j) /\ ~Offered(j)' /\ Pending(j) /\ ~Pending(j)'
      BY <1>0, <2>1, <2>3, <3>1, SendValues DEF Offered, Pending
    <3>3. Len(due[j]) = 1
      BY <1>0, <3>2 DEF Owed
    <3> QED BY <1>0, <3>1, <3>2, <3>3 DEF Owed
  <2>4. CASE k = j /\ Release(k)
    <3>1. outAck[j] /\ ~rreq[j] /\ UNCHANGED due
      BY <2>4 DEF Release
    <3>2. ~Pending(j) /\ ~Pending(j)' /\ ~Offered(j) /\ ~Offered(j)'
      BY <1>0, <2>1, <2>4, <3>1 DEF Pending, Offered
    <3> QED BY <1>0, <3>1, <3>2 DEF Owed
  <2> QED BY <2>2, <2>3, <2>4
<1>5. CASE \E k \in CondOut : TakeExternal(k) \/ ReleaseExternal(k)
  <2> PICK k \in CondOut : TakeExternal(k) \/ ReleaseExternal(k) BY <1>5
  <2>1. UNCHANGED <<q, guard, sendCtl, outAck>> /\ (Pending(j)' <=> Pending(j))
    BY DEF TakeExternal, ReleaseExternal, stageVars, Pending
  <2>2. CASE k # j
    <3>1. UNCHANGED due[j] /\ (j \in CondOut => UNCHANGED extRack[j])
      BY <1>0, <2>2 DEF TakeExternal, ReleaseExternal, WireTypeOK
    <3> QED BY <1>0, <2>1, <3>1 DEF Owed, Offered
  <2>3. CASE k = j /\ TakeExternal(k)
    <3>1. /\ extRreq[j] /\ ~extRack[j] /\ extRack'[j]
          /\ due'[j] = IF due[j] = <<>> THEN due[j] ELSE Tail(due[j])
      BY <1>0, <2>3 DEF TakeExternal, WireTypeOK
    <3>2. Offered(j) /\ ~Offered(j)'
      BY <2>3, <3>1 DEF Offered, ControlInv, SendPhase
    <3>3. Len(due[j]) = 1 + (IF Pending(j) THEN 1 ELSE 0)
      BY <1>0, <3>2 DEF Owed
    <3>4. due[j] # <<>>
      <4>1. Len(due[j]) # 0
        BY <3>3
      <4> QED BY <1>0, <4>1, QueueEnds
    <3>5. Len(due'[j]) = Len(due[j]) - 1
      BY <1>0, <3>1, <3>4, QueueEnds
    <3> QED BY <2>1, <3>2, <3>3, <3>5 DEF Owed
  <2>4. CASE k = j /\ ReleaseExternal(k)
    <3>1. ~extRreq[j] /\ extRack[j] /\ UNCHANGED due
      BY <2>4 DEF ReleaseExternal
    <3>2. ~Offered(j) /\ ~Offered(j)'
      BY <2>1, <2>4, <3>1 DEF Offered, ControlInv, SendPhase
    <3> QED BY <1>0, <2>1, <3>1, <3>2 DEF Owed
  <2> QED BY <2>2, <2>3, <2>4
<1>6. CASE UNCHANGED <<q, guard, outAck, sendCtl, extRack, due>>
  BY <1>0, <1>6 DEF Owed, Offered, Pending
<1> QED
  BY <1>1, <1>2, <1>3, <1>4, <1>5, <1>6
  DEF StepCases, BodyGateStep, bodyOnly, ReleaseReset, SwitchReqCell, SwitchAckCell, PassLatch,
      EndBodyDelay, EndDelay, EvaluateEnReceive, PassRecvStorage, EndRecvDelay, LaunchEnable,
      PassSendStorage, EndSendDelay, Offer, Retract, OfferExternal, RetractExternal,
      ChangeSel, AssertReset, vars, stageVars, sendVars

\* sel held: what every transaction of the module relies on.
HeldInv == WireTypeOK /\ ControlInv /\ EnableInv /\ GuardInv /\ OwedInv

\* Types, control, enable channels, guards and counts together are inductive.
LEMMA HeldStep == SelHeld /\ HeldInv /\ [Next]_vars => HeldInv'
<1> SUFFICES ASSUME SelHeld, HeldInv, [Next]_vars PROVE HeldInv'
  OBVIOUS
<1>1. WireTypeOK' /\ ControlInv' /\ EnableInv' /\ GuardInv'
  BY WireTypeStep, ControlStep, EnableStep, GuardStep DEF HeldInv
<1>2. OwedInv'
  BY StepsOfNext, OwedStep DEF HeldInv, OwedInv, Owed
<1> QED
  BY <1>1, <1>2 DEF HeldInv

\* With sel held, all conditions of a transaction read one value of it, and a
\* receiver is owed what the BODY has not handed over and what EN_SEND offers.
THEOREM HeldInvCorrect == ASSUME SelHeld PROVE Spec => []HeldInv
<1>1. Init => HeldInv
  BY WireTypeInit, ControlInit, EnableInit, GuardInit, OwedInit DEF HeldInv
<1>2. HeldInv /\ [Next]_vars => HeldInv'
  BY HeldStep
<1> QED
  BY <1>1, <1>2, PTL DEF Spec

\* While sel is held through a transaction, no receiver is ever owed more than
\* the result its EN_SEND stage is offering and the one the BODY is computing.
THEOREM TypeCorrect == ASSUME SelHeld PROVE Spec => []TypeOK
<1>1. ASSUME HeldInv PROVE TypeOK
  <2>1. ASSUME NEW j \in Outputs PROVE Len(due[j]) \in 0..2
    <3>1. Len(due[j]) = (IF Offered(j) THEN 1 ELSE 0) + (IF Pending(j) THEN 1 ELSE 0)
      BY <1>1 DEF HeldInv, OwedInv
    <3>2. Len(due[j]) = 0 \/ Len(due[j]) = 1 \/ Len(due[j]) = 2
      BY <3>1
    <3> QED BY <3>2
  <2> QED BY <1>1, <2>1 DEF HeldInv, WireTypeOK, TypeOK
<1> QED
  BY <1>1, HeldInvCorrect, PTL
=============================================================================
