-------------------- MODULE ConditionalTransactionProofs --------------------
(***************************************************************************)
(* TLAPS proofs about the control of ConditionalTransaction for every      *)
(* number of inputs and outputs, every choice of conditional ports, every  *)
(* pace of the partners, sel held or not, and any reset that SafeToReset   *)
(* allows.                                                                 *)
(***************************************************************************)
EXTENDS ConditionalInvariants, BodyStageProofs

(***************************************************************************)
(* The steps of Next, named once for the case splits below.                *)
(***************************************************************************)
BodyGateStep ==
    /\ \/ ReleaseReset
       \/ \E k \in ReqCells : SwitchReqCell(k)
       \/ \E k \in AckCells : SwitchAckCell(k)
       \/ \E j \in Outputs : PassLatch(j)
    /\ UNCHANGED bodyOnly

StepCases ==
    \/ BodyGateStep
    \/ StartBody
    \/ \E j \in Outputs : EndBodyDelay(j)
    \/ \E i \in CondIn : CaptureEnable(i)
    \/ \E i \in CondIn : EvaluateEnReceive(i)
    \/ \E i \in CondIn : PassRecvStorage(i)
    \/ \E i \in CondIn : EndRecvDelay(i)
    \/ \E j \in CondOut : LaunchEnable(j)
    \/ \E j \in CondOut : EvaluateEnSend(j)
    \/ \E j \in CondOut : PassSendStorage(j)
    \/ \E j \in CondOut : EndSendDelay(j)
    \/ \E i \in Inputs : Offer(i) \/ Retract(i)
    \/ \E i \in CondIn : OfferExternal(i)
    \/ \E i \in CondIn : RetractExternal(i)
    \/ \E j \in Outputs : Take(j) \/ Release(j)
    \/ \E j \in CondOut : TakeExternal(j)
    \/ \E j \in CondOut : ReleaseExternal(j)
    \/ ChangeSel
    \/ AssertReset
    \/ UNCHANGED vars

\* Every step of the network is one of the named cases.
LEMMA StepsOfNext == [Next]_vars => StepCases
<1> SUFFICES ASSUME [Next]_vars PROVE StepCases
  OBVIOUS
<1> USE DEF StepCases
<1>1. CASE GateStep
  BY <1>1 DEF GateStep, BodyGateStep
<1>2. CASE ~GateStep
  BY <1>2 DEF Next, SenderStep, ReceiverStep, ExternalSenderStep, ExternalReceiverStep
<1> QED
  BY <1>1, <1>2

\* The BODY's own steps are steps of the stage.
LEMMA StageStepsOfBody ==
  BodyGateStep \/ StartBody \/ (\E j \in Outputs : EndBodyDelay(j)) => StageSteps
  BY DEF BodyGateStep, StartBody, EndBodyDelay, StageSteps

-----------------------------------------------------------------------------
(***************************************************************************)
(* The controllers.                                                        *)
(***************************************************************************)

\* An enable sender stays within its states.
LEMMA EnableSenderType ==
  ASSUME NEW s \in EnableSenderStates, NEW value \in BOOLEAN, NEW launch, NEW ack
  PROVE  EnableSender(s, value, launch, ack) \in EnableSenderStates
  BY DEF EnableSender, EnableSenderStates

\* EN_RECV stays within its states.
LEMMA EnReceiveType ==
  ASSUME NEW c \in EnReceiveStates, NEW enableReq, NEW enableData \in BOOLEAN,
         NEW externalReq, NEW bodyAck
  PROVE  EnReceive(c, enableReq, enableData, externalReq, bodyAck) \in EnReceiveStates
<1>1. CASE c.state = "IDLE"
  BY <1>1 DEF EnReceive, EnReceiveIdle, EnReceiveStates
<1>2. CASE c.state = "WAIT_EXTERNAL"
  BY <1>2 DEF EnReceive, EnReceiveWaitExternal, EnReceiveStates
<1>3. CASE c.state = "WAIT_BODY"
  BY <1>3 DEF EnReceive, EnReceiveWaitBody, EnReceiveStates
<1> QED
  BY <1>1, <1>2, <1>3 DEF EnReceiveStates

\* EN_SEND stays within its states.
LEMMA EnSendType ==
  ASSUME NEW c \in EnSendStates, NEW enableReq, NEW enableData \in BOOLEAN,
         NEW bodyReq, NEW externalAck
  PROVE  EnSend(c, enableReq, enableData, bodyReq, externalAck) \in EnSendStates
<1>1. CASE c.state = "IDLE"
  BY <1>1 DEF EnSend, EnSendIdle, EnSendStates
<1>2. CASE c.state = "WAIT_BODY"
  BY <1>2 DEF EnSend, EnSendWaitBody, EnSendStates
<1>3. CASE c.state = "ACTIVE"
  BY <1>3 DEF EnSend, EnSendActive, EnSendStates
<1> QED
  BY <1>1, <1>2, <1>3 DEF EnSendStates

\* EN_RECV moves its external acknowledge only to follow the request.
LEMMA EnReceiveFollows ==
  ASSUME NEW c \in EnReceiveStates, NEW enableReq, NEW enableData \in BOOLEAN,
         NEW externalReq \in BOOLEAN, NEW bodyAck,
         EnReceive(c, enableReq, enableData, externalReq, bodyAck).externalAck # c.externalAck
  PROVE  EnReceive(c, enableReq, enableData, externalReq, bodyAck).externalAck = externalReq
<1>1. CASE c.state = "IDLE"
  BY <1>1 DEF EnReceive, EnReceiveIdle, EnReceiveStates
<1>2. CASE c.state = "WAIT_EXTERNAL"
  BY <1>2 DEF EnReceive, EnReceiveWaitExternal, EnReceiveStates
<1>3. CASE c.state = "WAIT_BODY"
  BY <1>3 DEF EnReceive, EnReceiveWaitBody, EnReceiveStates
<1> QED
  BY <1>1, <1>2, <1>3 DEF EnReceiveStates

\* One evaluation of EN_RECV keeps its place in the BODY's handshake: q is the
\* BODY's acknowledge, r the delayed BODY request.
LEMMA EnReceiveControl ==
  ASSUME NEW c \in EnReceiveStates, NEW enableReq \in BOOLEAN, NEW enableData \in BOOLEAN,
         NEW externalReq \in BOOLEAN, NEW ack \in BOOLEAN, NEW r \in BOOLEAN,
         RecvPhase(c, r, ack),
         NEW d, d = EnReceive(c, enableReq, enableData, externalReq, ack)
  PROVE  RecvPhase(d, r, ack)
<1>1. CASE c.state = "IDLE"
  BY <1>1 DEF EnReceive, EnReceiveIdle, EnReceiveStates, RecvPhase
<1>2. CASE c.state = "WAIT_EXTERNAL"
  BY <1>2 DEF EnReceive, EnReceiveWaitExternal, EnReceiveStates, RecvPhase
<1>3. CASE c.state = "WAIT_BODY"
  BY <1>3 DEF EnReceive, EnReceiveWaitBody, EnReceiveStates, RecvPhase
<1> QED
  BY <1>1, <1>2, <1>3 DEF EnReceiveStates

\* Registers of a controller that agree on every field are equal.
LEMMA EnReceiveSame ==
  ASSUME NEW c \in EnReceiveStates, NEW d \in EnReceiveStates,
         c.state = d.state, c.enabled <=> d.enabled, c.enableAck <=> d.enableAck,
         c.externalAck <=> d.externalAck, c.bodyReq <=> d.bodyReq
  PROVE  c = d
  BY DEF EnReceiveStates

\* The same for EN_SEND.
LEMMA EnSendSame ==
  ASSUME NEW c \in EnSendStates, NEW d \in EnSendStates,
         c.state = d.state, c.enabled <=> d.enabled, c.enableAck <=> d.enableAck,
         c.bodyAck <=> d.bodyAck, c.externalReq <=> d.externalReq
  PROVE  c = d
  BY DEF EnSendStates

\* A second evaluation of EN_RECV changes nothing.
LEMMA EnReceiveOnce ==
  ASSUME NEW c \in EnReceiveStates, NEW enableReq \in BOOLEAN, NEW enableData \in BOOLEAN,
         NEW externalReq \in BOOLEAN, NEW ack \in BOOLEAN,
         ack => c.state = "WAIT_BODY",
         c.externalAck => c.state = "WAIT_BODY" /\ c.enabled,
         c.bodyReq => c.state = "WAIT_BODY",
         NEW d, d = EnReceive(c, enableReq, enableData, externalReq, ack)
  PROVE  EnReceive(d, enableReq, enableData, externalReq, ack) = d
<1>0. /\ d \in EnReceiveStates
      /\ EnReceive(d, enableReq, enableData, externalReq, ack) \in EnReceiveStates
  BY EnReceiveType
<1>1. CASE c.state = "IDLE"
  <2>1. CASE ~enableReq
    BY <1>1, <2>1 DEF EnReceive, EnReceiveIdle
  <2>2. CASE enableReq /\ (enableData => externalReq)
    <3>1. /\ d.state = "WAIT_BODY" /\ (d.enabled <=> enableData) /\ d.enableAck
          /\ (d.externalAck <=> enableData) /\ d.bodyReq /\ ~ack
      BY <1>1, <2>2 DEF EnReceive, EnReceiveIdle, EnReceiveStates
    <3> DEFINE e == EnReceive(d, enableReq, enableData, externalReq, ack)
    <3>2. /\ e.state = d.state /\ (e.enabled <=> d.enabled) /\ (e.enableAck <=> d.enableAck)
          /\ (e.externalAck <=> d.externalAck) /\ (e.bodyReq <=> d.bodyReq)
      BY <2>2, <3>1 DEF EnReceive, EnReceiveWaitBody
    <3> QED
      BY <1>0, <3>2, EnReceiveSame
  <2>3. CASE enableReq /\ ~(enableData => externalReq)
    <3>1. /\ d.state = "WAIT_EXTERNAL" /\ d.enabled /\ d.enableAck
          /\ ~d.externalAck /\ ~d.bodyReq /\ ~externalReq
      BY <1>1, <2>3 DEF EnReceive, EnReceiveIdle, EnReceiveStates
    <3> DEFINE e == EnReceive(d, enableReq, enableData, externalReq, ack)
    <3>2. /\ e.state = d.state /\ (e.enabled <=> d.enabled) /\ (e.enableAck <=> d.enableAck)
          /\ (e.externalAck <=> d.externalAck) /\ (e.bodyReq <=> d.bodyReq)
      BY <1>0, <2>3, <3>1 DEF EnReceive, EnReceiveWaitExternal, EnReceiveStates
    <3> QED
      BY <1>0, <3>2, EnReceiveSame
  <2> QED BY <2>1, <2>2, <2>3
<1>2. CASE c.state = "WAIT_EXTERNAL"
  <2>1. d = [c EXCEPT !.state       = IF externalReq THEN "WAIT_BODY" ELSE @,
                      !.enableAck   = @ /\ enableReq,
                      !.externalAck = @ \/ externalReq,
                      !.bodyReq     = @ \/ externalReq]
    BY <1>2 DEF EnReceive, EnReceiveWaitExternal
  <2> QED
    BY <1>2, <2>1 DEF EnReceive, EnReceiveWaitExternal, EnReceiveWaitBody, EnReceiveStates
<1>3. CASE c.state = "WAIT_BODY"
  <2>1. d = EnReceiveWaitBody(c, enableReq, externalReq, ack)
    BY <1>3 DEF EnReceive
  <2>2. CASE d.state = "IDLE"
    <3>1. ~enableReq
      BY <2>1, <2>2 DEF EnReceiveWaitBody
    <3> QED BY <2>2, <3>1 DEF EnReceive, EnReceiveIdle
  <2>3. CASE d.state = "WAIT_BODY"
    BY <1>3, <2>1, <2>3 DEF EnReceive, EnReceiveWaitBody, EnReceiveStates
  <2> QED BY <2>1, <2>2, <2>3 DEF EnReceiveWaitBody
<1> QED
  BY <1>1, <1>2, <1>3 DEF EnReceiveStates

\* One evaluation of EN_SEND keeps the phase of its two handshakes, given the
\* delayed request r and the acknowledge a of the external Channel.
LEMMA EnSendControl ==
  ASSUME NEW c \in EnSendStates, NEW enableReq \in BOOLEAN, NEW enableData \in BOOLEAN,
         NEW bodyReq \in BOOLEAN, NEW r \in BOOLEAN, NEW a \in BOOLEAN,
         SendPhase(c, r, a),
         NEW d, d = EnSend(c, enableReq, enableData, bodyReq, a)
  PROVE  /\ SendPhase(d, r, a)
         /\ d.bodyAck # c.bodyAck => d.bodyAck = bodyReq
<1>1. CASE c.state = "IDLE"
  BY <1>1 DEF EnSend, EnSendIdle, EnSendStates, SendPhase
<1>2. CASE c.state = "WAIT_BODY"
  BY <1>2 DEF EnSend, EnSendWaitBody, EnSendStates, SendPhase
<1>3. CASE c.state = "ACTIVE"
  BY <1>3 DEF EnSend, EnSendActive, EnSendStates, SendPhase
<1> QED
  BY <1>1, <1>2, <1>3 DEF EnSendStates

\* A second evaluation of EN_SEND changes nothing, the external Channel being
\* quiet when it is launched.
LEMMA EnSendOnce ==
  ASSUME NEW c \in EnSendStates, NEW enableReq \in BOOLEAN, NEW enableData \in BOOLEAN,
         NEW bodyReq \in BOOLEAN, NEW a \in BOOLEAN,
         c.bodyAck => c.state = "ACTIVE",
         ~(c.state = "ACTIVE" /\ c.enabled) => ~c.externalReq /\ ~a,
         NEW d, d = EnSend(c, enableReq, enableData, bodyReq, a)
  PROVE  EnSend(d, enableReq, enableData, bodyReq, a) = d
<1>0. /\ d \in EnSendStates
      /\ EnSend(d, enableReq, enableData, bodyReq, a) \in EnSendStates
  BY EnSendType
<1>1. CASE c.state = "IDLE"
  <2>1. CASE ~enableReq
    BY <1>1, <2>1 DEF EnSend, EnSendIdle
  <2>2. CASE enableReq
    <3>1. /\ (d.enabled <=> enableData) /\ d.enableAck /\ (d.bodyAck <=> bodyReq)
          /\ (d.externalReq <=> bodyReq /\ enableData) /\ ~a
      BY <1>1, <2>2 DEF EnSend, EnSendIdle, EnSendStates
    <3> DEFINE e == EnSend(d, enableReq, enableData, bodyReq, a)
    <3>2. CASE bodyReq
      <4>1. d.state = "ACTIVE"
        BY <1>1, <2>2, <3>2 DEF EnSend, EnSendIdle
      <4>2. /\ e.state = d.state /\ (e.enabled <=> d.enabled)
            /\ (e.enableAck <=> d.enableAck)
            /\ (e.bodyAck <=> d.bodyAck) /\ (e.externalReq <=> d.externalReq)
        BY <2>2, <3>1, <3>2, <4>1 DEF EnSend, EnSendActive
      <4> QED BY <1>0, <4>2, EnSendSame
    <3>3. CASE ~bodyReq
      <4>1. d.state = "WAIT_BODY"
        BY <1>1, <2>2, <3>3 DEF EnSend, EnSendIdle
      <4>2. /\ e.state = d.state /\ (e.enabled <=> d.enabled)
            /\ (e.enableAck <=> d.enableAck)
            /\ (e.bodyAck <=> d.bodyAck) /\ (e.externalReq <=> d.externalReq)
        BY <1>0, <2>2, <3>1, <3>3, <4>1 DEF EnSend, EnSendWaitBody, EnSendStates
      <4> QED BY <1>0, <4>2, EnSendSame
    <3> QED BY <3>2, <3>3
  <2> QED BY <2>1, <2>2
<1>2. CASE c.state = "WAIT_BODY"
  <2>1. d = EnSendWaitBody(c, enableReq, bodyReq)
    BY <1>2 DEF EnSend
  <2> QED
    BY <1>2, <2>1 DEF EnSend, EnSendWaitBody, EnSendActive, EnSendStates
<1>3. CASE c.state = "ACTIVE"
  <2>1. d = EnSendActive(c, enableReq, bodyReq, a)
    BY <1>3 DEF EnSend
  <2>2. CASE d.state = "IDLE"
    <3>1. ~enableReq
      BY <2>1, <2>2 DEF EnSendActive
    <3> QED BY <2>2, <3>1 DEF EnSend, EnSendIdle
  <2>3. CASE d.state = "ACTIVE"
    BY <1>3, <2>1, <2>3 DEF EnSend, EnSendActive, EnSendStates
  <2> QED BY <2>1, <2>2, <2>3 DEF EnSendActive
<1> QED
  BY <1>1, <1>2, <1>3 DEF EnSendStates

\* Nor does a second evaluation of an enable sender.
LEMMA EnableSenderOnce ==
  ASSUME NEW s \in EnableSenderStates, NEW value, NEW launch, NEW ack
  PROVE  EnableSender(EnableSender(s, value, launch, ack), value, launch, ack)
             = EnableSender(s, value, launch, ack)
  BY DEF EnableSender, EnableSenderStates

-----------------------------------------------------------------------------
(***************************************************************************)
(* Types.                                                                  *)
(***************************************************************************)
LEMMA ValueTypes ==
  ASSUME WireTypeOK
  PROVE  /\ \A i \in CondIn : /\ RecvEnableValue(i) \in EnableSenderStates
                              /\ RecvCtlValue(i) \in EnReceiveStates
         /\ \A j \in CondOut : /\ SendEnableValue(j) \in EnableSenderStates
                               /\ SendCtlValue(j) \in EnSendStates
<1>1. ASSUME NEW i \in CondIn
      PROVE  RecvEnableValue(i) \in EnableSenderStates /\ RecvCtlValue(i) \in EnReceiveStates
  <2>1. /\ EnableValue(RecvWhen[i], sel) \in BOOLEAN
        /\ recvEnable[i] \in EnableSenderStates /\ recvEnable[i].data \in BOOLEAN
        /\ recvCtl[i] \in EnReceiveStates
    BY DEF EnableValue, WireTypeOK, EnableSenderStates
  <2> QED
    BY <2>1, EnableSenderType, EnReceiveType DEF RecvEnableValue, RecvCtlValue
<1>2. ASSUME NEW j \in CondOut
      PROVE  SendEnableValue(j) \in EnableSenderStates /\ SendCtlValue(j) \in EnSendStates
  <2>1. /\ EnableValue(SendWhen[j], sel) \in BOOLEAN
        /\ sendEnable[j] \in EnableSenderStates /\ sendEnable[j].data \in BOOLEAN
        /\ sendCtl[j] \in EnSendStates
    BY DEF EnableValue, WireTypeOK, EnableSenderStates
  <2> QED
    BY <2>1, EnableSenderType, EnSendType DEF SendEnableValue, SendCtlValue
<1> QED
  BY <1>1, <1>2

\* Conditional ports are ports.
LEMMA CondPorts == CondIn \subseteq Inputs /\ CondOut \subseteq Outputs
  BY DEF CondIn, CondOut

\* A sender's next token is a token.
LEMMA NextTokenType ==
  ASSUME WireTypeOK, NEW i \in Inputs PROVE NextToken(i) \in 0..Tokens
  BY ConditionAssumption DEF NextToken, WireTypeOK

\* What a transaction owes its receivers are vectors of payloads.
LEMMA ResultTypes ==
  ASSUME WireTypeOK, NEW v
  PROVE  /\ TransactionResult(v) \in [Inputs -> Payload]
         /\ DueWith(v) \in [Outputs -> Seq([Inputs -> Payload])]
<1>1. TransactionResult(v) \in [Inputs -> Payload]
  BY ConditionAssumption DEF TransactionResult, WireTypeOK, Payload, Dummy
<1> QED
  BY <1>1 DEF DueWith, WireTypeOK

\* The reset values have their types.
LEMMA WireTypeInit == Init => WireTypeOK
<1> SUFFICES ASSUME Init PROVE WireTypeOK
  OBVIOUS
<1>1. /\ EnableSenderReset \in EnableSenderStates
      /\ EnReceiveReset \in EnReceiveStates
      /\ EnSendReset \in EnSendStates
  BY DEF EnableSenderReset, EnableSenderStates, EnReceiveReset, EnReceiveStates,
         EnSendReset, EnSendStates
<1>2. NoToken \in Payload /\ 0 \in 0..Tokens
  BY ConditionAssumption DEF NoToken, Payload
<1>3. <<>> \in Seq([Inputs -> Payload])
  OBVIOUS
<1>4. StageTypeOK
  BY StageTypeInit DEF Init
<1> QED
  BY <1>1, <1>2, <1>3, <1>4 DEF Init, WireTypeOK

\* Every step keeps the types.
LEMMA WireTypeStep == WireTypeOK /\ [Next]_vars => WireTypeOK'
<1> SUFFICES ASSUME WireTypeOK, StepCases PROVE WireTypeOK'
  BY StepsOfNext
<1>0. StageTypeOK
  BY DEF WireTypeOK
<1>1. CASE BodyGateStep
  <2>1. StageTypeOK'
    BY <1>0, <1>1, StageStepsOfBody, StageTypeStep
  <2> QED
    BY <1>1, <2>1 DEF BodyGateStep, bodyOnly, recvVars, sendVars, WireTypeOK
<1>2. CASE StartBody
  <2>1. StageTypeOK'
    BY <1>0, <1>2, StageStepsOfBody, StageTypeStep
  <2>2. guard' \in BOOLEAN
    BY <1>2 DEF StartBody, WireTypeOK
  <2>3. due' \in [Outputs -> Seq([Inputs -> Payload])]
    BY <1>2, ResultTypes DEF StartBody, WireTypeOK
  <2> QED
    BY <1>2, <2>1, <2>2, <2>3 DEF StartBody, recvVars, sendVars, WireTypeOK
<1>3. CASE \E j \in Outputs : EndBodyDelay(j)
  <2>1. StageTypeOK'
    BY <1>0, <1>3, StageStepsOfBody, StageTypeStep
  <2> QED
    BY <1>3, <2>1 DEF EndBodyDelay, recvVars, sendVars, WireTypeOK
<1> USE CondPorts DEF WireTypeOK, StageTypeOK
<1>4. CASE \E i \in CondIn : CaptureEnable(i)
  BY <1>4, ValueTypes DEF CaptureEnable, stageVars, sendVars
<1>5. CASE \E i \in CondIn : EvaluateEnReceive(i)
  BY <1>5, ValueTypes DEF EvaluateEnReceive, stageVars, sendVars
<1>6. CASE \E i \in CondIn : PassRecvStorage(i)
  <2> PICK i \in CondIn : PassRecvStorage(i) BY <1>6
  <2>1. RecvStorageData(i) \in Payload
    BY DEF RecvStorageData, Payload, Dummy
  <2> QED BY <2>1 DEF PassRecvStorage, recvVars, sendVars
<1>7. CASE \E i \in CondIn : EndRecvDelay(i)
  <2> PICK i \in CondIn : EndRecvDelay(i) BY <1>7
  <2>1. recvCtl[i].bodyReq \in BOOLEAN
    BY DEF EnReceiveStates
  <2> QED BY <2>1 DEF EndRecvDelay, recvVars, sendVars
<1>8. CASE \E j \in CondOut : LaunchEnable(j)
  BY <1>8, ValueTypes DEF LaunchEnable, stageVars, recvVars
<1>9. CASE \E j \in CondOut : EvaluateEnSend(j)
  <2> PICK j \in CondOut : EvaluateEnSend(j) BY <1>9
  <2>1. SendCtlValue(j) \in EnSendStates /\ SendCtlValue(j).bodyAck \in BOOLEAN
    BY ValueTypes DEF EnSendStates
  <2> QED BY <2>1 DEF EvaluateEnSend, recvVars
<1>10. CASE \E j \in CondOut : PassSendStorage(j)
  BY <1>10 DEF PassSendStorage, stageVars, recvVars
<1>11. CASE \E j \in CondOut : EndSendDelay(j)
  <2> PICK j \in CondOut : EndSendDelay(j) BY <1>11
  <2>1. sendCtl[j].externalReq \in BOOLEAN
    BY DEF EnSendStates
  <2> QED BY <2>1 DEF EndSendDelay, stageVars, recvVars
<1>12. CASE \E i \in Inputs : Offer(i) \/ Retract(i)
  <2> PICK i \in Inputs : Offer(i) \/ Retract(i) BY <1>12
  <2>1. NextToken(i) \in 0..Tokens /\ NextToken(i) \in Payload
    BY NextTokenType, ConditionAssumption DEF Payload
  <2>2. CASE Offer(i)
    BY <2>1, <2>2 DEF Offer, recvVars, sendVars
  <2>3. CASE Retract(i)
    BY <2>3 DEF Retract, recvVars, sendVars
  <2> QED BY <2>2, <2>3
<1>13. CASE \E i \in CondIn : OfferExternal(i)
  <2> PICK i \in CondIn : OfferExternal(i) BY <1>13
  <2>1. NextToken(i) \in 0..Tokens /\ NextToken(i) \in Payload
    BY NextTokenType, ConditionAssumption DEF Payload
  <2> QED BY <2>1 DEF OfferExternal, stageVars, sendVars
<1>14. CASE \E i \in CondIn : RetractExternal(i)
  BY <1>14 DEF RetractExternal, stageVars, sendVars, NoToken, Payload
<1>15. CASE \E j \in Outputs : Take(j) \/ Release(j)
  <2> PICK j \in Outputs : Take(j) \/ Release(j) BY <1>15
  <2>1. (IF due[j] = <<>> THEN due[j] ELSE Tail(due[j])) \in Seq([Inputs -> Payload])
    OBVIOUS
  <2>2. CASE Take(j)
    BY <2>1, <2>2 DEF Take, recvVars, sendVars
  <2>3. CASE Release(j)
    BY <2>3 DEF Release, recvVars, sendVars
  <2> QED BY <2>2, <2>3
<1>16. CASE \E j \in CondOut : TakeExternal(j)
  <2> PICK j \in CondOut : TakeExternal(j) BY <1>16
  <2>1. (IF due[j] = <<>> THEN due[j] ELSE Tail(due[j])) \in Seq([Inputs -> Payload])
    OBVIOUS
  <2> QED BY <2>1 DEF TakeExternal, stageVars, recvVars
<1>17. CASE \E j \in CondOut : ReleaseExternal(j)
  BY <1>17 DEF ReleaseExternal, stageVars, recvVars
<1>18. CASE ChangeSel
  BY <1>18 DEF ChangeSel, stageVars, recvVars, sendVars
<1>19. CASE AssertReset
  BY <1>19 DEF AssertReset, recvVars, sendVars
<1>20. CASE UNCHANGED vars
  BY <1>20 DEF vars, stageVars, recvVars, sendVars
<1> QED
  BY <1>1, <1>2, <1>3, <1>4, <1>5, <1>6, <1>7, <1>8, <1>9, <1>10, <1>11, <1>12, <1>13,
     <1>14, <1>15, <1>16, <1>17, <1>18, <1>19, <1>20 DEF StepCases

\* Wires, registers, payloads and the queues of results owed have their types.
THEOREM WireTypeCorrect == Spec => []WireTypeOK
  BY WireTypeInit, WireTypeStep, PTL DEF Spec

-----------------------------------------------------------------------------
(***************************************************************************)
(* Control.                                                                *)
(***************************************************************************)
LEMMA ControlInit == Init => ControlInv
<1> SUFFICES ASSUME Init PROVE ControlInv
  OBVIOUS
<1>1. StageInv
  BY StageControlInit DEF Init
<1>2. ASSUME NEW i \in CondIn PROVE RecvPhase(recvCtl[i], inReq[i], q)
  BY CondPorts DEF Init, StageInit, RecvPhase, EnReceiveReset
<1>3. ASSUME NEW j \in CondOut
      PROVE  outAck[j] = sendCtl[j].bodyAck /\ SendPhase(sendCtl[j], extRreq[j], extRack[j])
  BY CondPorts DEF Init, StageInit, SendPhase, EnSendReset
<1> QED
  BY <1>1, <1>2, <1>3 DEF ControlInv

(***************************************************************************)
(* What one evaluation of the controller of a port leaves.                 *)
(***************************************************************************)
LEMMA RecvCtlPhase ==
  ASSUME WireTypeOK, ControlInv, NEW i \in CondIn
  PROVE  RecvPhase(RecvCtlValue(i), inReq[i], q)
<1>1. /\ recvCtl[i] \in EnReceiveStates /\ extReq[i] \in BOOLEAN
      /\ recvEnable[i].req \in BOOLEAN /\ recvEnable[i].data \in BOOLEAN
      /\ q \in BOOLEAN /\ inReq[i] \in BOOLEAN
  BY CondPorts DEF WireTypeOK, StageTypeOK, EnableSenderStates
<1> QED
  BY <1>1, EnReceiveControl DEF ControlInv, RecvCtlValue, base_Lack

\* An evaluation of EN_SEND keeps its phase and acknowledges only the BODY's request.
LEMMA SendCtlPhase ==
  ASSUME WireTypeOK, ControlInv, NEW j \in CondOut
  PROVE  /\ SendPhase(SendCtlValue(j), extRreq[j], extRack[j])
         /\ SendCtlValue(j).bodyAck # sendCtl[j].bodyAck => SendCtlValue(j).bodyAck = rreq[j]
<1>1. /\ sendCtl[j] \in EnSendStates /\ extRreq[j] \in BOOLEAN /\ extRack[j] \in BOOLEAN
      /\ sendEnable[j].req \in BOOLEAN /\ sendEnable[j].data \in BOOLEAN
      /\ rreq[j] \in BOOLEAN
  BY CondPorts DEF WireTypeOK, StageTypeOK, EnableSenderStates
<1> QED
  BY <1>1, EnSendControl DEF ControlInv, SendCtlValue

(***************************************************************************)
(* An external or an EN_RECV request moves away from q, and an external or *)
(* an EN_SEND acknowledge follows its request.                             *)
(***************************************************************************)
LEMMA RequestStep ==
  ASSUME WireTypeOK, ControlInv, NEW i \in Inputs,
         Offer(i) \/ Retract(i) \/ (i \in CondIn /\ EndRecvDelay(i))
  PROVE  /\ inReq' = [inReq EXCEPT ![i] = ~q]
         /\ UNCHANGED <<reset_n, reqRed, q, rreq, outAck, ackRed>>
<1>1. CASE Offer(i)
  BY <1>1 DEF Offer, base_Lack, WireTypeOK, StageTypeOK
<1>2. CASE Retract(i)
  BY <1>2 DEF Retract, base_Lack, WireTypeOK, StageTypeOK
<1>3. CASE i \in CondIn /\ EndRecvDelay(i)
  <2>1. recvCtl[i].bodyReq \in BOOLEAN /\ q \in BOOLEAN /\ inReq[i] \in BOOLEAN
    BY <1>3 DEF WireTypeOK, StageTypeOK, EnReceiveStates
  <2>2. RecvPhase(recvCtl[i], inReq[i], q) /\ inReq[i] # recvCtl[i].bodyReq
    BY <1>3 DEF ControlInv, EndRecvDelay
  <2>3. recvCtl[i].bodyReq = ~q
    BY <2>1, <2>2 DEF RecvPhase
  <2> QED
    BY <1>3, <2>3 DEF EndRecvDelay
<1> QED
  BY <1>1, <1>2, <1>3

\* A BODY acknowledge moves only to follow its request.
LEMMA AcknowledgeStep ==
  ASSUME WireTypeOK, ControlInv, NEW j \in Outputs,
         Take(j) \/ Release(j) \/ (j \in CondOut /\ EvaluateEnSend(j))
  PROVE  /\ UNCHANGED <<reset_n, inReq, reqRed, q, rreq, ackRed>>
         /\ \/ UNCHANGED outAck
            \/ outAck[j] # rreq[j] /\ outAck' = [outAck EXCEPT ![j] = rreq[j]]
<1>0. rreq[j] \in BOOLEAN /\ outAck \in [Outputs -> BOOLEAN]
  BY DEF WireTypeOK, StageTypeOK
<1>1. CASE Take(j) \/ Release(j)
  BY <1>0, <1>1 DEF Take, Release
<1>2. CASE j \in CondOut /\ EvaluateEnSend(j)
  <2> DEFINE d == SendCtlValue(j)
  <2>3. d.bodyAck # sendCtl[j].bodyAck => d.bodyAck = rreq[j]
    BY <1>2, SendCtlPhase
  <2>4. outAck[j] = sendCtl[j].bodyAck /\ outAck' = [outAck EXCEPT ![j] = d.bodyAck]
    BY <1>2 DEF EvaluateEnSend, ControlInv
  <2>5. d.bodyAck = outAck[j] => UNCHANGED outAck
    BY <1>0, <2>4
  <2>6. UNCHANGED <<reset_n, inReq, reqRed, q, rreq, ackRed>>
    BY <1>2 DEF EvaluateEnSend
  <2>7. CASE d.bodyAck = outAck[j]
    BY <2>5, <2>6, <2>7
  <2>8. CASE d.bodyAck # outAck[j]
    BY <1>0, <2>3, <2>4, <2>6, <2>8
  <2> QED BY <2>7, <2>8
<1> QED
  BY <1>1, <1>2

\* To the BODY stage, EN stages and partners are four-phase partners alike.
LEMMA StageInvStep == WireTypeOK /\ ControlInv /\ [Next]_vars => StageInv'
<1> SUFFICES ASSUME WireTypeOK, ControlInv, StepCases PROVE StageInv'
  BY StepsOfNext
<1>0. StageTypeOK /\ StageInv
  BY DEF WireTypeOK, ControlInv
<1>1. CASE BodyGateStep \/ StartBody \/ (\E j \in Outputs : EndBodyDelay(j))
  BY <1>0, <1>1, StageStepsOfBody, StageControlStep
<1>2. CASE \/ \E i \in Inputs : Offer(i) \/ Retract(i)
           \/ \E i \in CondIn : EndRecvDelay(i)
  BY <1>0, <1>2, CondPorts, RequestStep, RequestMoves
<1>3. CASE \/ \E j \in Outputs : Take(j) \/ Release(j)
           \/ \E j \in CondOut : EvaluateEnSend(j)
  <2> PICK j \in Outputs : Take(j) \/ Release(j) \/ (j \in CondOut /\ EvaluateEnSend(j))
    BY <1>3, CondPorts
  <2>1. CASE UNCHANGED outAck
    BY <1>0, <2>1, AcknowledgeStep, StageControlUnchanged DEF controlVars
  <2>2. CASE ~UNCHANGED outAck
    BY <1>0, <2>2, AcknowledgeStep, AcknowledgeMoves
  <2> QED BY <2>1, <2>2
<1>4. CASE AssertReset
  BY <1>0, <1>4, ResetMoves DEF AssertReset, SafeToReset
<1>5. CASE UNCHANGED controlVars
  BY <1>0, <1>5, StageControlUnchanged
<1> QED
  BY <1>1, <1>2, <1>3, <1>4, <1>5
  DEF StepCases, controlVars, CaptureEnable, EvaluateEnReceive, PassRecvStorage, LaunchEnable,
      PassSendStorage, EndSendDelay, OfferExternal, RetractExternal, TakeExternal,
      ReleaseExternal, ChangeSel, vars, stageVars

\* Every step keeps the phase of every EN_RECV stage.
LEMMA RecvControlStep ==
  WireTypeOK /\ ControlInv /\ [Next]_vars => \A i \in CondIn : RecvPhase(recvCtl[i], inReq[i], q)'
<1> SUFFICES ASSUME WireTypeOK, ControlInv, StepCases, NEW i \in CondIn
             PROVE  RecvPhase(recvCtl[i], inReq[i], q)'
  BY StepsOfNext
<1>0. RecvPhase(recvCtl[i], inReq[i], q) /\ i \in Inputs /\ StageTypeOK /\ StageInv
  BY CondPorts DEF ControlInv, WireTypeOK
<1>1. CASE StartBody
  <2>1. /\ ControllerExcited /\ q' = ControllerValue /\ UNCHANGED <<inReq, recvCtl>>
    BY <1>1 DEF StartBody, SwitchController, recvVars
  <2>2. CASE q
    BY <1>0, <2>1, <2>2, ControllerSwitch DEF RecvPhase
  <2>3. CASE ~q
    BY <1>0, <2>1, <2>3, ControllerSwitch DEF RecvPhase
  <2> QED BY <2>2, <2>3
<1>2. CASE \E k \in CondIn : EvaluateEnReceive(k)
  <2>1. UNCHANGED <<q, inReq>> /\ (recvCtl'[i] = recvCtl[i] \/ recvCtl'[i] = RecvCtlValue(i))
    BY <1>2 DEF EvaluateEnReceive, stageVars, WireTypeOK
  <2>2. CASE recvCtl'[i] = recvCtl[i]
    BY <1>0, <2>1, <2>2 DEF RecvPhase
  <2>3. CASE recvCtl'[i] = RecvCtlValue(i)
    BY <2>1, <2>3, RecvCtlPhase DEF RecvPhase
  <2> QED BY <2>1, <2>2, <2>3
<1>3. CASE \E k \in CondIn : EndRecvDelay(k)
  <2> PICK k \in CondIn : EndRecvDelay(k) BY <1>3
  <2>1. inReq' = [inReq EXCEPT ![k] = recvCtl[k].bodyReq] /\ UNCHANGED <<q, recvCtl>>
    BY DEF EndRecvDelay, recvVars
  <2>2. inReq'[i] = IF i = k THEN recvCtl[i].bodyReq ELSE inReq[i]
    BY <1>0, <2>1 DEF StageTypeOK
  <2> QED BY <1>0, <2>1, <2>2 DEF RecvPhase
<1>4. CASE \E k \in Inputs : Offer(k) \/ Retract(k)
  <2> PICK k \in Inputs : Offer(k) \/ Retract(k) BY <1>4
  <2>1. UNCHANGED <<q, recvCtl>> /\ k # i
    BY DEF Offer, Retract, recvVars
  <2>2. inReq'[i] = inReq[i]
    BY <1>0, <2>1 DEF Offer, Retract, StageTypeOK
  <2> QED BY <1>0, <2>1, <2>2 DEF RecvPhase
<1>5. CASE UNCHANGED <<q, inReq, recvCtl>>
  BY <1>0, <1>5 DEF RecvPhase
<1> QED
  BY <1>1, <1>2, <1>3, <1>4, <1>5
  DEF StepCases, BodyGateStep, ReleaseReset, SwitchReqCell, SwitchAckCell, PassLatch, bodyOnly,
      EndBodyDelay, EndDelay, CaptureEnable, PassRecvStorage, LaunchEnable, EvaluateEnSend,
      PassSendStorage, EndSendDelay, OfferExternal, RetractExternal, Take, Release,
      TakeExternal, ReleaseExternal, ChangeSel, AssertReset, vars, stageVars, recvVars

\* Every step keeps the phase of every EN_SEND stage.
LEMMA SendControlStep ==
  WireTypeOK /\ ControlInv /\ [Next]_vars => 
    \A j \in CondOut : (outAck[j] = sendCtl[j].bodyAck /\ SendPhase(sendCtl[j], extRreq[j], extRack[j]))'
<1> SUFFICES ASSUME WireTypeOK, ControlInv, StepCases, NEW j \in CondOut
             PROVE  (outAck[j] = sendCtl[j].bodyAck /\ SendPhase(sendCtl[j], extRreq[j], extRack[j]))'
  BY StepsOfNext
<1>0. /\ outAck[j] = sendCtl[j].bodyAck /\ SendPhase(sendCtl[j], extRreq[j], extRack[j])
      /\ j \in Outputs
      /\ outAck \in [Outputs -> BOOLEAN] /\ sendCtl[j] \in EnSendStates
      /\ extRreq \in [CondOut -> BOOLEAN] /\ extRack \in [CondOut -> BOOLEAN]
      /\ sendCtl[j].externalReq \in BOOLEAN
  BY CondPorts DEF ControlInv, WireTypeOK, StageTypeOK, EnSendStates
<1>1. CASE \E k \in CondOut : EvaluateEnSend(k)
  <2> PICK k \in CondOut : EvaluateEnSend(k) BY <1>1
  <2>1. UNCHANGED <<extRreq, extRack>>
    BY DEF EvaluateEnSend
  <2>2. CASE k # j
    <3>1. sendCtl'[j] = sendCtl[j] /\ outAck'[j] = outAck[j]
      BY <1>0, <2>2 DEF EvaluateEnSend, WireTypeOK
    <3> QED BY <1>0, <2>1, <3>1
  <2>3. CASE k = j
    <3>1. sendCtl'[j] = SendCtlValue(j) /\ outAck'[j] = SendCtlValue(j).bodyAck
      BY <1>0, <2>3 DEF EvaluateEnSend, WireTypeOK
    <3> QED BY <2>1, <3>1, SendCtlPhase
  <2> QED BY <2>2, <2>3
<1>2. CASE \E k \in Outputs : Take(k) \/ Release(k)
  <2> PICK k \in Outputs : Take(k) \/ Release(k) BY <1>2
  <2>1. k # j /\ UNCHANGED <<sendCtl, extRreq, extRack>>
    BY DEF Take, Release, sendVars
  <2>2. outAck'[j] = outAck[j]
    BY <1>0, <2>1 DEF Take, Release
  <2> QED BY <1>0, <2>1, <2>2
<1>3. CASE \E k \in CondOut : EndSendDelay(k)
  BY <1>0, <1>3 DEF EndSendDelay, stageVars, SendPhase
<1>4. CASE \E k \in CondOut : TakeExternal(k)
  BY <1>0, <1>4 DEF TakeExternal, stageVars, SendPhase
<1>5. CASE \E k \in CondOut : ReleaseExternal(k)
  BY <1>0, <1>5 DEF ReleaseExternal, stageVars, SendPhase
<1>6. CASE UNCHANGED <<outAck, sendCtl, extRreq, extRack>>
  BY <1>0, <1>6
<1> QED
  BY <1>1, <1>2, <1>3, <1>4, <1>5, <1>6
  DEF StepCases, BodyGateStep, ReleaseReset, SwitchReqCell, SwitchAckCell, PassLatch, bodyOnly,
      StartBody, SwitchController, EndBodyDelay, EndDelay, CaptureEnable, EvaluateEnReceive,
      PassRecvStorage, EndRecvDelay, LaunchEnable, PassSendStorage, Offer, Retract,
      OfferExternal, RetractExternal, ChangeSel, AssertReset, vars, stageVars, sendVars

\* The control invariant is inductive.
LEMMA ControlStep == WireTypeOK /\ ControlInv /\ [Next]_vars => ControlInv'
  BY StageInvStep, RecvControlStep, SendControlStep DEF ControlInv

\* BODY, EN_RECV and EN_SEND stages keep each other's handshakes, in any
\* surroundings that follow the four-phase protocol.
THEOREM ControlInvCorrect == Spec => [](WireTypeOK /\ ControlInv)
<1>1. Init => WireTypeOK /\ ControlInv
  BY WireTypeInit, ControlInit
<1>2. WireTypeOK /\ ControlInv /\ [Next]_vars => (WireTypeOK /\ ControlInv)'
  BY WireTypeStep, ControlStep
<1> QED
  BY <1>1, <1>2, PTL DEF Spec

-----------------------------------------------------------------------------
(***************************************************************************)
(* What follows from it.                                                   *)
(***************************************************************************)
LEMMA JoinedHandshakeHolds ==
  WireTypeOK /\ ControlInv /\ [Next]_vars => [JoinedHandshakeStep]_vars
<1> SUFFICES ASSUME WireTypeOK, ControlInv, StepCases, q' # q PROVE JoinedHandshakeStep
  BY StepsOfNext DEF JoinedHandshakeStep, WireTypeOK, StageTypeOK
<1>1. SwitchController
  BY DEF StepCases, BodyGateStep, ReleaseReset, SwitchReqCell, SwitchAckCell, PassLatch,
         StartBody, EndBodyDelay, EndDelay, CaptureEnable, EvaluateEnReceive,
         PassRecvStorage, EndRecvDelay, LaunchEnable, EvaluateEnSend, PassSendStorage,
         EndSendDelay, Offer, Retract, OfferExternal, RetractExternal, Take, Release,
         TakeExternal, ReleaseExternal, ChangeSel, AssertReset, vars, stageVars
<1> QED
  BY <1>1, ControllerJoins DEF WireTypeOK, ControlInv

\* With EN stages on any of its ports and reset between transactions, the BODY
\* still starts and ends a transaction only when every port is ready.
THEOREM JoinedHandshakeCorrect == Spec => JoinedHandshake
  BY ControlInvCorrect, JoinedHandshakeHolds, PTL DEF Spec, JoinedHandshake

\* Every step keeps the four-phase protocol on the external Channels.
LEMMA ExternalHandshakeStep ==
  WireTypeOK /\ ControlInv /\ [Next]_vars =>
    [/\ \A i \in CondIn : recvCtl'[i].externalAck # recvCtl[i].externalAck =>
            recvCtl'[i].externalAck = extReq[i]
     /\ \A j \in CondOut : extRreq'[j] # extRreq[j] => extRreq'[j] = ~extRack[j]]_vars
<1> SUFFICES ASSUME WireTypeOK, ControlInv, StepCases
    PROVE  /\ \A i \in CondIn : recvCtl'[i].externalAck # recvCtl[i].externalAck =>
                  recvCtl'[i].externalAck = extReq[i]
           /\ \A j \in CondOut : extRreq'[j] # extRreq[j] => extRreq'[j] = ~extRack[j]
  BY StepsOfNext
<1>1. ASSUME NEW i \in CondIn, recvCtl'[i].externalAck # recvCtl[i].externalAck
      PROVE  recvCtl'[i].externalAck = extReq[i]
  <2>1. \E k \in CondIn : EvaluateEnReceive(k)
    BY <1>1 DEF StepCases, BodyGateStep, bodyOnly, StartBody, EndBodyDelay, CaptureEnable,
           PassRecvStorage, EndRecvDelay, LaunchEnable, EvaluateEnSend, PassSendStorage,
           EndSendDelay, Offer, Retract, OfferExternal, RetractExternal, Take, Release,
           TakeExternal, ReleaseExternal, ChangeSel, AssertReset, vars, recvVars
  <2>2. recvCtl'[i] = RecvCtlValue(i)
    BY <1>1, <2>1 DEF EvaluateEnReceive, WireTypeOK
  <2>3. /\ recvCtl[i] \in EnReceiveStates
        /\ recvEnable[i].data \in BOOLEAN
        /\ extReq[i] \in BOOLEAN
    BY DEF WireTypeOK, EnableSenderStates
  <2> QED
    BY <1>1, <2>2, <2>3, EnReceiveFollows DEF RecvCtlValue
<1>2. ASSUME NEW j \in CondOut, extRreq'[j] # extRreq[j]
      PROVE  extRreq'[j] = ~extRack[j]
  <2>1. \E k \in CondOut : EndSendDelay(k)
    BY <1>2 DEF StepCases, BodyGateStep, bodyOnly, StartBody, EndBodyDelay, CaptureEnable,
           EvaluateEnReceive, PassRecvStorage, EndRecvDelay, LaunchEnable, EvaluateEnSend,
           PassSendStorage, Offer, Retract, OfferExternal, RetractExternal, Take, Release,
           TakeExternal, ReleaseExternal, ChangeSel, AssertReset, vars, sendVars
  <2>2. extRreq'[j] = sendCtl[j].externalReq
    BY <1>2, <2>1 DEF EndSendDelay, WireTypeOK
  <2>3. sendCtl[j].externalReq \in BOOLEAN /\ extRreq[j] \in BOOLEAN /\ extRack[j] \in BOOLEAN
    BY DEF WireTypeOK, EnSendStates
  <2> QED
    BY <1>2, <2>2, <2>3 DEF ControlInv, SendPhase
<1> QED
  BY <1>1, <1>2

\* Every external Channel sees a four-phase handshake, however many ports the
\* module has, whatever reset, sel and the pace of the partners do.
THEOREM ExternalHandshakeCorrect == Spec => ExternalHandshake
  BY ControlInvCorrect, ExternalHandshakeStep, PTL DEF Spec, ExternalHandshake

\* No controller needs to be woken by its own assignments: in every state that
\* can be reached one evaluation of each always block is enough.
THEOREM EvaluatedOnceCorrect == Spec => []EvaluatedOnce
<1>1. ASSUME WireTypeOK, ControlInv PROVE EvaluatedOnce
  <2>1. ASSUME NEW i \in CondIn
        PROVE  LET c == RecvCtlValue(i)
               IN EnReceive(c, recvEnable[i].req, recvEnable[i].data, extReq[i], q) = c
    <3>1. /\ recvCtl[i] \in EnReceiveStates /\ extReq[i] \in BOOLEAN
          /\ recvEnable[i].req \in BOOLEAN /\ recvEnable[i].data \in BOOLEAN
          /\ q \in BOOLEAN
      BY <1>1 DEF WireTypeOK, StageTypeOK, EnableSenderStates
    <3>2. RecvPhase(recvCtl[i], inReq[i], q)
      BY <1>1 DEF ControlInv
    <3> QED
      BY <3>1, <3>2, EnReceiveOnce DEF RecvPhase, RecvCtlValue, base_Lack
  <2>2. ASSUME NEW j \in CondOut
        PROVE  LET c == SendCtlValue(j)
               IN EnSend(c, sendEnable[j].req, sendEnable[j].data, rreq[j], extRack[j]) = c
    <3>1. /\ sendCtl[j] \in EnSendStates /\ extRack[j] \in BOOLEAN /\ rreq[j] \in BOOLEAN
          /\ sendEnable[j].req \in BOOLEAN /\ sendEnable[j].data \in BOOLEAN
      BY <1>1, CondPorts DEF WireTypeOK, StageTypeOK, EnableSenderStates
    <3>2. SendPhase(sendCtl[j], extRreq[j], extRack[j])
      BY <1>1 DEF ControlInv
    <3> QED
      BY <3>1, <3>2, EnSendOnce DEF SendPhase, SendCtlValue
  <2>3. \A i \in CondIn : recvEnable[i] \in EnableSenderStates
    BY <1>1 DEF WireTypeOK
  <2>4. \A j \in CondOut : sendEnable[j] \in EnableSenderStates
    BY <1>1 DEF WireTypeOK
  <2> QED
    BY <2>1, <2>2, <2>3, <2>4, EnableSenderOnce
    DEF EvaluatedOnce, RecvEnableValue, SendEnableValue
<1> QED
  BY <1>1, ControlInvCorrect, PTL
=============================================================================
