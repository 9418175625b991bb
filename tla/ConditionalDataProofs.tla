----------------------- MODULE ConditionalDataProofs -----------------------
(***************************************************************************)
(* TLAPS proofs about the data of ConditionalTransaction while sel is held *)
(* through a transaction and senders keep the pace of the test benches: a  *)
(* disabled Receive leaves its external Channel alone, and, on a network   *)
(* that settles before a partner moves, every request a receiver sees      *)
(* carries the result the source transaction owes it.  There the network   *)
(* implements GuardedFlow: a token is fresh until the BODY rises, and what *)
(* an output shows is the head of what it is owed (ResultDelivered), so    *)
(* only the moments at which a request appears or is answered change it.   *)
(***************************************************************************)
EXTENDS ConditionalEnableProofs

-----------------------------------------------------------------------------
(***************************************************************************)
(* The pace.                                                               *)
(***************************************************************************)
\* After reset every EN_RECV stage is idle.
LEMMA PaceInit == Init => PaceInv
  BY DEF Init, PaceInv, EnReceiveReset, EnableSenderReset

\* The first BODY request returns to zero on a settled network whose senders
\* have answered, so every EN_RECV stage has finished by then.
LEMMA PaceSettled ==
  ASSUME Paced, HeldInv, PaceInv, NEW i \in CondIn, DelayMayEnd
  PROVE  ~q /\ base_Rack => recvEnable[i].state = "IDLE" /\ recvCtl[i].state = "IDLE"
<1> DEFINE e == recvEnable[i]
           c == recvCtl[i]
<1>0. /\ e \in EnableSenderStates /\ c \in EnReceiveStates /\ Resting \in BOOLEAN
      /\ extReq[i] \in BOOLEAN /\ inReq[i] \in BOOLEAN /\ base_Rack \in BOOLEAN
      /\ q \in BOOLEAN /\ EnableValue(RecvWhen[i], sel) \in BOOLEAN
      /\ RecvPhase(c, inReq[i], q) /\ RecvEnablePhase(e, c, q, base_Rack, Resting)
  BY RecvPortTypes DEF HeldInv, ControlInv, EnableInv, Resting
<1>1. /\ EnableSender(e, EnableValue(RecvWhen[i], sel), ~base_Rack, c.enableAck) = e
      /\ EnReceive(c, e.req, e.data, extReq[i], q) = c
  <2>1. RecvEnableValue(i) = e /\ RecvCtlValue(i) = c
    BY DEF DelayMayEnd, Settled
  <2> QED BY <2>1 DEF RecvEnableValue, RecvCtlValue, PreInputLaunch, base_Lack
<1>2. c.state = "WAIT_BODY" /\ c.enabled /\ ~c.externalAck => ~extReq[i]
  BY DEF PaceInv
<1>3. ~(extReq[i] /\ c.externalAck)
  BY DEF DelayMayEnd
<1> HIDE DEF e, c
<1>a. e.state # "REARM" /\ ~(e.state = "ACTIVE" /\ base_Rack)
  BY <1>0, <1>1, RecvEnableSettled
<1> HAVE ~q /\ base_Rack
<1>4. e.state = "IDLE" /\ ~e.req
  BY <1>0, <1>a DEF EnableSenderStates, RecvEnablePhase
<1>5. c.state # "WAIT_EXTERNAL" /\ ~c.bodyReq
  BY <1>0, <1>4 DEF RecvEnablePhase
<1>6. ASSUME c.state = "WAIT_BODY" PROVE FALSE
  <2> DEFINE d == EnReceiveWaitBody(c, e.req, extReq[i], q)
  <2>1. c = d
    BY <1>1, <1>6 DEF EnReceive
  <2>2. ~c.enableAck
    <3>1. d.enableAck <=> c.enableAck /\ e.req
      BY DEF EnReceiveWaitBody
    <3> HIDE DEF d
    <3> QED BY <1>4, <2>1, <3>1
  <2>3. c.enabled => ~extReq[i] /\ ~c.externalAck
    <3>1. d.externalAck <=> c.externalAck /\ (c.enabled => extReq[i])
      BY DEF EnReceiveWaitBody
    <3> HIDE DEF d
    <3> QED BY <1>2, <1>3, <1>6, <2>1, <3>1
  <2>4. d.state = "IDLE"
    BY <1>4, <1>5, <2>2, <2>3 DEF EnReceiveWaitBody
  <2> QED BY <1>6, <2>1, <2>4
<1> QED
  BY <1>0, <1>4, <1>5, <1>6 DEF EnReceiveStates, e, c

\* From its first withdrawn request until the BODY lets go of the joined
\* acknowledge, every EN_RECV stage rests.
LEMMA PaceRests ==
  ASSUME SelHeld, Paced, HeldInv, PaceInv, StepCases, NEW i \in CondIn, Resting', base_Rack'
  PROVE  recvCtl'[i].state = "IDLE" /\ recvEnable'[i].state = "IDLE"
<1>0. ~StartBody /\ q' = q /\ ~q /\ base_Rack
  <2>1. ~StartBody /\ ~q' /\ q \in BOOLEAN
    BY RestingStep, RecvPortTypes DEF HeldInv, Resting
  <2>2. q' = q /\ (base_Rack' = base_Rack \/ base_Rack' = q)
    BY <2>1, RackStep DEF HeldInv
  <2> QED BY <2>1, <2>2
<1>1. CASE \E j \in Outputs : EndBodyDelay(j)
  <2>1. DelayMayEnd /\ UNCHANGED <<recvCtl, recvEnable>>
    BY <1>1 DEF EndBodyDelay, recvVars
  <2> QED BY <1>0, <2>1, PaceSettled
<1>2. CASE Resting
  <2>1. recvCtl[i].state = "IDLE" /\ recvEnable[i].state = "IDLE" /\ ~recvEnable[i].req
    BY <1>0, <1>2 DEF PaceInv, HeldInv, EnableInv, RecvEnablePhase
  <2>2. RecvCtlValue(i) = recvCtl[i] /\ RecvEnableValue(i) = recvEnable[i]
    BY <1>0, <2>1 DEF RecvCtlValue, EnReceive, EnReceiveIdle, RecvEnableValue, EnableSender,
                      PreInputLaunch
  <2>3. CASE \E k \in CondIn : CaptureEnable(k) \/ EvaluateEnReceive(k)
    <3>1. /\ recvCtl'[i] = recvCtl[i] \/ recvCtl'[i] = RecvCtlValue(i)
          /\ recvEnable'[i] = recvEnable[i] \/ recvEnable'[i] = RecvEnableValue(i)
      BY <2>3 DEF CaptureEnable, EvaluateEnReceive, HeldInv, WireTypeOK
    <3> QED BY <2>1, <2>2, <3>1
  <2>4. CASE UNCHANGED <<recvCtl, recvEnable>>
    BY <2>1, <2>4
  <2> QED
    BY <1>0, <2>3, <2>4
    DEF StepCases, BodyGateStep, bodyOnly, EndBodyDelay, PassRecvStorage, EndRecvDelay,
        LaunchEnable, EvaluateEnSend, PassSendStorage, EndSendDelay, Offer, Retract,
        OfferExternal, RetractExternal, Take, Release, TakeExternal, ReleaseExternal, ChangeSel,
        AssertReset, vars, recvVars
<1> QED
  BY <1>0, <1>1, <1>2, RestingStep DEF HeldInv

\* EN_RECV launches the BODY with its enable token in hand.
LEMMA RecvLaunched ==
  ASSUME NEW e \in EnableSenderStates, NEW c \in EnReceiveStates, NEW externalReq \in BOOLEAN,
         NEW ack \in BOOLEAN, NEW rack \in BOOLEAN, NEW resting \in BOOLEAN,
         RecvEnablePhase(e, c, ack, rack, resting), ~ack,
         c.state = "WAIT_BODY" => e.state = "ACTIVE" /\ c.bodyReq,
         NEW d, d = EnReceive(c, e.req, e.data, externalReq, ack), d.state = "WAIT_BODY"
  PROVE  e.state = "ACTIVE" /\ d.bodyReq
<1>0. e.req \in BOOLEAN /\ e.data \in BOOLEAN
  BY DEF EnableSenderStates
<1>1. CASE c.state = "IDLE"
  BY <1>0, <1>1 DEF EnReceive, EnReceiveIdle, EnReceiveStates, RecvEnablePhase
<1>2. CASE c.state = "WAIT_EXTERNAL"
  BY <1>0, <1>2 DEF EnReceive, EnReceiveWaitExternal, EnReceiveStates, RecvEnablePhase
<1>3. CASE c.state = "WAIT_BODY"
  BY <1>0, <1>3 DEF EnReceive, EnReceiveWaitBody, EnReceiveStates
<1> QED
  BY <1>1, <1>2, <1>3 DEF EnReceiveStates

\* Before q rises an EN_RECV stage that has launched the BODY keeps its enable.
LEMMA PaceWaits ==
  ASSUME SelHeld, Paced, HeldInv, PaceInv, StepCases, NEW i \in CondIn,
         ~q', ~base_Rack', recvCtl'[i].state = "WAIT_BODY"
  PROVE  recvEnable'[i].state = "ACTIVE" /\ recvCtl'[i].bodyReq
<1>0. /\ recvEnable[i] \in EnableSenderStates /\ recvCtl[i] \in EnReceiveStates
      /\ q \in BOOLEAN /\ base_Rack \in BOOLEAN
      /\ RecvPhase(recvCtl[i], inReq[i], q)
      /\ RecvEnablePhase(recvEnable[i], recvCtl[i], q, base_Rack, Resting)
      /\ extReq[i] \in BOOLEAN /\ Resting \in BOOLEAN
  BY RecvPortTypes DEF HeldInv, ControlInv, EnableInv, Resting
<1>1. ~StartBody /\ ~q
  BY <1>0, RackStep DEF HeldInv
<1>2. CASE base_Rack
  <2>1. Resting /\ recvCtl[i].state = "IDLE" /\ recvEnable[i].state = "IDLE"
    BY <1>0, <1>1, <1>2, RackStep DEF HeldInv, PaceInv
  <2>2. ~\E k \in CondIn : EvaluateEnReceive(k) /\ k = i
    BY <1>0, <2>1 DEF EvaluateEnReceive, RecvCtlValue, EnReceive, EnReceiveIdle, RecvEnablePhase
  <2>3. recvCtl'[i] = recvCtl[i]
    BY <1>1, <2>2
    DEF StepCases, BodyGateStep, bodyOnly, EndBodyDelay, CaptureEnable, EvaluateEnReceive,
        PassRecvStorage, EndRecvDelay, LaunchEnable, EvaluateEnSend, PassSendStorage,
        EndSendDelay, Offer, Retract, OfferExternal, RetractExternal, Take, Release,
        TakeExternal, ReleaseExternal, ChangeSel, AssertReset, vars, recvVars, HeldInv, WireTypeOK
  <2> QED BY <2>1, <2>3
<1>3. CASE ~base_Rack /\ \E k \in CondIn : CaptureEnable(k)
  <2>1. UNCHANGED recvCtl /\ (recvEnable'[i] = recvEnable[i] \/ recvEnable'[i] = RecvEnableValue(i))
    BY <1>3 DEF CaptureEnable, HeldInv, WireTypeOK
  <2>2. recvEnable[i].state = "ACTIVE" /\ recvCtl[i].bodyReq
    BY <1>1, <1>3, <2>1 DEF PaceInv
  <2>3. RecvEnableValue(i) = recvEnable[i]
    BY <1>3, <2>2 DEF RecvEnableValue, EnableSender, PreInputLaunch
  <2> QED BY <2>1, <2>2, <2>3
<1>4. CASE ~base_Rack /\ \E k \in CondIn : EvaluateEnReceive(k)
  <2>1. UNCHANGED recvEnable /\ (recvCtl'[i] = recvCtl[i] \/ recvCtl'[i] = RecvCtlValue(i))
    BY <1>4 DEF EvaluateEnReceive, HeldInv, WireTypeOK
  <2>2. CASE recvCtl'[i] = recvCtl[i]
    BY <1>1, <1>4, <2>1, <2>2 DEF PaceInv
  <2>3. CASE recvCtl'[i] = RecvCtlValue(i)
    <3>1. recvCtl[i].state = "WAIT_BODY" => recvEnable[i].state = "ACTIVE" /\ recvCtl[i].bodyReq
      BY <1>1, <1>4 DEF PaceInv
    <3> QED BY <1>0, <1>1, <1>4, <2>1, <2>3, <3>1, RecvLaunched DEF RecvCtlValue, base_Lack
  <2> QED BY <2>1, <2>2, <2>3
<1>5. CASE ~base_Rack /\ UNCHANGED <<recvEnable, recvCtl>>
  BY <1>1, <1>5 DEF PaceInv
<1> QED
  BY <1>0, <1>1, <1>2, <1>3, <1>4, <1>5
  DEF StepCases, BodyGateStep, bodyOnly, EndBodyDelay, PassRecvStorage, EndRecvDelay,
      LaunchEnable, EvaluateEnSend, PassSendStorage, EndSendDelay, Offer, Retract,
      OfferExternal, RetractExternal, Take, Release, TakeExternal, ReleaseExternal, ChangeSel,
      AssertReset, vars, recvVars
\* A stage that has taken its token waits for the sender to withdraw it.
LEMMA RecvQuiet ==
  ASSUME NEW c \in EnReceiveStates, NEW enableReq \in BOOLEAN, NEW enableData \in BOOLEAN,
         NEW externalReq \in BOOLEAN, NEW ack \in BOOLEAN, NEW r \in BOOLEAN,
         RecvPhase(c, r, ack),
         c.state = "WAIT_BODY" /\ c.enabled /\ ~c.externalAck => ~externalReq,
         NEW d, d = EnReceive(c, enableReq, enableData, externalReq, ack)
  PROVE  d.state = "WAIT_BODY" /\ d.enabled /\ ~d.externalAck => ~externalReq
<1>1. CASE c.state = "IDLE"
  BY <1>1 DEF EnReceive, EnReceiveIdle, EnReceiveStates
<1>2. CASE c.state = "WAIT_EXTERNAL"
  BY <1>2 DEF EnReceive, EnReceiveWaitExternal, EnReceiveStates
<1>3. CASE c.state = "WAIT_BODY"
  BY <1>3 DEF EnReceive, EnReceiveWaitBody, EnReceiveStates
<1> QED
  BY <1>1, <1>2, <1>3 DEF EnReceiveStates

\* No sender offers to a stage that has just taken a token.
LEMMA PaceQuiet ==
  ASSUME Paced, HeldInv, PaceInv, StepCases, NEW i \in CondIn,
         recvCtl'[i].state = "WAIT_BODY", recvCtl'[i].enabled, ~recvCtl'[i].externalAck
  PROVE  ~extReq'[i]
<1>0. /\ recvCtl[i] \in EnReceiveStates /\ RecvPhase(recvCtl[i], inReq[i], q)
      /\ extReq \in [CondIn -> BOOLEAN] /\ extReq[i] \in BOOLEAN /\ inReq[i] \in BOOLEAN
      /\ recvEnable[i].req \in BOOLEAN /\ recvEnable[i].data \in BOOLEAN /\ q \in BOOLEAN
      /\ recvCtl[i].state = "WAIT_BODY" /\ recvCtl[i].enabled /\ ~recvCtl[i].externalAck =>
             ~extReq[i]
  BY RecvPortTypes DEF HeldInv, ControlInv, WireTypeOK, PaceInv
<1>1. CASE \E k \in CondIn : EvaluateEnReceive(k)
  <2>1. UNCHANGED extReq /\ (recvCtl'[i] = recvCtl[i] \/ recvCtl'[i] = RecvCtlValue(i))
    BY <1>1 DEF EvaluateEnReceive, HeldInv, WireTypeOK
  <2>2. CASE recvCtl'[i] = recvCtl[i]
    BY <1>0, <2>1, <2>2
  <2>3. CASE recvCtl'[i] = RecvCtlValue(i)
    BY <1>0, <2>1, <2>3, RecvQuiet DEF RecvCtlValue, base_Lack
  <2> QED BY <2>1, <2>2, <2>3
<1>2. CASE \E k \in CondIn : OfferExternal(k) \/ RetractExternal(k)
  <2> PICK k \in CondIn : OfferExternal(k) \/ RetractExternal(k) BY <1>2
  <2>1. UNCHANGED recvCtl /\ (k = i => ~OfferExternal(k))
    BY DEF OfferExternal, RetractExternal, MayStart
  <2>2. extReq'[i] => extReq[i]
    BY <1>0, <2>1 DEF OfferExternal, RetractExternal
  <2> QED BY <1>0, <2>1, <2>2
<1>3. CASE UNCHANGED <<recvCtl, extReq>>
  BY <1>0, <1>3
<1> QED
  BY <1>1, <1>2, <1>3
  DEF StepCases, BodyGateStep, bodyOnly, StartBody, EndBodyDelay, CaptureEnable,
      PassRecvStorage, EndRecvDelay, LaunchEnable, EvaluateEnSend, PassSendStorage,
      EndSendDelay, Offer, Retract, Take, Release, TakeExternal, ReleaseExternal, ChangeSel,
      AssertReset, vars, recvVars

\* A stage works with the guard its enable token was captured with.
LEMMA RecvEnabled ==
  ASSUME NEW e \in EnableSenderStates, NEW c \in EnReceiveStates, NEW externalReq \in BOOLEAN,
         NEW ack \in BOOLEAN, NEW rack \in BOOLEAN, NEW resting \in BOOLEAN, NEW v \in BOOLEAN,
         RecvEnablePhase(e, c, ack, rack, resting),
         e.state = "ACTIVE" /\ ~rack => e.data = v,
         c.state # "IDLE" => c.enabled = v,
         NEW d, d = EnReceive(c, e.req, e.data, externalReq, ack), d.state # "IDLE"
  PROVE  d.enabled = v
<1>0. e.req \in BOOLEAN /\ e.data \in BOOLEAN
  BY DEF EnableSenderStates
<1>1. CASE c.state = "IDLE"
  <2>1. e.req /\ d.enabled = e.data
    BY <1>0, <1>1 DEF EnReceive, EnReceiveIdle
  <2>2. e.state = "ACTIVE" /\ ~rack
    BY <1>1, <2>1 DEF RecvEnablePhase
  <2> QED BY <2>1, <2>2
<1>2. CASE c.state = "WAIT_EXTERNAL"
  BY <1>0, <1>2 DEF EnReceive, EnReceiveWaitExternal, EnReceiveStates
<1>3. CASE c.state = "WAIT_BODY"
  BY <1>0, <1>3 DEF EnReceive, EnReceiveWaitBody, EnReceiveStates
<1> QED
  BY <1>1, <1>2, <1>3 DEF EnReceiveStates

\* While an EN_RECV stage is at work nobody captures another guard.
LEMMA PaceGuard ==
  ASSUME SelHeld, HeldInv, PaceInv, StepCases, NEW i \in CondIn, recvCtl[i].state # "IDLE"
  PROVE  guard' = guard
<1>0. /\ recvCtl[i] \in EnReceiveStates
      /\ RecvEnablePhase(recvEnable[i], recvCtl[i], q, base_Rack, Resting)
  BY RecvPortTypes DEF HeldInv, EnableInv
<1>1. CASE StartBody
  BY <1>1 DEF StartBody
<1>2. CASE \E k \in CondIn : CaptureEnable(k)
  <2> PICK k \in CondIn : CaptureEnable(k) BY <1>2
  <2>1. guard' = IF RecvEnableValue(k).req /\ ~recvEnable[k].req THEN sel ELSE guard
    BY DEF CaptureEnable
  <2>2. ASSUME RecvEnableValue(k).req, ~recvEnable[k].req PROVE guard = sel
    <3>1. ~base_Rack
      <4>1. recvEnable[k] \in EnableSenderStates
        BY RecvPortTypes DEF HeldInv
      <4>2. RecvEnableValue(k).req => recvEnable[k].req \/ PreInputLaunch
        BY <4>1 DEF RecvEnableValue, EnableSender, EnableSenderStates
      <4> QED BY <2>2, <4>2 DEF PreInputLaunch
    <3>2. CASE q
      BY <3>2 DEF HeldInv, GuardInv
    <3>3. CASE ~q /\ recvCtl[i].state = "WAIT_BODY"
      BY <3>1, <3>3 DEF HeldInv, GuardInv, PaceInv
    <3>4. CASE recvCtl[i].state = "WAIT_EXTERNAL"
      BY <1>0, <3>1, <3>4 DEF HeldInv, GuardInv, RecvEnablePhase
    <3> QED BY <1>0, <3>2, <3>3, <3>4 DEF EnReceiveStates
  <2> QED BY <2>1, <2>2
<1>3. CASE UNCHANGED guard
  BY <1>3
<1> QED
  BY <1>1, <1>2, <1>3
  DEF StepCases, BodyGateStep, bodyOnly, EndBodyDelay, EvaluateEnReceive, PassRecvStorage,
      EndRecvDelay, LaunchEnable, EvaluateEnSend, PassSendStorage, EndSendDelay, Offer, Retract,
      OfferExternal, RetractExternal, Take, Release, TakeExternal, ReleaseExternal, ChangeSel,
      AssertReset, vars

\* Every EN_RECV stage at work is enabled as the guard says.
LEMMA PaceEnabled ==
  ASSUME SelHeld, HeldInv, PaceInv, StepCases, NEW i \in CondIn, recvCtl'[i].state # "IDLE"
  PROVE  recvCtl'[i].enabled = EnableValue(RecvWhen[i], guard')
<1> DEFINE v == EnableValue(RecvWhen[i], guard)
<1>0. /\ recvEnable[i] \in EnableSenderStates /\ recvCtl[i] \in EnReceiveStates
      /\ q \in BOOLEAN /\ base_Rack \in BOOLEAN /\ Resting \in BOOLEAN /\ v \in BOOLEAN
      /\ extReq[i] \in BOOLEAN
      /\ RecvEnablePhase(recvEnable[i], recvCtl[i], q, base_Rack, Resting)
      /\ recvEnable[i].state = "ACTIVE" /\ ~base_Rack => recvEnable[i].data = v
      /\ recvCtl[i].state # "IDLE" => recvCtl[i].enabled = v
      /\ recvCtl[i].state # "IDLE" => guard' = guard
  BY RecvPortTypes, PaceGuard
  DEF HeldInv, EnableInv, GuardInv, PaceInv, Resting, EnableValue
<1>1. CASE \E k \in CondIn : EvaluateEnReceive(k)
  <2>1. UNCHANGED guard /\ (recvCtl'[i] = recvCtl[i] \/ recvCtl'[i] = RecvCtlValue(i))
    BY <1>1 DEF EvaluateEnReceive, HeldInv, WireTypeOK
  <2>2. CASE recvCtl'[i] = recvCtl[i]
    BY <1>0, <2>1, <2>2
  <2>3. CASE recvCtl'[i] = RecvCtlValue(i)
    <3>1. recvCtl'[i].enabled = v
      <4> HIDE DEF v
      <4> QED BY <1>0, <2>3, RecvEnabled DEF RecvCtlValue, base_Lack
    <3> QED BY <2>1, <3>1
  <2> QED BY <2>1, <2>2, <2>3
<1>2. CASE UNCHANGED recvCtl
  BY <1>0, <1>2
<1> QED
  BY <1>1, <1>2
  DEF StepCases, BodyGateStep, bodyOnly, StartBody, EndBodyDelay, CaptureEnable,
      PassRecvStorage, EndRecvDelay, LaunchEnable, EvaluateEnSend, PassSendStorage,
      EndSendDelay, Offer, Retract, OfferExternal, RetractExternal, Take, Release,
      TakeExternal, ReleaseExternal, ChangeSel, AssertReset, vars, recvVars

PacedInv == HeldInv /\ PaceInv

\* The pace invariant is inductive when sel is held and senders keep the pace.
LEMMA PaceStep == SelHeld /\ Paced /\ PacedInv /\ [Next]_vars => PacedInv'
<1> SUFFICES ASSUME SelHeld, Paced, PacedInv, [Next]_vars PROVE PacedInv'
  OBVIOUS
<1>1. HeldInv' /\ StepCases
  BY HeldStep, StepsOfNext DEF PacedInv
<1>2. ASSUME NEW i \in CondIn
      PROVE  /\ (Resting /\ base_Rack)' =>
                    recvCtl'[i].state = "IDLE" /\ recvEnable'[i].state = "IDLE"
             /\ ~q' /\ ~base_Rack' /\ recvCtl'[i].state = "WAIT_BODY" =>
                    recvEnable'[i].state = "ACTIVE" /\ recvCtl'[i].bodyReq
             /\ recvCtl'[i].state = "WAIT_BODY" /\ recvCtl'[i].enabled
                /\ ~recvCtl'[i].externalAck => ~extReq'[i]
             /\ recvCtl'[i].state # "IDLE" =>
                    recvCtl'[i].enabled = EnableValue(RecvWhen[i], guard')
  BY <1>1, PaceRests, PaceWaits, PaceQuiet, PaceEnabled DEF PacedInv
<1> QED
  BY <1>1, <1>2 DEF PacedInv, PaceInv

\* With senders that keep the pace, every EN_RECV stage is idle before the BODY
\* can start again and works with the guard of the current transaction.
THEOREM PacedInvCorrect == ASSUME SelHeld, Paced PROVE Spec => []PacedInv
<1>1. Init => PacedInv
  BY WireTypeInit, ControlInit, EnableInit, GuardInit, OwedInit, PaceInit DEF PacedInv, HeldInv
<1>2. PacedInv /\ [Next]_vars => PacedInv'
  BY PaceStep
<1> QED
  BY <1>1, <1>2, PTL DEF Spec

\* With sel held and senders that keep the pace, no external Channel of a
\* disabled Receive is ever acknowledged, however partners and delays race.
THEOREM DisabledUntouchedCorrect == ASSUME SelHeld, Paced PROVE Spec => []DisabledUntouched
<1>1. PacedInv => DisabledUntouched
  BY DEF PacedInv, HeldInv, ControlInv, RecvPhase, PaceInv, DisabledUntouched
<1> QED
  BY <1>1, PacedInvCorrect, PTL

-----------------------------------------------------------------------------
(***************************************************************************)
(* The inputs.                                                             *)
(***************************************************************************)
\* At first there is no token anywhere.
LEMMA InputInit == Init => InputInv
<1> SUFFICES ASSUME Init PROVE InputInv
  OBVIOUS
<1>1. ~q /\ \A i \in Inputs : ~inReq[i]
  BY DEF Init, StageInit
<1> QED
  BY <1>1, CondPorts DEF Init, InputInv, EnReceiveReset

\* A stage that has launched the BODY holds a token it has seen, and works with
\* it until the BODY has acknowledged.
LEMMA RecvHolds ==
  ASSUME NEW c \in EnReceiveStates, NEW enableReq \in BOOLEAN, NEW enableData \in BOOLEAN,
         NEW externalReq \in BOOLEAN, NEW ack \in BOOLEAN, NEW r \in BOOLEAN,
         RecvPhase(c, r, ack),
         NEW d, d = EnReceive(c, enableReq, enableData, externalReq, ack)
  PROVE  /\ d.bodyReq /\ d.enabled /\ ~externalReq => c.bodyReq /\ c.enabled
         /\ r \/ ack => d.enabled = c.enabled
<1>1. CASE c.state = "IDLE"
  BY <1>1 DEF EnReceive, EnReceiveIdle, EnReceiveStates, RecvPhase
<1>2. CASE c.state = "WAIT_EXTERNAL"
  BY <1>2 DEF EnReceive, EnReceiveWaitExternal, EnReceiveStates, RecvPhase
<1>3. CASE c.state = "WAIT_BODY"
  BY <1>3 DEF EnReceive, EnReceiveWaitBody, EnReceiveStates, RecvPhase
<1> QED
  BY <1>1, <1>2, <1>3 DEF EnReceiveStates

\* The BODY request of an EN_RECV stage rises once its sender has withdrawn the
\* token and the latch bank holds it, or holds the dummy.
LEMMA RecvDelayEnds ==
  ASSUME Paced, PacedInv, InputInv, NEW i \in CondIn, EndRecvDelay(i), ~q
  PROVE  /\ recvCtl[i].enabled => ~extReq[i]
         /\ inData[i] = InputPayload(i)
<1>0. /\ DelayMayEnd /\ inReq[i] # recvCtl[i].bodyReq
      /\ recvCtl[i].bodyReq \in BOOLEAN /\ inReq[i] \in BOOLEAN
      /\ RecvPhase(recvCtl[i], inReq[i], q)
  BY RecvPortTypes DEF EndRecvDelay, PacedInv, HeldInv, ControlInv, EnReceiveStates
<1>1. recvCtl[i].bodyReq /\ recvCtl[i].state = "WAIT_BODY"
  BY <1>0 DEF RecvPhase
<1>2. recvCtl[i].enabled => ~extReq[i]
  BY <1>0, <1>1 DEF DelayMayEnd, PacedInv, PaceInv
<1>3. CASE recvCtl[i].enabled
  BY <1>1, <1>2, <1>3 DEF InputInv, InputPayload
<1>4. CASE ~recvCtl[i].enabled
  <2>1. ~RecvStorageExcited(i)
    BY <1>0 DEF DelayMayEnd, Settled
  <2> QED BY <1>1, <1>4, <2>1 DEF RecvStorageExcited, EnReceiveStorageOpen, RecvStorageData,
                                  InputPayload
<1> QED
  BY <1>2, <1>3, <1>4

\* Every step keeps the token of a conditional input where InputInv puts it.
LEMMA CondInputStep ==
  ASSUME SelHeld, Paced, SettledPartners, PacedInv, InputInv, StepCases, NEW i \in CondIn
  PROVE  /\ extReq'[i] => extData'[i] = sent'[i]
         /\ recvCtl'[i].bodyReq /\ recvCtl'[i].enabled /\ ~extReq'[i] => inData'[i] = sent'[i]
         /\ (inReq'[i] \/ q') /\ recvCtl'[i].enabled => ~extReq'[i]
<1>0. /\ WireTypeOK /\ StageTypeOK /\ StageInv
      /\ recvCtl[i] \in EnReceiveStates /\ RecvPhase(recvCtl[i], inReq[i], q) /\ i \in Inputs
      /\ recvEnable[i].req \in BOOLEAN /\ recvEnable[i].data \in BOOLEAN
      /\ extReq[i] \in BOOLEAN /\ inReq[i] \in BOOLEAN /\ q \in BOOLEAN
      /\ extReq[i] => extData[i] = sent[i]
      /\ recvCtl[i].bodyReq /\ recvCtl[i].enabled /\ ~extReq[i] => inData[i] = sent[i]
      /\ (inReq[i] \/ q) /\ recvCtl[i].enabled => ~extReq[i]
  BY RecvPortTypes DEF PacedInv, HeldInv, WireTypeOK, ControlInv, InputInv
<1>1. CASE StartBody
  <2>1. /\ ControllerExcited /\ UNCHANGED <<inReq, inData, recvCtl, extReq, extData, sent>>
    BY <1>1 DEF StartBody, SwitchController, recvVars
  <2>2. inReq[i] \/ q
    BY <1>0, <2>1, ControllerSwitch
  <2> QED BY <1>0, <2>1, <2>2
<1>2. CASE \E k \in CondIn : EvaluateEnReceive(k)
  <2>1. /\ UNCHANGED <<inReq, inData, q, extReq, extData, sent>>
        /\ recvCtl'[i] = recvCtl[i] \/ recvCtl'[i] = RecvCtlValue(i)
    BY <1>0, <1>2 DEF EvaluateEnReceive, WireTypeOK, stageVars
  <2>2. CASE recvCtl'[i] = recvCtl[i]
    BY <1>0, <2>1, <2>2
  <2>3. CASE recvCtl'[i] = RecvCtlValue(i)
    BY <1>0, <2>1, <2>3, RecvHolds DEF RecvCtlValue, base_Lack
  <2> QED BY <2>1, <2>2, <2>3
<1>3. CASE \E k \in CondIn : PassRecvStorage(k)
  <2> PICK k \in CondIn : PassRecvStorage(k) BY <1>3
  <2>1. UNCHANGED <<inReq, q, recvCtl, extReq, extData, sent>>
    BY DEF PassRecvStorage, recvVars
  <2>2. inData'[i] = inData[i] \/ EnReceiveStorageOpen(recvCtl[i], extReq[i])
    BY <1>0 DEF PassRecvStorage, RecvStorageExcited, StageTypeOK
  <2> QED BY <1>0, <2>1, <2>2 DEF EnReceiveStorageOpen
<1>4. CASE \E k \in CondIn : EndRecvDelay(k)
  <2> PICK k \in CondIn : EndRecvDelay(k) BY <1>4
  <2>1. /\ UNCHANGED <<inData, q, recvCtl, extReq, extData, sent>>
        /\ inReq' = [inReq EXCEPT ![k] = recvCtl[k].bodyReq]
    BY DEF EndRecvDelay, recvVars
  <2>2. k = i /\ ~q /\ recvCtl[i].enabled => ~extReq[i]
    BY RecvDelayEnds
  <2>3. k # i => inReq'[i] = inReq[i]
    BY <1>0, <2>1 DEF StageTypeOK
  <2> QED BY <1>0, <2>1, <2>2, <2>3
<1>5. CASE \E k \in Inputs : Offer(k) \/ Retract(k)
  <2> PICK k \in Inputs : Offer(k) \/ Retract(k) BY <1>5
  <2>1. UNCHANGED <<q, recvCtl, extReq, extData>> /\ k # i
    BY DEF Offer, Retract, recvVars
  <2>2. inReq'[i] = inReq[i] /\ inData'[i] = inData[i] /\ sent'[i] = sent[i]
    BY <1>0, <2>1 DEF Offer, Retract, StageTypeOK, WireTypeOK
  <2> QED BY <1>0, <2>1, <2>2
<1>6. CASE \E k \in CondIn : OfferExternal(k)
  <2> PICK k \in CondIn : OfferExternal(k) BY <1>6
  <2>1. UNCHANGED <<inReq, inData, q, recvCtl>>
    BY DEF OfferExternal, stageVars
  <2>2. CASE k = i
    <3>1. /\ extReq'[i] /\ extData'[i] = sent'[i] /\ recvCtl[i].state # "WAIT_BODY"
      BY <1>0, <2>2 DEF OfferExternal, MayStart, WireTypeOK
    <3>2. ~inReq[i] /\ ~q
      BY <1>0, <3>1 DEF RecvPhase
    <3> QED BY <2>1, <3>1, <3>2
  <2>3. CASE k # i
    <3>1. extReq'[i] = extReq[i] /\ extData'[i] = extData[i] /\ sent'[i] = sent[i]
      BY <1>0, <2>3 DEF OfferExternal, WireTypeOK
    <3> QED BY <1>0, <2>1, <3>1
  <2> QED BY <2>2, <2>3
<1>7. CASE \E k \in CondIn : RetractExternal(k)
  <2> PICK k \in CondIn : RetractExternal(k) BY <1>7
  <2>1. UNCHANGED <<inReq, inData, q, recvCtl, sent>>
    BY DEF RetractExternal, stageVars
  <2>2. CASE k = i
    <3>1. extReq[i] /\ recvCtl[i].externalAck /\ ~extReq'[i] /\ ~RecvStorageExcited(i)
      BY <1>0, <2>2 DEF RetractExternal, PartnerMayMove, Settled, WireTypeOK
    <3>2. recvCtl[i].bodyReq /\ recvCtl[i].enabled => inData[i] = sent[i]
      BY <1>0, <3>1 DEF RecvStorageExcited, EnReceiveStorageOpen, RecvStorageData
    <3> QED BY <2>1, <3>1, <3>2
  <2>3. CASE k # i
    <3>1. extReq'[i] = extReq[i] /\ extData'[i] = extData[i]
      BY <1>0, <2>3 DEF RetractExternal, WireTypeOK
    <3> QED BY <1>0, <2>1, <3>1
  <2> QED BY <2>2, <2>3
<1>8. CASE UNCHANGED <<inReq, inData, q, recvCtl, extReq, extData, sent>>
  BY <1>0, <1>8
<1> QED
  BY <1>1, <1>2, <1>3, <1>4, <1>5, <1>6, <1>7, <1>8
  DEF StepCases, BodyGateStep, bodyOnly, ReleaseReset, SwitchReqCell, SwitchAckCell, PassLatch,
      EndBodyDelay, EndDelay, CaptureEnable, LaunchEnable, EvaluateEnSend, PassSendStorage,
      EndSendDelay, Take, Release, TakeExternal, ReleaseExternal, ChangeSel, AssertReset, vars,
      stageVars, recvVars

\* The BODY input shows the token or the dummy as long as the BODY may read it.
LEMMA InputStep ==
  ASSUME SelHeld, Paced, SettledPartners, PacedInv, InputInv, StepCases, NEW i \in Inputs,
         inReq'[i] \/ q'
  PROVE  inData'[i] = InputPayload(i)'
<1>0. /\ WireTypeOK /\ StageTypeOK /\ StageInv
      /\ inReq[i] \in BOOLEAN /\ q \in BOOLEAN
      /\ inReq[i] \/ q => inData[i] = InputPayload(i)
  BY DEF PacedInv, HeldInv, WireTypeOK, StageTypeOK, ControlInv, InputInv
<1>a. ASSUME i \in CondIn
      PROVE  /\ recvCtl[i] \in EnReceiveStates /\ RecvPhase(recvCtl[i], inReq[i], q)
             /\ recvEnable[i].req \in BOOLEAN /\ recvEnable[i].data \in BOOLEAN
             /\ extReq[i] \in BOOLEAN
             /\ (inReq[i] \/ q) /\ recvCtl[i].enabled => ~extReq[i]
  BY <1>a, RecvPortTypes DEF PacedInv, HeldInv, ControlInv, InputInv
<1>1. CASE StartBody
  <2>1. ControllerExcited /\ UNCHANGED <<inReq, inData, recvCtl, sent>>
    BY <1>1 DEF StartBody, SwitchController, recvVars
  <2>2. inReq[i] \/ q
    BY <1>0, <2>1, ControllerSwitch
  <2> QED BY <1>0, <2>1, <2>2 DEF InputPayload
<1>2. CASE \E k \in CondIn : EvaluateEnReceive(k)
  <2>1. /\ UNCHANGED <<inReq, inData, q, sent>>
        /\ i \in CondIn => recvCtl'[i] = recvCtl[i] \/ recvCtl'[i] = RecvCtlValue(i)
    BY <1>0, <1>2 DEF EvaluateEnReceive, WireTypeOK, stageVars
  <2>2. i \in CondIn => recvCtl'[i].enabled = recvCtl[i].enabled
    BY <1>0, <1>a, <2>1, RecvHolds DEF RecvCtlValue, base_Lack
  <2> QED BY <1>0, <2>1, <2>2 DEF InputPayload
<1>3. CASE \E k \in CondIn : PassRecvStorage(k)
  <2> PICK k \in CondIn : PassRecvStorage(k) BY <1>3
  <2>1. UNCHANGED <<inReq, q, recvCtl, sent>>
    BY DEF PassRecvStorage, recvVars
  <2>2. CASE k # i
    <3>1. inData'[i] = inData[i]
      BY <1>0, <2>2 DEF PassRecvStorage, StageTypeOK
    <3> QED BY <1>0, <2>1, <3>1 DEF InputPayload
  <2>3. CASE k = i
    <3>1. inData'[i] = RecvStorageData(i) /\ EnReceiveStorageOpen(recvCtl[i], extReq[i])
      BY <1>0, <2>3 DEF PassRecvStorage, RecvStorageExcited, StageTypeOK
    <3>2. ~recvCtl[i].enabled
      BY <1>0, <1>a, <2>1, <2>3, <3>1 DEF EnReceiveStorageOpen
    <3> QED BY <2>1, <2>3, <3>1, <3>2 DEF InputPayload, RecvStorageData
  <2> QED BY <2>2, <2>3
<1>4. CASE \E k \in CondIn : EndRecvDelay(k)
  <2> PICK k \in CondIn : EndRecvDelay(k) BY <1>4
  <2>1. /\ UNCHANGED <<inData, q, recvCtl, sent>>
        /\ inReq' = [inReq EXCEPT ![k] = recvCtl[k].bodyReq]
    BY DEF EndRecvDelay, recvVars
  <2>2. k = i /\ ~q => inData[i] = InputPayload(i)
    BY RecvDelayEnds
  <2>3. k # i => inReq'[i] = inReq[i]
    BY <1>0, <2>1 DEF StageTypeOK
  <2> QED BY <1>0, <2>1, <2>2, <2>3 DEF InputPayload
<1>5. CASE \E k \in Inputs : Offer(k) \/ Retract(k)
  <2> PICK k \in Inputs : Offer(k) \/ Retract(k) BY <1>5
  <2>1. UNCHANGED <<q, recvCtl>> /\ k \notin CondIn
    BY DEF Offer, Retract, recvVars
  <2>2. CASE k # i
    <3>1. inReq'[i] = inReq[i] /\ inData'[i] = inData[i] /\ sent'[i] = sent[i]
      BY <1>0, <2>2 DEF Offer, Retract, StageTypeOK, WireTypeOK
    <3> QED BY <1>0, <2>1, <3>1 DEF InputPayload
  <2>3. CASE k = i /\ Offer(k)
    <3>1. inData'[i] = sent'[i]
      BY <1>0, <2>3 DEF Offer, StageTypeOK, WireTypeOK
    <3> QED BY <2>1, <2>3, <3>1 DEF InputPayload
  <2>4. CASE k = i /\ Retract(k)
    BY <1>0, <2>1, <2>4 DEF Retract, base_Lack, InputPayload
  <2> QED BY <2>2, <2>3, <2>4
<1>6. CASE \E k \in CondIn : OfferExternal(k)
  <2> PICK k \in CondIn : OfferExternal(k) BY <1>6
  <2>1. UNCHANGED <<inReq, inData, q, recvCtl>>
    BY DEF OfferExternal, stageVars
  <2>2. k # i
    <3>1. k = i => recvCtl[i].state # "WAIT_BODY"
      BY DEF OfferExternal, MayStart
    <3> QED BY <1>a, <2>1, <3>1 DEF RecvPhase
  <2>3. sent'[i] = sent[i]
    BY <1>0, <2>2 DEF OfferExternal, WireTypeOK
  <2> QED BY <1>0, <2>1, <2>3 DEF InputPayload
<1>7. CASE UNCHANGED <<inReq, inData, q, recvCtl, sent>>
  BY <1>0, <1>7 DEF InputPayload
<1> QED
  BY <1>1, <1>2, <1>3, <1>4, <1>5, <1>6, <1>7
  DEF StepCases, BodyGateStep, bodyOnly, ReleaseReset, SwitchReqCell, SwitchAckCell, PassLatch,
      EndBodyDelay, EndDelay, CaptureEnable, LaunchEnable, EvaluateEnSend, PassSendStorage,
      EndSendDelay, RetractExternal, Take, Release, TakeExternal, ReleaseExternal, ChangeSel,
      AssertReset, vars, stageVars, recvVars

-----------------------------------------------------------------------------
(***************************************************************************)
(* The results.                                                            *)
(***************************************************************************)
\* At first no latch has a result.
LEMMA ResultInit == Init => ResultInv
  BY DEF Init, StageInit, ResultInv, Pending, Offered, EnSendReset

\* While q is high the latches are offered the result of this transaction...
LEMMA StartedInputs ==
  ASSUME PacedInv, InputInv, q
  PROVE  inData = TransactionResult(guard)
<1>1. inData \in [Inputs -> Payload]
  BY DEF PacedInv, HeldInv, WireTypeOK, StageTypeOK
<1>2. ASSUME NEW i \in Inputs PROVE inData[i] = TransactionResult(guard)[i]
  <2>1. inData[i] = InputPayload(i)
    BY DEF InputInv
  <2>2. CASE i \in CondIn
    <3>1. recvCtl[i].enabled = EnableValue(RecvWhen[i], guard)
      BY <2>2 DEF PacedInv, PaceInv, HeldInv, ControlInv, RecvPhase
    <3> QED BY <2>1, <2>2, <3>1 DEF InputPayload, TransactionResult
  <2>3. CASE i \notin CondIn
    <3>1. EnableValue(RecvWhen[i], guard)
      BY <2>3 DEF CondIn, EnableValue
    <3> QED BY <2>1, <2>3, <3>1 DEF InputPayload, TransactionResult
  <2> QED BY <2>2, <2>3
<1> QED
  BY <1>1, <1>2 DEF TransactionResult

\* ... which no sender and no guard changes before q falls.
LEMMA ResultKept ==
  ASSUME SelHeld, Paced, PacedInv, StepCases, q
  PROVE  TransactionResult(guard)' = TransactionResult(guard)
<1>1. guard' = guard
  BY GuardMoves DEF PacedInv, HeldInv
<1>2. ~\E i \in Inputs : Offer(i)
  BY DEF Offer, base_Lack
<1>3. ~\E i \in CondIn : OfferExternal(i)
  BY DEF OfferExternal, MayStart, PacedInv, HeldInv, ControlInv, RecvPhase
<1>4. UNCHANGED sent
  BY <1>2, <1>3
  DEF StepCases, BodyGateStep, bodyOnly, StartBody, EndBodyDelay, CaptureEnable,
      EvaluateEnReceive, PassRecvStorage, EndRecvDelay, LaunchEnable, EvaluateEnSend,
      PassSendStorage, EndSendDelay, Retract, RetractExternal, Take, Release, TakeExternal,
      ReleaseExternal, ChangeSel, AssertReset, vars
<1> QED
  BY <1>1, <1>4 DEF TransactionResult

\* A BODY request rises over the result.
LEMMA LatchStep ==
  ASSUME SelHeld, Paced, PacedInv, InputInv, ResultInv, StepCases, NEW j \in Outputs,
         q', rreq'[j]
  PROVE  latch'[j] = TransactionResult(guard)'
<1>0. /\ WireTypeOK /\ StageTypeOK /\ StageInv /\ ControlInv /\ q \in BOOLEAN
      /\ q /\ rreq[j] => latch[j] = TransactionResult(guard)
  BY DEF PacedInv, HeldInv, WireTypeOK, StageTypeOK, ControlInv, ResultInv
<1>1. ~StartBody
  <2>1. ASSUME StartBody PROVE FALSE
    <3>1. ControllerExcited /\ UNCHANGED rreq /\ ~q
      BY <1>0, <2>1, RackStep DEF StartBody, SwitchController
    <3> QED BY <1>0, <3>1, ControllerSwitch
  <2> QED BY <2>1
<1>2. q
  BY <1>0, <1>1, RackStep
<1>3. TransactionResult(guard)' = TransactionResult(guard) /\ inData = TransactionResult(guard)
  BY <1>2, ResultKept, StartedInputs
<1>4. CASE \E k \in Outputs : PassLatch(k)
  <2> PICK k \in Outputs : PassLatch(k) BY <1>4
  <2>1. UNCHANGED rreq /\ latch'[j] = IF j = k THEN inData ELSE latch[j]
    BY <1>0 DEF PassLatch, BodyData, StageTypeOK
  <2> QED BY <1>0, <1>2, <1>3, <2>1
<1>5. CASE \E k \in Outputs : EndBodyDelay(k)
  <2> PICK k \in Outputs : EndBodyDelay(k) BY <1>5
  <2>1. UNCHANGED latch /\ (j # k => rreq'[j] = rreq[j])
    BY <1>0 DEF EndBodyDelay, EndDelay, StageTypeOK
  <2>2. j = k => latch[j] = inData
    BY <1>2 DEF EndBodyDelay, EndDelay, PayloadSettled, storage_enable, BodyData
  <2> QED BY <1>0, <1>2, <1>3, <2>1, <2>2
<1>6. CASE UNCHANGED <<rreq, latch>>
  BY <1>0, <1>2, <1>3, <1>6
<1> QED
  BY <1>1, <1>4, <1>5, <1>6
  DEF StepCases, BodyGateStep, bodyOnly, ReleaseReset, SwitchReqCell, SwitchAckCell,
      CaptureEnable, EvaluateEnReceive, PassRecvStorage, EndRecvDelay, LaunchEnable,
      EvaluateEnSend, PassSendStorage, EndSendDelay, Offer, Retract, OfferExternal,
      RetractExternal, Take, Release, TakeExternal, ReleaseExternal, ChangeSel, AssertReset,
      vars, stageVars

\* A result the BODY has yet to hand over was pending before, except at the start.
LEMMA PendingStep ==
  ASSUME SelHeld, PacedInv, StepCases, NEW j \in Outputs, q, Pending(j)'
  PROVE  Pending(j)
<1>0. /\ WireTypeOK /\ StageTypeOK /\ StageInv /\ ControlInv /\ guard' = guard
      /\ q \in BOOLEAN /\ outAck \in [Outputs -> BOOLEAN] /\ rreq[j] \in BOOLEAN
      /\ q /\ outAck[j] => rreq[j]
  BY GuardMoves DEF PacedInv, HeldInv, WireTypeOK, StageTypeOK, ControlInv, StageInv, OutputPhase
<1>1. outAck[j] => outAck'[j]
  <2>1. CASE \/ \E k \in Outputs : Take(k) \/ Release(k)
             \/ \E k \in CondOut : EvaluateEnSend(k)
    <3> PICK k \in Outputs : Take(k) \/ Release(k) \/ (k \in CondOut /\ EvaluateEnSend(k))
      BY <2>1, CondPorts
    <3> QED BY <1>0, AcknowledgeStep
  <2>2. CASE UNCHANGED outAck
    BY <2>2
  <2> QED
    BY <2>1, <2>2
    DEF StepCases, BodyGateStep, bodyOnly, ReleaseReset, SwitchReqCell, SwitchAckCell, PassLatch,
        StartBody, SwitchController, EndBodyDelay, EndDelay, CaptureEnable, EvaluateEnReceive,
        PassRecvStorage, EndRecvDelay, LaunchEnable, PassSendStorage, EndSendDelay, Offer,
        Retract, OfferExternal, RetractExternal, TakeExternal, ReleaseExternal, ChangeSel,
        AssertReset, vars, stageVars
<1> QED
  BY <1>0, <1>1 DEF Pending

\* The youngest result a receiver is owed is that of the transaction under way.
LEMMA LastDueStep ==
  ASSUME SelHeld, Paced, PacedInv, ResultInv, StepCases, NEW j \in Outputs, Pending(j)'
  PROVE  due'[j][Len(due'[j])] = TransactionResult(guard)'
<1>0. /\ WireTypeOK /\ ControlInv /\ q \in BOOLEAN
      /\ due \in [Outputs -> Seq([Inputs -> Payload])]
      /\ Pending(j) => due[j][Len(due[j])] = TransactionResult(guard)
      /\ Len(due[j]) = (IF Offered(j) THEN 1 ELSE 0) + (IF Pending(j) THEN 1 ELSE 0)
  BY DEF PacedInv, HeldInv, WireTypeOK, StageTypeOK, ResultInv, OwedInv
<1>1. CASE ~q
  <2>1. StartBody
    BY <1>0, <1>1, RackStep DEF Pending
  <2>2. UNCHANGED sent /\ due' = DueWith(guard') /\ EnableValue(SendWhen[j], guard')
    BY <1>1, <2>1 DEF StartBody, Pending
  <2>3. TransactionResult(guard)' = TransactionResult(guard')
    BY <2>2 DEF TransactionResult
  <2>4. due'[j] = Append(due[j], TransactionResult(guard'))
    BY <2>2 DEF DueWith
  <2>5. TransactionResult(guard') \in [Inputs -> Payload]
    BY <1>0, ResultTypes
  <2> QED BY <1>0, <2>3, <2>4, <2>5, QueueGrows
<1>2. CASE q
  <2>1. Pending(j) /\ TransactionResult(guard)' = TransactionResult(guard)
    BY <1>2, PendingStep, ResultKept
  <2>2. CASE j \in CondOut /\ TakeExternal(j)
    <3>1. extRreq[j] /\ ~extRack[j]
      BY <2>2 DEF TakeExternal
    <3>2. Offered(j)
      BY <1>0, <2>2, <3>1 DEF Offered, ControlInv, SendPhase
    <3>3. due[j] \in Seq([Inputs -> Payload]) /\ Len(due[j]) = 2
      <4>1. Len(due[j]) = (IF TRUE THEN 1 ELSE 0) + (IF TRUE THEN 1 ELSE 0)
        BY <1>0, <2>1, <3>2, Zenon
      <4>2. due[j] \in Seq([Inputs -> Payload])
        BY <1>0
      <4> QED BY <4>1, <4>2
    <3>4. due[j] # <<>> /\ Len(Tail(due[j])) = 1 /\ Tail(due[j])[1] = due[j][2]
      BY <3>3, QueueEnds
    <3>5. due'[j] = Tail(due[j])
      BY <1>0, <2>2, <3>4 DEF TakeExternal
    <3> QED BY <1>0, <2>1, <3>3, <3>4, <3>5
  <2>3. CASE due'[j] = due[j]
    BY <1>0, <2>1, <2>3
  <2>4. ~(Take(j) /\ j \in Outputs)
    BY <1>0 DEF Take, Pending, WireTypeOK, StageTypeOK
  <2>5. StartBody => due'[j] = due[j]
    BY <1>0, <1>2, RackStep DEF StartBody
  <2>6. (\E k \in Outputs : Take(k) \/ Release(k)) => due'[j] = due[j]
    BY <1>0, <2>4 DEF Take, Release
  <2>7. (\E k \in CondOut : TakeExternal(k)) => (j \in CondOut /\ TakeExternal(j)) \/ due'[j] = due[j]
    BY <1>0 DEF TakeExternal
  <2>8. UNCHANGED due => due'[j] = due[j]
    OBVIOUS
  <2> QED
    BY <2>2, <2>3, <2>5, <2>6, <2>7, <2>8
    DEF StepCases, BodyGateStep, bodyOnly, EndBodyDelay, CaptureEnable, EvaluateEnReceive,
        PassRecvStorage, EndRecvDelay, LaunchEnable, EvaluateEnSend, PassSendStorage,
        EndSendDelay, Offer, Retract, OfferExternal, RetractExternal, ReleaseExternal,
        ChangeSel, AssertReset, vars
<1> QED
  BY <1>0, <1>1, <1>2

\* EN_SEND takes over the result that the BODY latches hold.
LEMMA OfferedAtSend ==
  ASSUME SelHeld, PacedInv, ResultInv, NEW j \in CondOut, EvaluateEnSend(j), Offered(j)'
  PROVE  /\ sendCtl'[j].bodyAck => latch'[j] = Head(due'[j])
         /\ extRreq'[j] \/ ~rreq'[j] \/ ~sendCtl'[j].bodyAck => extLatch'[j] = Head(due'[j])
<1> DEFINE c == sendCtl[j]
           d == SendCtlValue(j)
<1>0. /\ c \in EnSendStates /\ d \in EnSendStates /\ SendPhase(c, extRreq[j], extRack[j])
      /\ sendEnable[j].req \in BOOLEAN /\ sendEnable[j].data \in BOOLEAN
      /\ rreq[j] \in BOOLEAN /\ extRack[j] \in BOOLEAN /\ j \in Outputs
      /\ outAck[j] = c.bodyAck /\ sendCtl \in [CondOut -> EnSendStates]
      /\ outAck \in [Outputs -> BOOLEAN]
  BY SendPortTypes, ValueTypes DEF PacedInv, HeldInv, WireTypeOK, StageTypeOK, ControlInv
<1>1. /\ sendCtl'[j] = d /\ outAck'[j] = d.bodyAck
      /\ UNCHANGED <<q, guard, latch, rreq, extLatch, extRreq, extRack, due>>
  BY <1>0 DEF EvaluateEnSend
<1>2. d = EnSend(c, sendEnable[j].req, sendEnable[j].data, rreq[j], extRack[j])
  BY DEF SendCtlValue
<1>3. /\ Offered(j) <=> c.externalReq /\ ~extRack[j]
      /\ d.externalReq /\ ~extRack[j]
  BY <1>1 DEF Offered
<1>4. Owed(j)' = Owed(j)
  BY OwedAtSend DEF PacedInv, HeldInv
<1>5. /\ Offered(j) /\ c.bodyAck => latch[j] = Head(due[j])
      /\ Offered(j) /\ (extRreq[j] \/ ~rreq[j] \/ ~c.bodyAck) => extLatch[j] = Head(due[j])
  BY <1>0 DEF ResultInv
<1> HIDE DEF c, d
<1>6. CASE c.state = "ACTIVE"
  <2>1. /\ d.bodyAck <=> c.bodyAck /\ rreq[j]
        /\ d.externalReq => c.externalReq
    BY <1>0, <1>2, <1>6 DEF EnSend, EnSendActive, EnSendStates
  <2> QED BY <1>0, <1>1, <1>3, <1>5, <2>1
<1>7. CASE c.state # "ACTIVE"
  <2>1. ~c.bodyAck /\ ~c.externalReq /\ ~extRreq[j]
    BY <1>0, <1>7 DEF SendPhase
  <2>2. d.bodyAck /\ rreq[j]
    <3>1. CASE c.state = "IDLE"
      BY <1>0, <1>2, <1>3, <2>1, <3>1 DEF EnSend, EnSendIdle
    <3>2. CASE c.state = "WAIT_BODY"
      BY <1>0, <1>2, <1>3, <2>1, <3>2 DEF EnSend, EnSendWaitBody, EnSendStates
    <3> QED BY <1>0, <1>7, <3>1, <3>2 DEF EnSendStates
  <2>3. Pending(j) /\ Len(due[j]) = 1
    <3>1. ~Pending(j)' /\ ~Offered(j)
      BY <1>1, <1>3, <2>1, <2>2 DEF Pending
    <3>2. Owed(j)' = 1
      BY <3>1 DEF Owed
    <3>3. Pending(j)
      BY <1>4, <3>1, <3>2 DEF Owed
    <3>4. Len(due[j]) = Owed(j)
      BY <1>0 DEF Owed, PacedInv, HeldInv, OwedInv
    <3> QED BY <1>4, <3>2, <3>3, <3>4
  <2>4. latch[j] = TransactionResult(guard)
    BY <1>0, <2>2, <2>3 DEF ResultInv, Pending
  <2>5. due[j][1] = TransactionResult(guard)
    BY <1>0, <2>3 DEF ResultInv
  <2>6. Head(due[j]) = due[j][1]
    <3>1. due[j] \in Seq([Inputs -> Payload])
      BY <1>0 DEF PacedInv, HeldInv, WireTypeOK
    <3> QED BY <2>3, <3>1, QueueEnds
  <2> QED BY <1>1, <2>1, <2>2, <2>4, <2>5, <2>6
<1> QED
  BY <1>6, <1>7

\* Otherwise it keeps offering what it has taken over.
LEMMA OfferedKept ==
  ASSUME SelHeld, PacedInv, StepCases, NEW j \in CondOut, ~EvaluateEnSend(j), Offered(j)'
  PROVE  /\ Offered(j) /\ sendCtl'[j] = sendCtl[j]
         /\ Head(due'[j]) = Head(due[j])
<1>0. /\ j \in Outputs /\ due \in [Outputs -> Seq([Inputs -> Payload])]
      /\ SendPhase(sendCtl[j], extRreq[j], extRack[j])
      /\ sendCtl \in [CondOut -> EnSendStates] /\ extRack \in [CondOut -> BOOLEAN]
      /\ q \in BOOLEAN
  BY CondPorts DEF PacedInv, HeldInv, WireTypeOK, StageTypeOK, ControlInv
<1>1. sendCtl'[j] = sendCtl[j]
  <2>1. CASE \E k \in CondOut : EvaluateEnSend(k)
    BY <1>0, <2>1 DEF EvaluateEnSend
  <2>2. CASE UNCHANGED sendCtl
    BY <2>2
  <2> QED
    BY <2>1, <2>2
    DEF StepCases, BodyGateStep, bodyOnly, StartBody, EndBodyDelay, CaptureEnable,
        EvaluateEnReceive, PassRecvStorage, EndRecvDelay, LaunchEnable, PassSendStorage,
        EndSendDelay, Offer, Retract, OfferExternal, RetractExternal, Take, Release,
        TakeExternal, ReleaseExternal, ChangeSel, AssertReset, vars, sendVars
<1>2. CASE \E k \in CondOut : TakeExternal(k) \/ ReleaseExternal(k)
  <2> PICK k \in CondOut : TakeExternal(k) \/ ReleaseExternal(k) BY <1>2
  <2>1. CASE k # j
    <3>1. extRack'[j] = extRack[j] /\ due'[j] = due[j]
      BY <1>0, <2>1 DEF TakeExternal, ReleaseExternal
    <3> QED BY <1>1, <3>1 DEF Offered
  <2>2. CASE k = j /\ TakeExternal(k)
    <3>1. extRack'[j]
      BY <1>0, <2>2 DEF TakeExternal
    <3> QED BY <3>1 DEF Offered
  <2>3. CASE k = j /\ ReleaseExternal(k)
    <3>1. ~extRreq[j] /\ extRack[j]
      BY <2>3 DEF ReleaseExternal
    <3>2. ~sendCtl[j].externalReq
      BY <1>0, <3>1 DEF SendPhase
    <3> QED BY <1>1, <3>2 DEF Offered
  <2> QED BY <2>1, <2>2, <2>3
<1>3. CASE UNCHANGED extRack
  <2>1. Offered(j)
    BY <1>1, <1>3 DEF Offered
  <2>2. due[j] # <<>>
    <3>1. Len(due[j]) = (IF TRUE THEN 1 ELSE 0) + (IF Pending(j) THEN 1 ELSE 0)
      BY <1>0, <2>1, Zenon DEF PacedInv, HeldInv, OwedInv
    <3>2. Len(due[j]) # 0
      BY <3>1
    <3> QED BY <1>0, <3>2, QueueEnds
  <2>3. CASE StartBody
    <3>1. due'[j] \in {due[j], Append(due[j], TransactionResult(guard'))}
      BY <1>0, <2>3 DEF StartBody, DueWith
    <3>2. TransactionResult(guard') \in [Inputs -> Payload]
      BY ResultTypes DEF PacedInv, HeldInv
    <3>3. due[j] \in Seq([Inputs -> Payload])
      BY <1>0
    <3>4. Head(Append(due[j], TransactionResult(guard'))) = Head(due[j])
      BY <2>2, <3>2, <3>3, QueueGrows
    <3> QED BY <1>1, <2>1, <3>1, <3>4
  <2>4. CASE \E k \in Outputs : Take(k) \/ Release(k)
    <3>1. due'[j] = due[j]
      BY <1>0, <2>4 DEF Take, Release
    <3> QED BY <1>1, <2>1, <3>1
  <2>5. CASE UNCHANGED due
    BY <1>1, <2>1, <2>5
  <2> QED
    BY <1>2, <2>3, <2>4, <2>5
    DEF StepCases, BodyGateStep, bodyOnly, EndBodyDelay, CaptureEnable, EvaluateEnReceive,
        PassRecvStorage, EndRecvDelay, LaunchEnable, EvaluateEnSend, PassSendStorage,
        EndSendDelay, Offer, Retract, OfferExternal, RetractExternal, ChangeSel,
        AssertReset, vars
<1> QED
  BY <1>2, <1>3
  DEF StepCases, BodyGateStep, bodyOnly, StartBody, EndBodyDelay, CaptureEnable,
      EvaluateEnReceive, PassRecvStorage, EndRecvDelay, LaunchEnable, EvaluateEnSend,
      PassSendStorage, EndSendDelay, Offer, Retract, OfferExternal, RetractExternal, Take,
      Release, ChangeSel, AssertReset, vars, sendVars

\* The latch bank of EN_SEND holds the result before the external request
\* rises and keeps it until the receiver has taken it.
LEMMA OfferedStep ==
  ASSUME SelHeld, PacedInv, InputInv, ResultInv, StepCases, NEW j \in CondOut, Offered(j)'
  PROVE  /\ sendCtl'[j].bodyAck => latch'[j] = Head(due'[j])
         /\ extRreq'[j] \/ ~rreq'[j] \/ ~sendCtl'[j].bodyAck => extLatch'[j] = Head(due'[j])
<1>1. CASE EvaluateEnSend(j)
  BY <1>1, OfferedAtSend
<1> SUFFICES ASSUME ~EvaluateEnSend(j)
             PROVE  /\ sendCtl'[j].bodyAck => latch'[j] = Head(due'[j])
                    /\ extRreq'[j] \/ ~rreq'[j] \/ ~sendCtl'[j].bodyAck =>
                           extLatch'[j] = Head(due'[j])
  BY <1>1
<1>2. /\ Offered(j) /\ sendCtl'[j] = sendCtl[j] /\ Head(due'[j]) = Head(due[j])
      /\ j \in Outputs
  BY OfferedKept, CondPorts
<1>3. /\ sendCtl[j].bodyAck => latch[j] = Head(due[j])
      /\ extRreq[j] \/ ~rreq[j] \/ ~sendCtl[j].bodyAck => extLatch[j] = Head(due[j])
  BY <1>2 DEF ResultInv
<1>0. /\ WireTypeOK /\ StageTypeOK /\ outAck[j] = sendCtl[j].bodyAck
      /\ q /\ outAck[j] => rreq[j]
  BY <1>2 DEF PacedInv, HeldInv, WireTypeOK, ControlInv, StageInv, OutputPhase
<1>4. DelayMayEnd /\ sendCtl[j].bodyAck => extLatch[j] = Head(due[j])
  BY <1>3 DEF DelayMayEnd, Settled, SendStorageExcited
<1>5. CASE \E k \in Outputs : PassLatch(k) /\ UNCHANGED bodyOnly
  <2> PICK k \in Outputs : PassLatch(k) /\ UNCHANGED bodyOnly BY <1>5
  <2>1. UNCHANGED <<rreq, extRreq, extLatch>>
    BY DEF PassLatch, bodyOnly, sendVars
  <2>2. k # j => latch'[j] = latch[j]
    BY <1>0 DEF PassLatch, StageTypeOK
  <2>3. ASSUME k = j, sendCtl[j].bodyAck PROVE FALSE
    <3>1. q /\ rreq[j] /\ latch[j] # inData
      BY <1>0, <2>3 DEF PassLatch, LatchExcited, storage_enable, BodyData
    <3> QED BY <1>2, <3>1, StartedInputs DEF ResultInv
  <2> QED BY <1>2, <1>3, <2>1, <2>2, <2>3
<1>6. CASE \E k \in Outputs : EndBodyDelay(k)
  <2> PICK k \in Outputs : EndBodyDelay(k) BY <1>6
  <2>1. DelayMayEnd /\ UNCHANGED <<latch, extRreq, extLatch>>
    BY DEF EndBodyDelay, EndDelay, sendVars
  <2> QED BY <1>2, <1>3, <1>4, <2>1
<1>7. CASE \E k \in CondOut : EndSendDelay(k)
  <2> PICK k \in CondOut : EndSendDelay(k) BY <1>7
  <2>1. DelayMayEnd /\ UNCHANGED <<latch, rreq, extLatch>>
    BY DEF EndSendDelay, stageVars
  <2> QED BY <1>2, <1>3, <1>4, <2>1
<1>8. CASE \E k \in CondOut : PassSendStorage(k)
  <2> PICK k \in CondOut : PassSendStorage(k) BY <1>8
  <2>1. UNCHANGED <<latch, rreq, extRreq>>
    BY DEF PassSendStorage, stageVars
  <2>2. extLatch'[j] = IF k = j THEN latch[j] ELSE extLatch[j]
    BY <1>0 DEF PassSendStorage, WireTypeOK
  <2>3. k = j => sendCtl[j].bodyAck
    BY DEF PassSendStorage, SendStorageExcited
  <2> QED BY <1>2, <1>3, <2>1, <2>2, <2>3
<1>9. CASE UNCHANGED <<latch, rreq, extRreq, extLatch>>
  BY <1>2, <1>3, <1>9
<1> QED
  BY <1>5, <1>6, <1>7, <1>8, <1>9
  DEF StepCases, BodyGateStep, bodyOnly, ReleaseReset, SwitchReqCell, SwitchAckCell, StartBody,
      SwitchController, CaptureEnable, EvaluateEnReceive, PassRecvStorage, EndRecvDelay,
      LaunchEnable, EvaluateEnSend, Offer, Retract, OfferExternal, RetractExternal, Take,
      Release, TakeExternal, ReleaseExternal, ChangeSel, AssertReset, vars, stageVars, sendVars

\* The payload invariant is inductive.
LEMMA PayloadStep ==
  SelHeld /\ Paced /\ SettledPartners /\ PacedInv /\ PayloadInv /\ [Next]_vars => PayloadInv'
<1> SUFFICES ASSUME SelHeld, Paced, SettledPartners, PacedInv, PayloadInv, StepCases
             PROVE  PayloadInv'
  BY StepsOfNext
<1>1. InputInv /\ ResultInv
  BY DEF PayloadInv
<1>2. InputInv'
  BY <1>1, CondInputStep, InputStep DEF InputInv
<1>3. ResultInv'
  <2> SUFFICES ASSUME NEW j \in Outputs
               PROVE  (/\ q /\ rreq[j] => latch[j] = TransactionResult(guard)
                       /\ Pending(j) => due[j][Len(due[j])] = TransactionResult(guard)
                       /\ Offered(j) =>
                             /\ sendCtl[j].bodyAck => latch[j] = Head(due[j])
                             /\ extRreq[j] \/ ~rreq[j] \/ ~sendCtl[j].bodyAck =>
                                    extLatch[j] = Head(due[j]))'
    BY DEF ResultInv
  <2>1. q' /\ rreq'[j] => latch'[j] = TransactionResult(guard)'
    BY <1>1, LatchStep
  <2>2. Pending(j)' => due'[j][Len(due'[j])] = TransactionResult(guard)'
    BY <1>1, LastDueStep
  <2>3. Offered(j)' => /\ sendCtl'[j].bodyAck => latch'[j] = Head(due'[j])
                       /\ extRreq'[j] \/ ~rreq'[j] \/ ~sendCtl'[j].bodyAck =>
                              extLatch'[j] = Head(due'[j])
    <3>1. Offered(j)' => j \in CondOut
      BY DEF Offered
    <3> QED BY <1>1, <3>1, OfferedStep
  <2> QED BY <2>1, <2>2, <2>3
<1> QED
  BY <1>2, <1>3 DEF PayloadInv

\* Payloads on the inputs, in the latches and owed to the receivers are those
\* of one transaction of the source, with sel held, senders that keep the pace
\* and partners that move on a settled network.
THEOREM PayloadInvCorrect ==
  ASSUME SelHeld, Paced, SettledPartners PROVE Spec => [](PacedInv /\ PayloadInv)
<1>1. Init => PayloadInv
  BY InputInit, ResultInit DEF PayloadInv
<1>2. PacedInv /\ PayloadInv /\ [Next]_vars => PayloadInv'
  BY PayloadStep
<1>3. Spec => []PacedInv
  BY PacedInvCorrect
<1> QED
  BY <1>1, <1>2, <1>3, PTL DEF Spec

\* Every request a receiver sees carries the result the source transaction
\* owes it, in order, whether it comes from the BODY or through an EN_SEND
\* stage; a disabled Send requests nothing.
THEOREM ResultDeliveredCorrect ==
  ASSUME SelHeld, Paced, SettledPartners PROVE Spec => []ResultDelivered
<1>1. ASSUME PacedInv, PayloadInv PROVE ResultDelivered
  <2>0. ResultInv /\ WireTypeOK /\ ControlInv /\ OwedInv
    BY <1>1 DEF PayloadInv, PacedInv, HeldInv
  <2>1. ASSUME NEW j \in Outputs \ CondOut, rreq[j], ~outAck[j]
        PROVE  due[j] # <<>> /\ latch[j] = Head(due[j])
    <3>0. /\ due[j] \in Seq([Inputs -> Payload]) /\ j \in Outputs
      BY <2>0 DEF WireTypeOK
    <3>1. Pending(j) /\ ~Offered(j) /\ q
      BY <2>0, <2>1, SendValues
      DEF Pending, Offered, ControlInv, StageInv, OutputPhase
    <3>2. Len(due[j]) = 1
      <4>1. Owed(j) = 1
        BY <3>1 DEF Owed
      <4>2. Len(due[j]) = Owed(j)
        BY <2>0, <3>0 DEF Owed, OwedInv
      <4> QED BY <4>1, <4>2
    <3>3. latch[j] = due[j][1]
      BY <2>0, <2>1, <3>0, <3>1, <3>2 DEF ResultInv
    <3> QED BY <3>0, <3>2, <3>3, QueueEnds
  <2>2. ASSUME NEW j \in CondOut, extRreq[j], ~extRack[j]
        PROVE  due[j] # <<>> /\ extLatch[j] = Head(due[j])
    <3>0. /\ due[j] \in Seq([Inputs -> Payload]) /\ j \in Outputs
      BY <2>0, CondPorts DEF WireTypeOK
    <3>1. Offered(j)
      BY <2>0, <2>2 DEF Offered, ControlInv, SendPhase
    <3>2. Len(due[j]) = (IF TRUE THEN 1 ELSE 0) + (IF Pending(j) THEN 1 ELSE 0)
      BY <2>0, <3>0, <3>1, Zenon DEF OwedInv
    <3>3. Len(due[j]) # 0
      BY <3>2
    <3> QED BY <2>0, <2>2, <3>0, <3>1, <3>3, QueueEnds DEF ResultInv
  <2> QED BY <2>1, <2>2 DEF ResultDelivered
<1> QED
  BY <1>1, PayloadInvCorrect, PTL

\* All of it in one theorem, each part under the assumptions it needs.
THEOREM InvCorrect == Spec => []Inv
<1>1. Spec => [](WireTypeOK /\ ControlInv)
  BY ControlInvCorrect
<1>2. Spec => []EnableInv
  BY EnableInvCorrect
<1>3. Spec => [](SelHeld => GuardInv /\ OwedInv)
  <2>1. CASE SelHeld
    <3>1. HeldInv => (SelHeld => GuardInv /\ OwedInv)
      BY DEF HeldInv
    <3> QED BY <2>1, <3>1, HeldInvCorrect, PTL
  <2>2. CASE ~SelHeld
    <3>1. SelHeld => GuardInv /\ OwedInv
      BY <2>2
    <3> QED BY <3>1, PTL
  <2> QED BY <2>1, <2>2
<1>4. Spec => [](SelHeld /\ Paced => PaceInv)
  <2>1. CASE SelHeld /\ Paced
    <3>1. PacedInv => (SelHeld /\ Paced => PaceInv)
      BY DEF PacedInv
    <3> QED BY <2>1, <3>1, PacedInvCorrect, PTL
  <2>2. CASE ~(SelHeld /\ Paced)
    <3>1. SelHeld /\ Paced => PaceInv
      BY <2>2
    <3> QED BY <3>1, PTL
  <2> QED BY <2>1, <2>2
<1>5. Spec => [](SelHeld /\ Paced /\ SettledPartners => PayloadInv)
  <2>1. CASE SelHeld /\ Paced /\ SettledPartners
    BY <2>1, PayloadInvCorrect, PTL
  <2>2. CASE ~(SelHeld /\ Paced /\ SettledPartners)
    <3>1. SelHeld /\ Paced /\ SettledPartners => PayloadInv
      BY <2>2
    <3> QED BY <3>1, PTL
  <2> QED BY <2>1, <2>2
<1>6. /\ WireTypeOK /\ ControlInv /\ EnableInv
      /\ SelHeld => GuardInv /\ OwedInv
      /\ SelHeld /\ Paced => PaceInv
      /\ SelHeld /\ Paced /\ SettledPartners => PayloadInv
      => Inv
  BY DEF Inv
<1> QED
  BY <1>1, <1>2, <1>3, <1>4, <1>5, <1>6, PTL

-----------------------------------------------------------------------------
(***************************************************************************)
(* Tokens.                                                                 *)
(***************************************************************************)
\* Whether a token is fresh is a matter of Boolean wires.
LEMMA FreshTypes ==
  ASSUME WireTypeOK, NEW i \in Inputs
  PROVE  Fresh(i) \in BOOLEAN
  BY RecvPortTypes DEF Fresh, WireTypeOK, StageTypeOK, EnReceiveStates

\* EN_RECV hands its token on without using it: from the external request to
\* its own request to the BODY.
LEMMA TokenHandedOn ==
  ASSUME NEW c \in EnReceiveStates, NEW e \in BOOLEAN, NEW data \in BOOLEAN,
         NEW externalReq \in BOOLEAN, NEW r \in BOOLEAN, NEW ack \in BOOLEAN,
         RecvPhase(c, r, ack),
         NEW d, d = EnReceive(c, e, data, externalReq, ack)
  PROVE  (IF d.state = "WAIT_BODY" /\ d.enabled THEN d.bodyReq /\ ~ack ELSE externalReq)
            <=> (IF c.state = "WAIT_BODY" /\ c.enabled THEN c.bodyReq /\ ~ack ELSE externalReq)
<1>1. CASE c.state = "IDLE"
  BY <1>1 DEF EnReceive, EnReceiveIdle, EnReceiveStates, RecvPhase
<1>2. CASE c.state = "WAIT_EXTERNAL"
  BY <1>2 DEF EnReceive, EnReceiveWaitExternal, EnReceiveStates, RecvPhase
<1>3. CASE c.state = "WAIT_BODY"
  BY <1>3 DEF EnReceive, EnReceiveWaitBody, EnReceiveStates, RecvPhase
<1> QED
  BY <1>1, <1>2, <1>3 DEF EnReceiveStates

\* Only a sender makes a token, ...
LEMMA FreshOffered ==
  ASSUME SelHeld, Paced, PacedInv, NEW k \in Inputs, Offer(k) \/ (k \in CondIn /\ OfferExternal(k))
  PROVE  /\ ~Fresh(k) /\ Fresh(k)'
         /\ \A i \in Inputs \ {k} : Fresh(i)' = Fresh(i)
<1>0. WireTypeOK /\ StageTypeOK
  BY DEF PacedInv, HeldInv, WireTypeOK
<1>1. CASE Offer(k)
  BY <1>0, <1>1 DEF Offer, Fresh, base_Lack, recvVars, StageTypeOK
<1>2. CASE k \in CondIn /\ OfferExternal(k)
  <2>1. recvCtl[k].state # "WAIT_BODY"
    BY <1>2 DEF OfferExternal, MayStart
  <2>2. /\ ~extReq[k] /\ extReq' = [extReq EXCEPT ![k] = TRUE]
        /\ UNCHANGED <<inReq, q, recvCtl>>
    BY <1>2 DEF OfferExternal, stageVars
  <2> QED BY <1>0, <1>2, <2>1, <2>2 DEF Fresh, WireTypeOK
<1> QED
  BY <1>1, <1>2

\* ... only the start of a transaction uses one, if its Receive is enabled, ...
LEMMA FreshUsed ==
  ASSUME SelHeld, Paced, PacedInv, StepCases, StartBody, ~q, NEW i \in Inputs
  PROVE  /\ EnableValue(RecvWhen[i], sel) => Fresh(i)
         /\ Fresh(i)' = (Fresh(i) /\ ~EnableValue(RecvWhen[i], sel))
<1>0. /\ WireTypeOK /\ StageTypeOK /\ StageInv /\ ControlInv /\ q'
      /\ EnableInv /\ GuardInv /\ Fresh(i) \in BOOLEAN
  BY RackStep, FreshTypes DEF PacedInv, HeldInv, WireTypeOK, ControlInv
<1>1. inReq[i] /\ UNCHANGED <<inReq, recvCtl, extReq>>
  <2>1. ControllerExcited /\ UNCHANGED <<inReq, recvCtl, extReq>>
    BY DEF StartBody, SwitchController, recvVars
  <2> QED BY <1>0, <2>1, ControllerSwitch
<1>2. CASE i \notin CondIn
  <2>1. EnableValue(RecvWhen[i], sel)
    BY <1>2 DEF CondIn, EnableValue
  <2> QED BY <1>0, <1>1, <1>2, <2>1 DEF Fresh
<1>3. CASE i \in CondIn
  <2>1. guard = sel
    <3>1. guard' = sel'
      BY <1>0, GuardMoves
    <3>2. guard' = guard /\ sel' = sel
      BY <1>3 DEF StartBody
    <3> QED BY <3>1, <3>2
  <2>2. recvCtl[i].bodyReq /\ recvCtl[i].state = "WAIT_BODY"
    BY <1>0, <1>1, <1>3 DEF ControlInv, RecvPhase
  <2>3. recvCtl[i].enabled = EnableValue(RecvWhen[i], sel)
    BY <1>3, <2>1, <2>2 DEF PacedInv, PaceInv
  <2> QED BY <1>0, <1>1, <1>3, <2>2, <2>3 DEF Fresh
<1> QED
  BY <1>2, <1>3

\* ... and nothing else loses or repeats one.
LEMMA FreshKept ==
  ASSUME SelHeld, Paced, PacedInv, StepCases, NEW i \in Inputs,
         StartBody => q,
         ~\E k \in Inputs : Offer(k), ~\E k \in CondIn : OfferExternal(k)
  PROVE  Fresh(i)' = Fresh(i)
<1>0. /\ WireTypeOK /\ StageTypeOK /\ StageInv /\ ControlInv /\ q \in BOOLEAN
  BY DEF PacedInv, HeldInv, WireTypeOK, StageTypeOK, ControlInv
<1>1. CASE StartBody
  <2>1. /\ ControllerExcited /\ q /\ ~q'
        /\ UNCHANGED <<inReq, recvCtl, extReq>>
    BY <1>0, <1>1, RackStep DEF StartBody, SwitchController, recvVars
  <2>2. ~inReq[i]
    BY <1>0, <2>1, ControllerSwitch
  <2>3. i \in CondIn => ~recvCtl[i].bodyReq
    BY <1>0, <2>1, <2>2 DEF ControlInv, RecvPhase
  <2> QED BY <1>0, <2>1, <2>2, <2>3 DEF Fresh
<1>2. CASE \E k \in Inputs : Retract(k)
  <2> PICK k \in Inputs : Retract(k) BY <1>2
  <2>1. /\ q /\ k \notin CondIn /\ inReq' = [inReq EXCEPT ![k] = FALSE]
        /\ UNCHANGED <<q, recvCtl, extReq>>
    BY DEF Retract, base_Lack, recvVars
  <2> QED BY <1>0, <2>1 DEF Fresh
<1>3. CASE \E k \in CondIn : EndRecvDelay(k)
  <2> PICK k \in CondIn : EndRecvDelay(k) BY <1>3
  <2>1. /\ inReq' = [inReq EXCEPT ![k] = recvCtl[k].bodyReq]
        /\ UNCHANGED <<q, recvCtl, extReq>>
    BY DEF EndRecvDelay, recvVars
  <2>2. i \notin CondIn => inReq'[i] = inReq[i]
    BY <1>0, <2>1 DEF StageTypeOK
  <2> QED BY <2>1, <2>2 DEF Fresh
<1>4. CASE \E k \in CondIn : EvaluateEnReceive(k)
  <2> PICK k \in CondIn : EvaluateEnReceive(k) BY <1>4
  <2>1. /\ recvCtl' = [recvCtl EXCEPT ![k] = RecvCtlValue(k)]
        /\ UNCHANGED <<inReq, q, extReq>>
    BY DEF EvaluateEnReceive, stageVars
  <2>2. CASE k # i
    <3>1. i \in CondIn => recvCtl'[i] = recvCtl[i]
      BY <1>0, <2>1, <2>2 DEF WireTypeOK
    <3> QED BY <2>1, <3>1 DEF Fresh
  <2>3. CASE k = i
    <3> DEFINE c == recvCtl[i]
               d == recvCtl'[i]
    <3>0. /\ c \in EnReceiveStates /\ extReq[i] \in BOOLEAN /\ inReq[i] \in BOOLEAN
          /\ recvEnable[i].req \in BOOLEAN /\ recvEnable[i].data \in BOOLEAN
          /\ RecvPhase(c, inReq[i], q)
      BY <1>0, <2>3, RecvPortTypes DEF ControlInv
    <3>1. d = EnReceive(c, recvEnable[i].req, recvEnable[i].data, extReq[i], q)
      BY <1>0, <2>1, <2>3 DEF RecvCtlValue, base_Lack, WireTypeOK
    <3> HIDE DEF c, d
    <3>2. (IF d.state = "WAIT_BODY" /\ d.enabled THEN d.bodyReq /\ ~q ELSE extReq[i])
            <=> (IF c.state = "WAIT_BODY" /\ c.enabled THEN c.bodyReq /\ ~q ELSE extReq[i])
      BY <1>0, <3>0, <3>1, TokenHandedOn
    <3>3. c.bodyReq \in BOOLEAN /\ d.bodyReq \in BOOLEAN
      BY <3>0, <3>1, EnReceiveType DEF EnReceiveStates
    <3> QED BY <1>0, <2>1, <2>3, <3>0, <3>2, <3>3 DEF Fresh, c, d
  <2> QED BY <2>2, <2>3
<1>5. CASE \E k \in CondIn : RetractExternal(k)
  <2> PICK k \in CondIn : RetractExternal(k) BY <1>5
  <2>1. /\ extReq' = [extReq EXCEPT ![k] = FALSE]
        /\ recvCtl[k].externalAck /\ UNCHANGED <<inReq, q, recvCtl>>
    BY DEF RetractExternal, stageVars
  <2>2. recvCtl[k].state = "WAIT_BODY" /\ recvCtl[k].enabled
    BY <1>0, <2>1 DEF ControlInv, RecvPhase
  <2> QED BY <1>0, <2>1, <2>2 DEF Fresh, WireTypeOK
<1>6. CASE UNCHANGED <<inReq, q, recvCtl, extReq>>
  BY <1>6 DEF Fresh
<1> QED
  BY <1>1, <1>2, <1>3, <1>4, <1>5, <1>6
  DEF StepCases, BodyGateStep, bodyOnly, ReleaseReset, SwitchReqCell, SwitchAckCell, PassLatch,
      EndBodyDelay, EndDelay, CaptureEnable, PassRecvStorage, LaunchEnable, EvaluateEnSend,
      PassSendStorage, EndSendDelay, Take, Release, TakeExternal, ReleaseExternal, ChangeSel,
      AssertReset, vars, stageVars, recvVars

-----------------------------------------------------------------------------
(***************************************************************************)
(* Results.                                                                *)
(***************************************************************************)
\* A receiver is being offered a result.
Active(j) ==
    IF j \notin CondOut THEN rreq[j] /\ ~outAck[j] ELSE extRreq[j] /\ ~extRack[j]

\* A channel with an unanswered request shows the head of what it is owed.
LEMMA ShownIs ==
  ASSUME ResultDelivered, ResultDelivered', NEW j \in Outputs
  PROVE  /\ Active(j) => due[j] # <<>> /\ Shown(j) = {Head(due[j])}
         /\ ~Active(j) => Shown(j) = {}
         /\ Active(j)' => due'[j] # <<>> /\ Shown(j)' = {Head(due'[j])}
         /\ ~Active(j)' => Shown(j)' = {}
  BY DEF ResultDelivered, Active, Shown

\* A matched delay that ends shows the next result or nothing new.
LEMMA DelayShows ==
  ASSUME PacedInv, ResultDelivered, ResultDelivered', NEW k \in Outputs,
         EndBodyDelay(k) \/ (k \in CondOut /\ EndSendDelay(k))
  PROVE  /\ Active(k) => Active(k)'
         /\ \A j \in Outputs \ {k} : Shown(j)' = Shown(j)
         /\ UNCHANGED due
<1>0. /\ WireTypeOK /\ StageTypeOK /\ ControlInv /\ q \in BOOLEAN
      /\ ~q /\ ~outAck[k] => ~rreq[k]
  BY DEF PacedInv, HeldInv, WireTypeOK, StageTypeOK, ControlInv, StageInv, OutputPhase
<1>1. CASE EndBodyDelay(k)
  <2>1. /\ rreq' = [rreq EXCEPT ![k] = q]
        /\ UNCHANGED <<latch, outAck, extLatch, extRreq, extRack, due>>
    BY <1>1 DEF EndBodyDelay, EndDelay, sendVars
  <2> QED BY <1>0, <2>1 DEF Active, Shown, StageTypeOK
<1>2. CASE k \in CondOut /\ EndSendDelay(k)
  <2>1. /\ extRreq' = [extRreq EXCEPT ![k] = sendCtl[k].externalReq]
        /\ UNCHANGED <<latch, rreq, outAck, extLatch, extRack, due>>
    BY <1>2 DEF EndSendDelay, stageVars
  <2>2. extRreq[k] /\ ~extRack[k] => sendCtl[k].externalReq
    BY <1>0, <1>2 DEF ControlInv, SendPhase
  <2>3. Active(k) => Active(k)'
    BY <1>0, <1>2, <2>1, <2>2 DEF Active, WireTypeOK
  <2>4. ASSUME NEW j \in Outputs \ {k} PROVE Shown(j)' = Shown(j)
    <3>1. j \in CondOut => extRreq'[j] = extRreq[j]
      BY <1>0, <2>1, <2>4 DEF WireTypeOK
    <3> QED BY <2>1, <3>1 DEF Shown
  <2> QED BY <2>1, <2>3, <2>4
<1> QED
  BY <1>1, <1>2

\* A receiver that takes a result takes the one it is shown.
LEMMA ReceiverTakes ==
  ASSUME PacedInv, ResultDelivered, ResultDelivered', NEW k \in Outputs,
         Take(k) \/ (k \in CondOut /\ TakeExternal(k))
  PROVE  /\ Active(k) /\ ~Active(k)'
         /\ due' = [due EXCEPT ![k] = Tail(due[k])]
         /\ \A j \in Outputs \ {k} : Shown(j)' = Shown(j)
<1>0. /\ WireTypeOK /\ StageTypeOK
      /\ due \in [Outputs -> Seq([Inputs -> Payload])]
  BY DEF PacedInv, HeldInv, WireTypeOK
<1>1. CASE Take(k)
  <2>1. /\ k \notin CondOut /\ rreq[k] /\ ~outAck[k]
        /\ outAck' = [outAck EXCEPT ![k] = TRUE]
        /\ due' = [due EXCEPT ![k] = IF @ = <<>> THEN @ ELSE Tail(@)]
        /\ UNCHANGED <<latch, rreq, extLatch, extRreq, extRack>>
    BY <1>1 DEF Take, sendVars
  <2>2. Active(k) /\ ~Active(k)'
    BY <1>0, <2>1 DEF Active, StageTypeOK
  <2>3. due[k] # <<>>
    BY <2>2, ShownIs
  <2> QED BY <1>0, <2>1, <2>2, <2>3 DEF Shown, StageTypeOK
<1>2. CASE k \in CondOut /\ TakeExternal(k)
  <2>1. /\ extRreq[k] /\ ~extRack[k]
        /\ extRack' = [extRack EXCEPT ![k] = TRUE]
        /\ due' = [due EXCEPT ![k] = IF @ = <<>> THEN @ ELSE Tail(@)]
        /\ UNCHANGED <<latch, rreq, outAck, extLatch, extRreq>>
    BY <1>2 DEF TakeExternal, stageVars
  <2>2. Active(k) /\ ~Active(k)'
    BY <1>0, <1>2, <2>1 DEF Active, WireTypeOK
  <2>3. due[k] # <<>>
    BY <2>2, ShownIs
  <2>4. ASSUME NEW j \in Outputs \ {k} PROVE Shown(j)' = Shown(j)
    <3>1. j \in CondOut => extRack'[j] = extRack[j]
      BY <1>0, <2>1, <2>4 DEF WireTypeOK
    <3> QED BY <2>1, <3>1 DEF Shown
  <2> QED BY <1>0, <2>1, <2>2, <2>3, <2>4
<1> QED
  BY <1>1, <1>2

\* Nothing else changes what an output shows: latches that move while a
\* request is up move to what is already there.
LEMMA ShownKept ==
  ASSUME PacedInv, ResultDelivered, ResultDelivered', StepCases, NEW j \in Outputs,
         ~\E k \in Outputs : EndBodyDelay(k) \/ Take(k),
         ~\E k \in CondOut : EndSendDelay(k) \/ TakeExternal(k)
  PROVE  Shown(j)' = Shown(j)
<1>0. /\ WireTypeOK /\ StageTypeOK
  BY DEF PacedInv, HeldInv, WireTypeOK
<1>1. CASE \/ \E k \in Outputs : PassLatch(k) /\ UNCHANGED bodyOnly
           \/ \E k \in CondOut : PassSendStorage(k)
  <2>1. UNCHANGED <<rreq, outAck, extRreq, extRack, due>>
    BY <1>1 DEF PassLatch, bodyOnly, PassSendStorage, stageVars, sendVars
  <2>2. Active(j)' = Active(j)
    BY <2>1 DEF Active
  <2> QED BY <2>1, <2>2, ShownIs
<1>2. CASE \E k \in CondOut : EvaluateEnSend(k)
  <2> PICK k \in CondOut : EvaluateEnSend(k) BY <1>2
  <2>1. /\ UNCHANGED <<latch, rreq, extLatch, extRreq, extRack>>
        /\ outAck' = [outAck EXCEPT ![k] = SendCtlValue(k).bodyAck]
    BY DEF EvaluateEnSend
  <2>2. j \notin CondOut => outAck'[j] = outAck[j]
    BY <1>0, <2>1 DEF StageTypeOK
  <2> QED BY <2>1, <2>2 DEF Shown
<1>3. CASE \E k \in Outputs : Release(k)
  <2> PICK k \in Outputs : Release(k) BY <1>3
  <2>1. /\ ~rreq[k] /\ outAck' = [outAck EXCEPT ![k] = FALSE]
        /\ UNCHANGED <<latch, rreq, extLatch, extRreq, extRack>>
    BY DEF Release, sendVars
  <2> QED BY <1>0, <2>1 DEF Shown, StageTypeOK
<1>4. CASE \E k \in CondOut : ReleaseExternal(k)
  <2> PICK k \in CondOut : ReleaseExternal(k) BY <1>4
  <2>1. /\ ~extRreq[k] /\ extRack' = [extRack EXCEPT ![k] = FALSE]
        /\ UNCHANGED <<latch, rreq, outAck, extLatch, extRreq>>
    BY DEF ReleaseExternal, stageVars
  <2> QED BY <1>0, <2>1 DEF Shown, WireTypeOK
<1>5. CASE UNCHANGED <<latch, rreq, outAck, extLatch, extRreq, extRack>>
  BY <1>5 DEF Shown
<1> QED
  BY <1>1, <1>2, <1>3, <1>4, <1>5
  DEF StepCases, BodyGateStep, bodyOnly, ReleaseReset, SwitchReqCell, SwitchAckCell, StartBody,
      SwitchController, CaptureEnable, EvaluateEnReceive, PassRecvStorage, EndRecvDelay,
      LaunchEnable, Offer, Retract, OfferExternal, RetractExternal, ChangeSel, AssertReset,
      vars, stageVars, sendVars

-----------------------------------------------------------------------------
(***************************************************************************)
(* Every step is one of GuardedFlow or none.                               *)
(***************************************************************************)
\* The reset state is the abstract initial state.
LEMMA FlowInitial == Init => Flow!FlowInit
<1> SUFFICES ASSUME Init PROVE Flow!FlowInit
  OBVIOUS
<1>1. ASSUME NEW i \in Inputs PROVE Fresh(i) = FALSE
  BY DEF Init, StageInit, Fresh, EnReceiveReset
<1>2. ASSUME NEW j \in Outputs PROVE Shown(j) = {}
  BY DEF Init, StageInit, Shown
<1> QED
  BY <1>1, <1>2 DEF Init, Flow!FlowInit

\* The two mapped variables of GuardedFlow, as functions.
fresh == [i \in Inputs |-> Fresh(i)]
shown == [j \in Outputs |-> Shown(j)]

\* A rise of the BODY controller is the abstract start of a transaction.
LEMMA StartStep ==
  ASSUME SelHeld, Paced, PacedInv, StepCases, StartBody, ~q, UNCHANGED shown
  PROVE  Flow!StartTransaction
<1>0. /\ q' /\ sel \in BOOLEAN /\ UNCHANGED <<sel, sent>>
      /\ due' = DueWith(guard') /\ guard' = sel
  <2>1. WireTypeOK /\ ControlInv /\ EnableInv /\ GuardInv /\ sel \in BOOLEAN
    BY DEF PacedInv, HeldInv, WireTypeOK
  <2>2. q' /\ UNCHANGED <<sel, sent>> /\ due' = DueWith(guard')
    BY <2>1, RackStep DEF StartBody
  <2> QED BY <2>1, <2>2, GuardMoves
<1>1. \A i \in Inputs : EnableValue(RecvWhen[i], sel) => Fresh(i)
  BY FreshUsed
<1>2. fresh' = [i \in Inputs |-> Fresh(i) /\ ~EnableValue(RecvWhen[i], sel)]
  <2>1. \A i \in Inputs : Fresh(i)' = (Fresh(i) /\ ~EnableValue(RecvWhen[i], sel))
    BY FreshUsed
  <2> QED BY <2>1 DEF fresh
<1>3. ASSUME NEW j \in Outputs, due[j] # <<>>
      PROVE  j \in CondOut /\ Len(due[j]) = 1
  <2>1. due[j] \in Seq([Inputs -> Payload])
    BY DEF PacedInv, HeldInv, WireTypeOK
  <2>2. Len(due[j]) = Owed(j) /\ ~Pending(j)
    BY DEF PacedInv, HeldInv, OwedInv, Owed, Pending
  <2>3. Len(due[j]) # 0
    BY <1>3, <2>1, QueueEnds
  <2>4. Offered(j)
    BY <2>2, <2>3 DEF Owed
  <2> QED BY <2>2, <2>4 DEF Owed, Offered
<1>4. due' = [j \in Outputs |-> IF EnableValue(SendWhen[j], sel)
                                  THEN Append(due[j], TransactionResult(sel)) ELSE due[j]]
  BY <1>0 DEF DueWith
<1>5. TransactionResult(sel) = Flow!Result
  BY <1>0 DEF TransactionResult, Flow!Result
<1> QED
  BY <1>0, <1>1, <1>2, <1>3, <1>4, <1>5 DEF Flow!StartTransaction, fresh, shown

\* Every step is an abstract step or changes nothing abstract.
LEMMA FlowStep ==
  SelHeld /\ Paced /\ PacedInv /\ ResultDelivered /\ ResultDelivered' /\ [Next]_vars
    => [Flow!FlowNext]_(Flow!flowVars)
<1> SUFFICES ASSUME SelHeld, Paced, PacedInv, ResultDelivered, ResultDelivered', StepCases
             PROVE  Flow!FlowNext \/ UNCHANGED <<sel, sent, fresh, due, shown>>
  BY StepsOfNext DEF Flow!flowVars, fresh, shown
<1>0. WireTypeOK /\ ControlInv /\ q \in BOOLEAN /\ sel \in BOOLEAN
  BY DEF PacedInv, HeldInv, WireTypeOK, StageTypeOK
<1>a. ASSUME StartBody => q, ~\E k \in Inputs : Offer(k), ~\E k \in CondIn : OfferExternal(k)
      PROVE  UNCHANGED fresh
  BY <1>a, FreshKept DEF fresh
<1>b. ASSUME ~\E k \in Outputs : EndBodyDelay(k) \/ Take(k),
             ~\E k \in CondOut : EndSendDelay(k) \/ TakeExternal(k)
      PROVE  UNCHANGED shown
  BY <1>b, ShownKept DEF shown
<1>1. CASE ChangeSel
  <2>1. sel' = ~sel /\ UNCHANGED <<sent, due>> /\ ~StartBody
    BY <1>0, <1>1 DEF ChangeSel, StartBody
  <2>2. UNCHANGED <<q, inReq, recvCtl, extReq, latch, rreq, outAck, extLatch, extRreq, extRack>>
    BY <1>1 DEF ChangeSel, stageVars, recvVars, sendVars
  <2>3. UNCHANGED <<fresh, shown>>
    BY <2>2 DEF fresh, shown, Fresh, Shown
  <2> QED BY <2>1, <2>3 DEF Flow!FlowNext, Flow!ChangeInput, fresh, shown
<1>2. CASE \E k \in Inputs : Offer(k) \/ (k \in CondIn /\ OfferExternal(k))
  <2> PICK k \in Inputs : Offer(k) \/ (k \in CondIn /\ OfferExternal(k)) BY <1>2
  <2>1. /\ sent' = [sent EXCEPT ![k] = (sent[k] % Tokens) + 1]
        /\ UNCHANGED <<sel, due>>
    BY DEF Offer, OfferExternal, NextToken
  <2>2. UNCHANGED <<latch, rreq, outAck, extLatch, extRreq, extRack>>
    BY DEF Offer, OfferExternal, stageVars, sendVars
  <2>3. UNCHANGED shown
    BY <2>2 DEF shown, Shown
  <2>4. ~fresh[k] /\ fresh' = [fresh EXCEPT ![k] = TRUE]
    <3>1. ~Fresh(k) /\ Fresh(k)' = TRUE /\ \A i \in Inputs \ {k} : Fresh(i)' = Fresh(i)
      BY FreshOffered
    <3> QED BY <3>1 DEF fresh
  <2> QED BY <2>1, <2>3, <2>4 DEF Flow!FlowNext, Flow!OfferToken, fresh, shown
<1>3. CASE StartBody /\ ~q
  <2>1. UNCHANGED <<latch, rreq, outAck, extLatch, extRreq, extRack>>
    BY <1>3 DEF StartBody, SwitchController, sendVars
  <2>2. UNCHANGED shown
    BY <2>1 DEF shown, Shown
  <2> QED BY <1>3, <2>2, StartStep DEF Flow!FlowNext
<1>4. CASE \E k \in Outputs : EndBodyDelay(k) \/ (k \in CondOut /\ EndSendDelay(k))
  <2> PICK k \in Outputs : EndBodyDelay(k) \/ (k \in CondOut /\ EndSendDelay(k)) BY <1>4
  <2>1. UNCHANGED <<sel, sent, q, inReq, recvCtl, extReq>>
    BY DEF EndBodyDelay, EndDelay, EndSendDelay, stageVars, recvVars
  <2>2. UNCHANGED fresh
    BY <2>1 DEF fresh, Fresh
  <2>3. /\ Active(k) => Active(k)'
        /\ \A j \in Outputs \ {k} : Shown(j)' = Shown(j)
        /\ UNCHANGED due
    BY DelayShows
  <2>4. CASE Active(k) = Active(k)' \/ ~Active(k)'
    <3>1. Shown(k)' = Shown(k)
      BY <2>3, <2>4, ShownIs DEF Active
    <3> QED BY <2>1, <2>2, <2>3, <3>1 DEF shown
  <2>5. CASE ~Active(k) /\ Active(k)'
    <3>1. shown[k] = {} /\ due[k] # <<>> /\ Shown(k)' = {Head(due[k])}
      BY <2>3, <2>5, ShownIs DEF shown
    <3>2. shown' = [shown EXCEPT ![k] = {Head(due[k])}]
      BY <2>3, <3>1 DEF shown
    <3> QED BY <2>1, <2>2, <2>3, <3>1, <3>2 DEF Flow!FlowNext, Flow!ShowResult, fresh, shown
  <2> QED BY <2>3, <2>4, <2>5
<1>5. CASE \E k \in Outputs : Take(k) \/ (k \in CondOut /\ TakeExternal(k))
  <2> PICK k \in Outputs : Take(k) \/ (k \in CondOut /\ TakeExternal(k)) BY <1>5
  <2>1. UNCHANGED <<sel, sent, q, inReq, recvCtl, extReq>>
    BY DEF Take, TakeExternal, stageVars, recvVars
  <2>2. UNCHANGED fresh
    BY <2>1 DEF fresh, Fresh
  <2>3. /\ Active(k) /\ ~Active(k)'
        /\ due' = [due EXCEPT ![k] = Tail(due[k])]
        /\ \A j \in Outputs \ {k} : Shown(j)' = Shown(j)
    BY ReceiverTakes
  <2>4. shown[k] # {} /\ Shown(k)' = {}
    BY <2>3, ShownIs DEF shown
  <2>5. shown' = [shown EXCEPT ![k] = {}]
    BY <2>3, <2>4 DEF shown
  <2> QED BY <2>1, <2>2, <2>3, <2>4, <2>5 DEF Flow!FlowNext, Flow!TakeResult, fresh, shown
<1>6. CASE UNCHANGED <<sel, sent, due>> /\ UNCHANGED <<fresh, shown>>
  BY <1>6
<1>7. ASSUME ~ChangeSel, ~(StartBody /\ ~q),
             ~\E k \in Inputs : Offer(k) \/ (k \in CondIn /\ OfferExternal(k)),
             ~\E k \in Outputs : EndBodyDelay(k) \/ (k \in CondOut /\ EndSendDelay(k)),
             ~\E k \in Outputs : Take(k) \/ (k \in CondOut /\ TakeExternal(k))
      PROVE  UNCHANGED <<sel, sent, due>> /\ UNCHANGED <<fresh, shown>>
  <2>1. /\ StartBody => q
        /\ ~\E k \in Inputs : Offer(k)
        /\ ~\E k \in CondIn : OfferExternal(k)
        /\ ~\E k \in Outputs : EndBodyDelay(k) \/ Take(k)
        /\ ~\E k \in CondOut : EndSendDelay(k) \/ TakeExternal(k)
    BY <1>0, <1>7, CondPorts
  <2>2. UNCHANGED <<fresh, shown>>
    BY <1>a, <1>b, <2>1
  <2>3. UNCHANGED <<sel, sent, due>>
    <3>1. CASE StartBody
      BY <1>0, <2>1, <3>1, RackStep DEF StartBody
    <3> QED
      BY <1>7, <2>1, <3>1
      DEF StepCases, BodyGateStep, bodyOnly, CaptureEnable, EvaluateEnReceive, PassRecvStorage,
          EndRecvDelay, LaunchEnable, EvaluateEnSend, PassSendStorage, Retract,
          RetractExternal, Release, ReleaseExternal, AssertReset, vars
  <2> QED BY <2>2, <2>3
<1> QED
  BY <1>1, <1>2, <1>3, <1>4, <1>5, <1>6, <1>7

\* For any number of ports, guards and tokens the conditional network does what
\* the wire-free specification says: a transaction uses one token of every
\* enabled Receive and no other, and every enabled Send shows its result once,
\* in order, until it is taken.
THEOREM FlowCorrect ==
  ASSUME SelHeld, Paced, SettledPartners PROVE Spec => ImplementsFlow
<1>1. Init => Flow!FlowInit
  BY FlowInitial
<1>2. PacedInv /\ ResultDelivered /\ ResultDelivered' /\ [Next]_vars
        => [Flow!FlowNext]_(Flow!flowVars)
  BY FlowStep
<1>3. Spec => []PacedInv /\ []ResultDelivered
  BY PacedInvCorrect, ResultDeliveredCorrect, PTL
<1> QED
  BY <1>1, <1>2, <1>3, PTL DEF Spec, ImplementsFlow, Flow!FlowSafety
=============================================================================
