------------------------ MODULE ConditionalInvariants ------------------------
(***************************************************************************)
(* Why ConditionalTransaction is correct: where every controller stands in *)
(* each phase of a transaction.  The parts are ordered by what they        *)
(* assume.  Types, control and enable channels need nothing of the         *)
(* surroundings; the guard and the results owed need sel to be held; the   *)
(* idle EN_RECV stages need senders that keep the pace; the payloads need  *)
(* partners that move only on a settled network as well.                   *)
(***************************************************************************)
EXTENDS ConditionalTransaction

\* TypeOK without the bound on what a receiver is owed.
WireTypeOK ==
    /\ StageTypeOK
    /\ sel \in BOOLEAN /\ guard \in BOOLEAN
    /\ recvEnable \in [CondIn -> EnableSenderStates]
    /\ recvCtl    \in [CondIn -> EnReceiveStates]
    /\ extReq     \in [CondIn -> BOOLEAN]
    /\ extData    \in [CondIn -> Payload]
    /\ sendEnable \in [CondOut -> EnableSenderStates]
    /\ sendCtl    \in [CondOut -> EnSendStates]
    /\ extLatch   \in [CondOut -> [Inputs -> Payload]]
    /\ extRreq    \in [CondOut -> BOOLEAN]
    /\ extRack    \in [CondOut -> BOOLEAN]
    /\ sent       \in [Inputs -> 0..Tokens]
    /\ due        \in [Outputs -> Seq([Inputs -> Payload])]

-----------------------------------------------------------------------------
(***************************************************************************)
(* The control of the EN stages.  The BODY sees EN_RECV as a sender and    *)
(* EN_SEND as a receiver: body requests rise while q is low and fall while *)
(* it is high, body acknowledges follow the BODY's requests.               *)
(***************************************************************************)
RecvPhase(c, bodyReq, bodyAck) ==
    /\ c.bodyReq => c.state = "WAIT_BODY"
    /\ c.externalAck => c.state = "WAIT_BODY" /\ c.enabled
    /\ c.state = "WAIT_EXTERNAL" => c.enabled
    /\ c.state = "IDLE" => ~c.enableAck
    /\ ~bodyAck /\ bodyReq => c.bodyReq
    /\ bodyAck => c.state = "WAIT_BODY"
    /\ bodyAck /\ c.bodyReq => bodyReq

\* Outside an enabled activation of EN_SEND its external Channel is quiet, and
\* while its matched delay has not ended the receiver is where the last phase
\* left it.
SendPhase(c, externalReq, externalAck) ==
    /\ c.bodyAck => c.state = "ACTIVE"
    /\ ~(c.state = "ACTIVE" /\ c.enabled) => ~c.externalReq /\ ~externalReq /\ ~externalAck
    /\ c.externalReq /\ ~externalReq => ~externalAck
    /\ ~c.externalReq /\ externalReq => externalAck

ControlInv ==
    /\ StageInv
    /\ \A i \in CondIn : RecvPhase(recvCtl[i], inReq[i], q)
    /\ \A j \in CondOut : /\ outAck[j] = sendCtl[j].bodyAck
                          /\ SendPhase(sendCtl[j], extRreq[j], extRack[j])

-----------------------------------------------------------------------------
(***************************************************************************)
(* The enable channels.  A transaction is over when the first BODY request *)
(* returns to zero: that delay ends on a settled network, so every enable  *)
(* sender has been acknowledged and has rearmed by then.                   *)
(***************************************************************************)
Resting == ~q /\ \E j \in Outputs : ~rreq[j]

RecvEnablePhase(e, c, ack, rack, resting) ==
    /\ e.req <=> e.state = "ACTIVE"
    /\ e.state = "REARM" => rack /\ ~resting
    /\ e.state = "ACTIVE" /\ rack => ~resting /\ c.enableAck /\ c.state = "WAIT_BODY"
    /\ (ack /\ ~rack) \/ (~ack /\ c.bodyReq) \/ c.state = "WAIT_EXTERNAL" =>
           e.state = "ACTIVE" /\ c.enableAck /\ ~rack

SendEnablePhase(e, c, launch, resting) ==
    /\ e.req <=> e.state = "ACTIVE"
    /\ e.state = "IDLE" => ~c.enableAck
    /\ e.state = "REARM" => ~launch /\ ~resting /\ c.state = "ACTIVE"
    /\ e.state = "ACTIVE" /\ ~launch => ~resting /\ c.state = "ACTIVE" /\ c.enableAck
    /\ c.state = "WAIT_BODY" \/ (launch /\ c.bodyAck) =>
           launch /\ e.state = "ACTIVE" /\ c.enableAck
    /\ launch /\ c.state = "ACTIVE" /\ ~c.bodyAck => ~c.enableAck

EnableInv ==
    /\ \A i \in CondIn : RecvEnablePhase(recvEnable[i], recvCtl[i], q, base_Rack, Resting)
    /\ \A j \in CondOut : SendEnablePhase(sendEnable[j], sendCtl[j], q, Resting)

-----------------------------------------------------------------------------
(***************************************************************************)
(* One value of sel for the whole transaction, when sel is held.           *)
(***************************************************************************)
GuardInv ==
    /\ q => guard = sel
    /\ \A i \in CondIn : recvEnable[i].state = "ACTIVE" /\ ~base_Rack =>
           guard = sel /\ recvEnable[i].data = EnableValue(RecvWhen[i], guard)
    /\ \A j \in CondOut :
           /\ q /\ sendEnable[j].state = "ACTIVE" =>
                  sendEnable[j].data = EnableValue(SendWhen[j], guard)
           /\ sendCtl[j].state = "WAIT_BODY" =>
                  sendCtl[j].enabled = EnableValue(SendWhen[j], guard)

\* A result the BODY has not handed over, and one that EN_SEND is offering.
Pending(j) == q /\ ~outAck[j] /\ EnableValue(SendWhen[j], guard)
Offered(j) == j \in CondOut /\ sendCtl[j].externalReq /\ ~extRack[j]

OwedInv ==
    \A j \in Outputs :
        Len(due[j]) = (IF Offered(j) THEN 1 ELSE 0) + (IF Pending(j) THEN 1 ELSE 0)

-----------------------------------------------------------------------------
(***************************************************************************)
(* Senders that keep the pace: every EN_RECV stage is idle before the BODY *)
(* can start again, and has taken its enable from the current guard.       *)
(***************************************************************************)
PaceInv ==
    \A i \in CondIn :
        /\ Resting /\ base_Rack =>
               recvCtl[i].state = "IDLE" /\ recvEnable[i].state = "IDLE"
        /\ ~q /\ ~base_Rack /\ recvCtl[i].state = "WAIT_BODY" =>
               recvEnable[i].state = "ACTIVE" /\ recvCtl[i].bodyReq
        /\ recvCtl[i].state = "WAIT_BODY" /\ recvCtl[i].enabled
           /\ ~recvCtl[i].externalAck => ~extReq[i]
        /\ recvCtl[i].state # "IDLE" =>
               recvCtl[i].enabled = EnableValue(RecvWhen[i], guard)

(***************************************************************************)
(* Payloads: the token a sender has offered, behind an EN_RECV stage the   *)
(* token or the dummy, in a latch the result of the transaction.           *)
(***************************************************************************)
InputPayload(i) ==
    IF i \in CondIn /\ ~recvCtl[i].enabled THEN Dummy ELSE sent[i]

InputInv ==
    /\ \A i \in CondIn :
          /\ extReq[i] => extData[i] = sent[i]
          /\ recvCtl[i].bodyReq /\ recvCtl[i].enabled /\ ~extReq[i] => inData[i] = sent[i]
          /\ (inReq[i] \/ q) /\ recvCtl[i].enabled => ~extReq[i]
    /\ \A i \in Inputs : inReq[i] \/ q => inData[i] = InputPayload(i)

ResultInv ==
    \A j \in Outputs :
        /\ q /\ rreq[j] => latch[j] = TransactionResult(guard)
        /\ Pending(j) => due[j][Len(due[j])] = TransactionResult(guard)
        /\ Offered(j) =>
              /\ sendCtl[j].bodyAck => latch[j] = Head(due[j])
              /\ extRreq[j] \/ ~rreq[j] \/ ~sendCtl[j].bodyAck => extLatch[j] = Head(due[j])

PayloadInv == InputInv /\ ResultInv

\* What every proof about this network rests on.
Inv ==
    /\ WireTypeOK /\ ControlInv /\ EnableInv
    /\ SelHeld => GuardInv /\ OwedInv
    /\ SelHeld /\ Paced => PaceInv
    /\ SelHeld /\ Paced /\ SettledPartners => PayloadInv
=============================================================================
