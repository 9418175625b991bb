----------------------- MODULE ConditionalTransaction -----------------------
(***************************************************************************)
(* A transaction with conditional ports: the BODY stage, an EN_RECV stage  *)
(* before each conditional input, an EN_SEND stage after each conditional  *)
(* output, and one enable sender per stage.  The guard of every            *)
(* conditional port is the unhandshaked external input sel or its          *)
(* negation, so that a transaction is `if (sel) ... else ...'.             *)
(*                                                                         *)
(* Unlike the ordinary stage this network is not speed-independent: an     *)
(* enable sender must see its launch signal low before the acknowledge     *)
(* returns.  A matched delay therefore ends only when every gate has       *)
(* settled, which is the margin the backend document asks of it.           *)
(***************************************************************************)
EXTENDS BodyStage, EnableControllers, Sequences

CONSTANTS
    RecvWhen,         \* when each input is received: "always", "sel", "not_sel"
    SendWhen,         \* when each output is sent
    Tokens,           \* payloads are numbered 1..Tokens and then again from 1
    Paced,            \* TRUE: senders keep the pace of the test benches.
                      \* FALSE: they follow the four-phase protocol only.
    SettledPartners,  \* TRUE: channel partners move only once the gates have
                      \* settled.  FALSE: at any time.
    SelHeld,          \* TRUE: sel keeps its value until the BODY latches close.
                      \* FALSE: until the PRE_INPUT enables have captured it.
    ResetAgain        \* TRUE: reset_n may return to low after power-up.

Guards == {"always", "sel", "not_sel"}
ASSUME ConditionAssumption ==
    /\ RecvWhen \in [Inputs -> Guards]
    /\ SendWhen \in [Outputs -> Guards]
    /\ Tokens \in Nat \ {0, 1}
    /\ {Paced, SettledPartners, SelHeld, ResetAgain} \subseteq BOOLEAN

CondIn  == {i \in Inputs : RecvWhen[i] # "always"}
CondOut == {j \in Outputs : SendWhen[j] # "always"}

\* The logical Enable of a port, evaluated for one value of sel.
EnableValue(when, v) == (when = "always") \/ (v <=> when = "sel")

VARIABLES
    sel,           \* the external input the guards read
    recvEnable,    \* PRE_INPUT enable sender of each conditional input
    recvCtl,       \* its EN_RECV controller
    extReq,        \* request of the external sender
    extData,       \* its payload
    sendEnable,    \* POST_INPUT enable sender of each conditional output
    sendCtl,       \* its EN_SEND controller
    extLatch,      \* latch bank of the EN_SEND stage
    extRreq,       \* external request after the EN_SEND stage's matched delay
    extRack,       \* acknowledge of the external receiver
    sent,          \* last token each sender has offered
    guard,         \* sel as the enables of the current transaction captured it
    due            \* results each receiver is still owed, oldest first

recvVars == <<recvEnable, recvCtl, extReq, extData>>
sendVars == <<sendEnable, sendCtl, extLatch, extRreq, extRack>>
vars == <<stageVars, sel, recvVars, sendVars, sent, guard, due>>

-----------------------------------------------------------------------------
(***************************************************************************)
(* Evaluations of the behavioural controllers.  PRE_INPUT senders are      *)
(* launched by ~base_Rack, POST_INPUT senders by storage_enable.           *)
(***************************************************************************)
PreInputLaunchTooLate  == storage_enable   \* Mutant: POST_INPUT availability
PreInputLaunchTooEarly == ~base_Lack       \* Mutant: BODY outputs still busy
PreInputLaunch == ~base_Rack

RecvEnableValue(i) ==
    EnableSender(recvEnable[i], EnableValue(RecvWhen[i], sel), PreInputLaunch,
                 recvCtl[i].enableAck)
SendEnableValue(j) ==
    EnableSender(sendEnable[j], EnableValue(SendWhen[j], sel), storage_enable,
                 sendCtl[j].enableAck)
RecvCtlValue(i) ==
    EnReceive(recvCtl[i], recvEnable[i].req, recvEnable[i].data, extReq[i], base_Lack)
SendCtlValue(j) ==
    EnSend(sendCtl[j], sendEnable[j].req, sendEnable[j].data, rreq[j], extRack[j])

\* storage_data of an EN_RECV stage: the external payload, or zeros when disabled.
RecvStorageData(i) == IF recvCtl[i].enabled THEN extData[i] ELSE Dummy

RecvStorageExcited(i) ==
    EnReceiveStorageOpen(recvCtl[i], extReq[i]) /\ inData[i] # RecvStorageData(i)
SendStorageExcited(j) == sendCtl[j].bodyAck /\ extLatch[j] # latch[j]

\* Mutant: a delay that only covers the control gates, not the latch banks.
SettledWithoutStorage ==
    /\ \A k \in ReqCells : ~ReqCellExcited(k)
    /\ \A k \in AckCells : ~AckCellExcited(k)
    /\ ~ControllerExcited
    /\ \A i \in CondIn : RecvEnableValue(i) = recvEnable[i] /\ RecvCtlValue(i) = recvCtl[i]
    /\ \A j \in CondOut : SendEnableValue(j) = sendEnable[j] /\ SendCtlValue(j) = sendCtl[j]

\* No gate, latch or controller is about to change.
Settled ==
    /\ \A k \in ReqCells : ~ReqCellExcited(k)
    /\ \A k \in AckCells : ~AckCellExcited(k)
    /\ ~ControllerExcited
    /\ \A j \in Outputs : ~LatchExcited(j)
    /\ \A i \in CondIn : /\ RecvEnableValue(i) = recvEnable[i]
                         /\ RecvCtlValue(i) = recvCtl[i]
                         /\ ~RecvStorageExcited(i)
    /\ \A j \in CondOut : /\ SendEnableValue(j) = sendEnable[j]
                          /\ SendCtlValue(j) = sendCtl[j]
                          /\ ~SendStorageExcited(j)

-----------------------------------------------------------------------------
Init ==
    /\ StageInit
    /\ sel \in BOOLEAN
    /\ recvEnable = [i \in CondIn |-> EnableSenderReset]
    /\ recvCtl    = [i \in CondIn |-> EnReceiveReset]
    /\ extReq     = [i \in CondIn |-> FALSE]
    /\ extData    = [i \in CondIn |-> NoToken]
    /\ sendEnable = [j \in CondOut |-> EnableSenderReset]
    /\ sendCtl    = [j \in CondOut |-> EnSendReset]
    /\ extLatch   = [j \in CondOut |-> [i \in Inputs |-> NoToken]]
    /\ extRreq    = [j \in CondOut |-> FALSE]
    /\ extRack    = [j \in CondOut |-> FALSE]
    /\ sent  = [i \in Inputs |-> 0]
    /\ guard = sel
    /\ due   = [j \in Outputs |-> <<>>]

(***************************************************************************)
(* What the source transaction owes its receivers: the token of every      *)
(* enabled Receive and the dummy payload of every disabled one, to every   *)
(* output whose Send is enabled.                                           *)
(***************************************************************************)
TransactionResult(v) ==
    [i \in Inputs |-> IF EnableValue(RecvWhen[i], v) THEN sent[i] ELSE Dummy]

DueWith(v) ==
    [j \in Outputs |-> IF EnableValue(SendWhen[j], v)
                         THEN Append(due[j], TransactionResult(v)) ELSE due[j]]

StartBody ==
    /\ SwitchController
    /\ guard' = IF q' /\ CondIn = {} THEN sel ELSE guard
    /\ due' = IF q' THEN DueWith(guard') ELSE due
    /\ UNCHANGED <<sel, recvVars, sendVars, sent>>

CaptureEnable(i) ==
    /\ RecvEnableValue(i) # recvEnable[i]
    /\ recvEnable' = [recvEnable EXCEPT ![i] = RecvEnableValue(i)]
    /\ guard' = IF RecvEnableValue(i).req /\ ~recvEnable[i].req THEN sel ELSE guard
    /\ UNCHANGED <<stageVars, sel, recvCtl, extReq, extData, sendVars, sent, due>>

EvaluateEnReceive(i) ==
    /\ RecvCtlValue(i) # recvCtl[i]
    /\ recvCtl' = [recvCtl EXCEPT ![i] = RecvCtlValue(i)]
    /\ UNCHANGED <<stageVars, sel, recvEnable, extReq, extData, sendVars, sent, guard, due>>

PassRecvStorage(i) ==
    /\ RecvStorageExcited(i)
    /\ inData' = [inData EXCEPT ![i] = RecvStorageData(i)]
    /\ UNCHANGED <<reset_n, inReq, reqRed, q, latch, rreq, outAck, ackRed,
                   sel, recvVars, sendVars, sent, guard, due>>

LaunchEnable(j) ==
    /\ SendEnableValue(j) # sendEnable[j]
    /\ sendEnable' = [sendEnable EXCEPT ![j] = SendEnableValue(j)]
    /\ UNCHANGED <<stageVars, sel, recvVars, sendCtl, extLatch, extRreq, extRack, sent, guard, due>>

EvaluateEnSend(j) ==
    /\ SendCtlValue(j) # sendCtl[j]
    /\ sendCtl' = [sendCtl EXCEPT ![j] = SendCtlValue(j)]
    /\ outAck'  = [outAck EXCEPT ![j] = SendCtlValue(j).bodyAck]
    /\ UNCHANGED <<reset_n, inReq, inData, reqRed, q, latch, rreq, ackRed,
                   sel, recvVars, sendEnable, extLatch, extRreq, extRack, sent, guard, due>>

PassSendStorage(j) ==
    /\ SendStorageExcited(j)
    /\ extLatch' = [extLatch EXCEPT ![j] = latch[j]]
    /\ UNCHANGED <<stageVars, sel, recvVars, sendEnable, sendCtl, extRreq, extRack, sent, guard, due>>

(***************************************************************************)
(* Matched delays.  A sender that keeps the pace answers an acknowledge    *)
(* before any delay can end.                                               *)
(***************************************************************************)
DelayMayEnd ==
    /\ Settled
    /\ Paced => \A i \in CondIn : ~(extReq[i] /\ recvCtl[i].externalAck)

EndBodyDelay(j) ==
    /\ DelayMayEnd
    /\ EndDelay(j)
    /\ UNCHANGED <<sel, recvVars, sendVars, sent, guard, due>>

EndRecvDelay(i) ==
    /\ DelayMayEnd
    /\ inReq[i] # recvCtl[i].bodyReq
    /\ inReq' = [inReq EXCEPT ![i] = recvCtl[i].bodyReq]
    /\ UNCHANGED <<reset_n, inData, reqRed, q, latch, rreq, outAck, ackRed,
                   sel, recvVars, sendVars, sent, guard, due>>

EndSendDelay(j) ==
    /\ DelayMayEnd
    /\ extRreq[j] # sendCtl[j].externalReq
    /\ extRreq' = [extRreq EXCEPT ![j] = sendCtl[j].externalReq]
    /\ UNCHANGED <<stageVars, sel, recvVars, sendEnable, sendCtl, extLatch, extRack, sent, guard, due>>

-----------------------------------------------------------------------------
(***************************************************************************)
(* Channel partners.                                                       *)
(***************************************************************************)
PartnerMayMove == SettledPartners => Settled

\* The discipline of the repository's test benches: the next token comes when
\* the previous transaction has left every EN stage, and only on a selected port.
MayStart(i) ==
    Paced => /\ \A j \in CondOut : sendCtl[j].state # "ACTIVE"
             /\ EnableValue(RecvWhen[i], sel)
             /\ i \in CondIn => recvCtl[i].state # "WAIT_BODY"

NextToken(i) == (sent[i] % Tokens) + 1

Offer(i) ==
    /\ i \notin CondIn /\ PartnerMayMove /\ MayStart(i)
    /\ ~inReq[i] /\ ~base_Lack
    /\ inReq'  = [inReq EXCEPT ![i] = TRUE]
    /\ inData' = [inData EXCEPT ![i] = NextToken(i)]
    /\ sent'   = [sent EXCEPT ![i] = NextToken(i)]
    /\ UNCHANGED <<reset_n, reqRed, q, latch, rreq, outAck, ackRed,
                   sel, recvVars, sendVars, guard, due>>

Retract(i) ==
    /\ i \notin CondIn /\ PartnerMayMove
    /\ inReq[i] /\ base_Lack
    /\ inReq' = [inReq EXCEPT ![i] = FALSE]
    /\ UNCHANGED <<reset_n, inData, reqRed, q, latch, rreq, outAck, ackRed,
                   sel, recvVars, sendVars, sent, guard, due>>

OfferExternal(i) ==
    /\ PartnerMayMove /\ MayStart(i)
    /\ ~extReq[i] /\ ~recvCtl[i].externalAck
    /\ extReq'  = [extReq EXCEPT ![i] = TRUE]
    /\ extData' = [extData EXCEPT ![i] = NextToken(i)]
    /\ sent'    = [sent EXCEPT ![i] = NextToken(i)]
    /\ UNCHANGED <<stageVars, sel, recvEnable, recvCtl, sendVars, guard, due>>

RetractExternal(i) ==
    /\ PartnerMayMove
    /\ extReq[i] /\ recvCtl[i].externalAck
    /\ extReq'  = [extReq EXCEPT ![i] = FALSE]
    /\ extData' = [extData EXCEPT ![i] = NoToken]
    /\ UNCHANGED <<stageVars, sel, recvEnable, recvCtl, sendVars, sent, guard, due>>

Take(j) ==
    /\ j \notin CondOut /\ PartnerMayMove
    /\ rreq[j] /\ ~outAck[j]
    /\ outAck' = [outAck EXCEPT ![j] = TRUE]
    /\ due' = [due EXCEPT ![j] = IF @ = <<>> THEN @ ELSE Tail(@)]
    /\ UNCHANGED <<reset_n, inReq, inData, reqRed, q, latch, rreq, ackRed,
                   sel, recvVars, sendVars, sent, guard>>

Release(j) ==
    /\ j \notin CondOut /\ PartnerMayMove
    /\ ~rreq[j] /\ outAck[j]
    /\ outAck' = [outAck EXCEPT ![j] = FALSE]
    /\ UNCHANGED <<reset_n, inReq, inData, reqRed, q, latch, rreq, ackRed,
                   sel, recvVars, sendVars, sent, guard, due>>

TakeExternal(j) ==
    /\ PartnerMayMove
    /\ extRreq[j] /\ ~extRack[j]
    /\ extRack' = [extRack EXCEPT ![j] = TRUE]
    /\ due' = [due EXCEPT ![j] = IF @ = <<>> THEN @ ELSE Tail(@)]
    /\ UNCHANGED <<stageVars, sel, recvVars, sendEnable, sendCtl, extLatch, extRreq, sent, guard>>

ReleaseExternal(j) ==
    /\ PartnerMayMove
    /\ ~extRreq[j] /\ extRack[j]
    /\ extRack' = [extRack EXCEPT ![j] = FALSE]
    /\ UNCHANGED <<stageVars, sel, recvVars, sendEnable, sendCtl, extLatch, extRreq, sent, guard, due>>

\* The external input may change while no PRE_INPUT enable is waiting to
\* capture it, or, when it is held, between two uses by the BODY.
ChangeSel ==
    /\ Settled
    /\ IF SelHeld THEN ~q /\ (CondIn # {} => base_Rack)
       ELSE \A i \in CondIn : recvEnable[i].state # "IDLE" \/ ~PreInputLaunch
    /\ sel' = ~sel
    /\ UNCHANGED <<stageVars, recvVars, sendVars, sent, guard, due>>

(***************************************************************************)
(* reset_n reaches the C-elements of the BODY stage and no other           *)
(* controller, so the system may assert it only when the BODY is between   *)
(* two transactions, for any time.  The stages around it may be anywhere:  *)
(* enables captured, requests half joined.  Mutant: reset once the         *)
(* controller is low, with output handshakes still to be finished.         *)
(***************************************************************************)
SafeToResetWhenIdle == ~q
SafeToReset == ~q /\ ~base_Rack

AssertReset ==
    /\ ResetAgain /\ reset_n /\ SafeToReset
    /\ reset_n' = FALSE
    /\ UNCHANGED <<inReq, inData, reqRed, q, latch, rreq, outAck, ackRed,
                   sel, recvVars, sendVars, sent, guard, due>>

-----------------------------------------------------------------------------
bodyOnly == <<sel, recvVars, sendVars, sent, guard, due>>

GateStep ==
    \/ ReleaseReset /\ UNCHANGED bodyOnly
    \/ \E k \in ReqCells : SwitchReqCell(k) /\ UNCHANGED bodyOnly
    \/ \E k \in AckCells : SwitchAckCell(k) /\ UNCHANGED bodyOnly
    \/ \E j \in Outputs : PassLatch(j) /\ UNCHANGED bodyOnly
    \/ StartBody
    \/ \E i \in CondIn : CaptureEnable(i) \/ EvaluateEnReceive(i) \/ PassRecvStorage(i)
    \/ \E j \in CondOut : LaunchEnable(j) \/ EvaluateEnSend(j) \/ PassSendStorage(j)

SenderStep(i) == Offer(i) \/ Retract(i)
ExternalSenderStep(i) == OfferExternal(i) \/ RetractExternal(i)
ReceiverStep(j) == Take(j) \/ Release(j)
ExternalReceiverStep(j) == TakeExternal(j) \/ ReleaseExternal(j)

Next ==
    \/ GateStep
    \/ \E j \in Outputs : EndBodyDelay(j) \/ ReceiverStep(j)
    \/ \E i \in Inputs : SenderStep(i)
    \/ \E i \in CondIn : EndRecvDelay(i) \/ ExternalSenderStep(i)
    \/ \E j \in CondOut : EndSendDelay(j) \/ ExternalReceiverStep(j)
    \/ ChangeSel
    \/ AssertReset

(***************************************************************************)
(* Gates settle, delays end, partners carry on.  Nobody has to change sel. *)
(***************************************************************************)
Fairness ==
    /\ WF_vars(GateStep)
    /\ \A j \in Outputs : WF_vars(EndBodyDelay(j)) /\ WF_vars(ReceiverStep(j))
    /\ \A i \in Inputs : WF_vars(SenderStep(i))
    /\ \A i \in CondIn : WF_vars(EndRecvDelay(i)) /\ WF_vars(ExternalSenderStep(i))
    /\ \A j \in CondOut : WF_vars(EndSendDelay(j)) /\ WF_vars(ExternalReceiverStep(j))

Spec == Init /\ [][Next]_vars /\ Fairness

-----------------------------------------------------------------------------
(***************************************************************************)
(* Properties.                                                             *)
(***************************************************************************)
\* Wires and registers have their types, payloads are tokens, and no receiver
\* is ever owed more than two results.
TypeOK ==
    /\ StageTypeOK
    /\ sel \in BOOLEAN /\ guard \in BOOLEAN
    /\ recvEnable \in [CondIn -> EnableSenderStates]
    /\ recvCtl    \in [CondIn -> EnReceiveStates]
    /\ extReq     \in [CondIn -> BOOLEAN]
    /\ extData    \in [CondIn -> Payload]
    /\ sendEnable \in [CondOut -> EnableSenderStates]
    /\ sendCtl    \in [CondOut -> EnSendStates]
    /\ extLatch   \in [CondOut -> [Inputs -> Payload]]
    /\ extRreq    \in [CondOut -> BOOLEAN]
    /\ extRack    \in [CondOut -> BOOLEAN]
    /\ sent       \in [Inputs -> 0..Tokens]
    /\ \A j \in Outputs : Len(due[j]) \in 0..2

\* Every request a receiver sees carries the result the source transaction owes
\* it, in order: enabled inputs contribute the token of this transaction,
\* disabled inputs the dummy payload, and a disabled Send requests nothing.
ResultDelivered ==
    /\ \A j \in Outputs \ CondOut : rreq[j] /\ ~outAck[j] =>
           due[j] # <<>> /\ latch[j] = Head(due[j])
    /\ \A j \in CondOut : extRreq[j] /\ ~extRack[j] =>
           due[j] # <<>> /\ extLatch[j] = Head(due[j])

\* An EN_RECV stage acknowledges its external Channel only in a transaction
\* whose captured guard enables the Receive.
DisabledUntouched ==
    \A i \in CondIn : recvCtl[i].externalAck => EnableValue(RecvWhen[i], guard)

\* Every external Channel follows the four-phase protocol from the side of the
\* generated hardware: requests rise on a low acknowledge and fall on a high
\* one, acknowledges rise on a high request and fall on a low one.
ExternalHandshake ==
    [][/\ \A i \in CondIn : recvCtl'[i].externalAck # recvCtl[i].externalAck =>
              recvCtl'[i].externalAck = extReq[i]
       /\ \A j \in CondOut : extRreq'[j] # extRreq[j] => extRreq'[j] = ~extRack[j]]_vars

\* EN stages and late resets do not upset the joins: the BODY starts a
\* transaction only when every input requests and every output is idle, and
\* ends it only when every request is withdrawn and every output acknowledged.
JoinedHandshake == [][JoinedHandshakeStep]_vars

(***************************************************************************)
(* The network implements the wire-free specification: every token is used *)
(* by exactly one transaction, and only if its Receive is enabled; every   *)
(* result is shown once, in order, and stays until it is taken.  An EN_RECV *)
(* stage that has launched the BODY holds the token until q rises.         *)
(***************************************************************************)
Fresh(i) ==
    IF i \notin CondIn THEN inReq[i] /\ ~q
    ELSE IF recvCtl[i].state = "WAIT_BODY" /\ recvCtl[i].enabled
           THEN recvCtl[i].bodyReq /\ ~q
           ELSE extReq[i]

Shown(j) ==
    IF j \notin CondOut THEN {r \in {latch[j]} : rreq[j] /\ ~outAck[j]}
    ELSE {r \in {extLatch[j]} : extRreq[j] /\ ~extRack[j]}

Flow == INSTANCE GuardedFlow
            WITH Receives <- [v \in BOOLEAN |-> {i \in Inputs : EnableValue(RecvWhen[i], v)}],
                 Sends    <- [v \in BOOLEAN |-> {j \in Outputs : EnableValue(SendWhen[j], v)}],
                 Buffered <- CondOut,
                 fresh    <- [i \in Inputs |-> Fresh(i)],
                 offer    <- [j \in Outputs |-> Shown(j)]
ImplementsFlow == Flow!FlowSafety

\* A controller's block is not woken by its own assignments, so one evaluation
\* must leave nothing for a second one to do.
EvaluatedOnce ==
    /\ \A i \in CondIn :
          /\ LET s == RecvEnableValue(i)
             IN EnableSender(s, EnableValue(RecvWhen[i], sel), PreInputLaunch,
                             recvCtl[i].enableAck) = s
          /\ LET c == RecvCtlValue(i)
             IN EnReceive(c, recvEnable[i].req, recvEnable[i].data, extReq[i], q) = c
    /\ \A j \in CondOut :
          /\ LET s == SendEnableValue(j)
             IN EnableSender(s, EnableValue(SendWhen[j], sel), storage_enable,
                             sendCtl[j].enableAck) = s
          /\ LET c == SendCtlValue(j)
             IN EnSend(c, sendEnable[j].req, sendEnable[j].data, rreq[j], extRack[j]) = c

\* Every enable token is consumed: no EN stage is ever stuck with a token.
RecvEnableConsumed ==
    \A i \in CondIn : recvEnable[i].req ~> recvCtl[i].enableAck
SendEnableConsumed ==
    \A j \in CondOut : sendEnable[j].req ~> sendCtl[j].enableAck

\* Every result a transaction owes is eventually taken by its receiver.
ResultsTaken == \A j \in Outputs : []<>(due[j] = <<>>)

\* The BODY keeps starting transactions as long as its partners take part.
KeepsRunning == []<>q /\ []<>~q
=============================================================================
