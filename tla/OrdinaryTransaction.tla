------------------------ MODULE OrdinaryTransaction ------------------------
(***************************************************************************)
(* A transaction whose ports are all unconditional: the BODY stage and the *)
(* external senders and receivers the backend document asks for.  Every    *)
(* gate, wire and channel partner moves on its own, in any order; the only *)
(* timing assumed is the matched-delay requirement of EndDelay.            *)
(***************************************************************************)
EXTENDS BodyStage

CONSTANTS MaxTokens,         \* tokens each sender has, a bound for TLC
          HoldsUntilAckLow   \* TRUE: a sender keeps its payload until the
                             \* acknowledge is low again.  FALSE: only while
                             \* its request is high.

ASSUME EnvironmentAssumption ==
    MaxTokens \in Nat /\ HoldsUntilAckLow \in BOOLEAN

VARIABLES
    sent,       \* number of the last token each sender has offered
    received,   \* tokens each receiver has taken
    got         \* the payload of the last token each receiver has taken

envVars == <<sent, received, got>>
vars == <<stageVars, envVars>>

Init ==
    /\ StageInit
    /\ sent     = [i \in Inputs |-> 0]
    /\ received = [j \in Outputs |-> 0]
    /\ got      = [j \in Outputs |-> [i \in Inputs |-> NoToken]]

(***************************************************************************)
(* The senders.  A request may rise while reset is still asserted.         *)
(***************************************************************************)
Offer(i) ==
    /\ ~inReq[i] /\ ~base_Lack
    /\ sent[i] < MaxTokens
    /\ sent'   = [sent EXCEPT ![i] = @ + 1]
    /\ inReq'  = [inReq EXCEPT ![i] = TRUE]
    /\ inData' = [inData EXCEPT ![i] = sent[i] + 1]
    /\ UNCHANGED <<reset_n, reqRed, q, latch, rreq, outAck, ackRed, received, got>>

Retract(i) ==
    /\ inReq[i] /\ base_Lack
    /\ inReq' = [inReq EXCEPT ![i] = FALSE]
    /\ UNCHANGED <<reset_n, inData, reqRed, q, latch, rreq, outAck, ackRed, envVars>>

DropData(i) ==
    /\ ~inReq[i] /\ (HoldsUntilAckLow => ~base_Lack)
    /\ inData[i] # NoToken
    /\ inData' = [inData EXCEPT ![i] = NoToken]
    /\ UNCHANGED <<reset_n, inReq, reqRed, q, latch, rreq, outAck, ackRed, envVars>>

(***************************************************************************)
(* The receivers.                                                          *)
(***************************************************************************)
Take(j) ==
    /\ rreq[j] /\ ~outAck[j]
    /\ outAck'   = [outAck EXCEPT ![j] = TRUE]
    /\ received' = [received EXCEPT ![j] = @ + 1]
    /\ got'      = [got EXCEPT ![j] = latch[j]]
    /\ UNCHANGED <<reset_n, inReq, inData, reqRed, q, latch, rreq, ackRed, sent>>

Release(j) ==
    /\ ~rreq[j] /\ outAck[j]
    /\ outAck' = [outAck EXCEPT ![j] = FALSE]
    /\ UNCHANGED <<reset_n, inReq, inData, reqRed, q, latch, rreq, ackRed, envVars>>

(***************************************************************************)
(* The run is over: every token delivered and every wire back to zero.     *)
(***************************************************************************)
Idle ==
    /\ ~q
    /\ \A i \in Inputs : ~inReq[i]
    /\ \A j \in Outputs : ~rreq[j] /\ ~outAck[j]

Finished ==
    /\ Idle
    /\ \A j \in Outputs : received[j] = MaxTokens
    /\ UNCHANGED vars

StageStep ==
    \/ ReleaseReset /\ UNCHANGED envVars
    \/ \E k \in ReqCells : SwitchReqCell(k) /\ UNCHANGED envVars
    \/ SwitchController /\ UNCHANGED envVars
    \/ \E j \in Outputs : PassLatch(j) /\ UNCHANGED envVars
    \/ \E j \in Outputs : EndDelay(j) /\ UNCHANGED envVars
    \/ \E k \in AckCells : SwitchAckCell(k) /\ UNCHANGED envVars

EnvironmentStep ==
    \/ \E i \in Inputs : Offer(i) \/ Retract(i) \/ DropData(i)
    \/ \E j \in Outputs : Take(j) \/ Release(j)

Next == StageStep \/ EnvironmentStep \/ Finished

Safety == Init /\ [][Next]_vars

(***************************************************************************)
(* A gate that is excited switches, a delay ends, and the partners carry   *)
(* their handshakes on; nobody has to disturb its data.                    *)
(***************************************************************************)
Fairness ==
    /\ WF_vars(ReleaseReset /\ UNCHANGED envVars)
    /\ WF_vars(SwitchController /\ UNCHANGED envVars)
    /\ \A k \in ReqCells : WF_vars(SwitchReqCell(k) /\ UNCHANGED envVars)
    /\ \A k \in AckCells : WF_vars(SwitchAckCell(k) /\ UNCHANGED envVars)
    /\ \A j \in Outputs : /\ WF_vars(PassLatch(j) /\ UNCHANGED envVars)
                          /\ WF_vars(EndDelay(j) /\ UNCHANGED envVars)
                          /\ WF_vars(Take(j))
                          /\ WF_vars(Release(j))
    /\ \A i \in Inputs : WF_vars(Offer(i)) /\ WF_vars(Retract(i))

Spec == Safety /\ Fairness

-----------------------------------------------------------------------------
(***************************************************************************)
(* Properties.                                                             *)
(***************************************************************************)

\* Every wire is Boolean, every data wire carries one payload per input and
\* the token counters stay within the senders' supply.
TypeOK ==
    /\ StageTypeOK
    /\ sent     \in [Inputs -> 0..MaxTokens]
    /\ received \in [Outputs -> Nat]
    /\ got      \in [Outputs -> [Inputs -> Payload]]

\* The number of transactions the controller has started.
accepted == IF inReq[1] /\ ~q THEN sent[1] - 1 ELSE sent[1]

\* While an output request is up, its latch bank holds the tokens of the
\* transaction in progress, one from every input (the bundling constraint of
\* the half-buffer, transparent latch and matched delay together).
BundledPayload ==
    \A j \in Outputs : rreq[j] => latch[j] = [i \in Inputs |-> accepted]

\* The payload of an output does not move from the rise of its request until
\* its acknowledge has returned to zero.
PayloadStableStep == \A j \in Outputs : rreq[j] \/ outAck[j] => latch'[j] = latch[j]
PayloadStable == [][PayloadStableStep]_vars

\* The controller starts a transaction only when every input requests and
\* every output is idle, and ends it only when every request is withdrawn and
\* every output has acknowledged, whatever the serial reductions remember.
JoinedHandshake == [][JoinedHandshakeStep]_vars

\* No excited gate is disabled before it switches: the joins and the
\* controller are glitch-free for every order in which the partners move.
SpeedIndependentStep ==
    /\ \A k \in ReqCells : ReqCellExcited(k) =>
           reqRed'[k] # reqRed[k] \/ ReqCellExcited(k)'
    /\ \A k \in AckCells : AckCellExcited(k) =>
           ackRed'[k] # ackRed[k] \/ AckCellExcited(k)'
    /\ ControllerExcited => q' # q \/ ControllerExcited'
SpeedIndependent == [][SpeedIndependentStep]_vars

\* An input of a C-element changes only while the cell's output agrees with it:
\* the cell has answered its last change.  It is the discipline MullerCElement
\* needs of the network around a cell, for every cell of the stage.
ReqChain(k) == IF k = 1 THEN inReq[1] ELSE reqRed[k - 1]
AckChain(k) == IF k = 1 THEN outAck[1] ELSE ackRed[k - 1]
AnsweredInputsStep ==
    /\ \A k \in ReqCells :
          /\ ReqChain(k)' # ReqChain(k) => ReqChain(k) = reqRed[k]
          /\ inReq'[k + 1] # inReq[k + 1] => inReq[k + 1] = reqRed[k]
    /\ \A k \in AckCells :
          /\ AckChain(k)' # AckChain(k) => AckChain(k) = ackRed[k]
          /\ outAck'[k + 1] # outAck[k + 1] => outAck[k + 1] = ackRed[k]
    /\ base_Lreq' # base_Lreq => base_Lreq = q
    /\ base_Rack' # base_Rack => base_Rack = ~q
AnsweredInputs == [][AnsweredInputsStep]_vars

\* The controller never changes while a matched delay is still carrying its
\* last change: the inertial delay swallows no edge.
NoSwallowedEdgeStep == q' # q => \A j \in Outputs : rreq[j] = q
NoSwallowedEdge == [][NoSwallowedEdgeStep]_vars

\* The stage implements the wire-free specification: one token from every
\* input per transaction, results in order, none lost, none repeated, and
\* every offered token is eventually delivered.
Flow == INSTANCE TransactionFlow
            WITH offered <- sent, accepted <- accepted, delivered <- received
ImplementsFlow == Flow!FlowSpec

-----------------------------------------------------------------------------
(***************************************************************************)
(* The inductive invariant.  Reset comes once, at power-up.                *)
(***************************************************************************)
JoinsCleared == ~reset_n => \A k \in ReqCells : ~reqRed[k]

ControlInv == StageInv /\ JoinsCleared

\* Every input and every output agrees on the number of transactions.
TokenCount ==
    /\ \A i \in Inputs : sent[i] = accepted + (IF inReq[i] /\ ~q THEN 1 ELSE 0)
    /\ \A j \in Outputs :
          accepted = received[j] + (IF q /\ ~outAck[j] THEN 1 ELSE 0)

InputHeld == \A i \in Inputs : inReq[i] \/ q => inData[i] = sent[i]

DataInv == TokenCount /\ InputHeld /\ BundledPayload

\* Reset, both joins and the output handshakes are each in the phase the
\* controller's state says, and tokens and payloads agree with it: what every
\* proof about this module rests on.
Inv == TypeOK /\ ControlInv /\ DataInv
=============================================================================
