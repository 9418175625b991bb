--------------------- MODULE OrdinaryTransactionProofs ---------------------
(***************************************************************************)
(* TLAPS proofs about OrdinaryTransaction for every number of inputs and   *)
(* outputs and every supply of tokens.                                     *)
(***************************************************************************)
EXTENDS OrdinaryTransaction, BodyStageProofs

(***************************************************************************)
(* The steps of Next, named once for the case splits below.                *)
(***************************************************************************)
StepCases ==
    \/ ReleaseReset /\ UNCHANGED envVars
    \/ \E k \in ReqCells : SwitchReqCell(k) /\ UNCHANGED envVars
    \/ SwitchController /\ UNCHANGED envVars
    \/ \E j \in Outputs : PassLatch(j) /\ UNCHANGED envVars
    \/ \E j \in Outputs : EndDelay(j) /\ UNCHANGED envVars
    \/ \E k \in AckCells : SwitchAckCell(k) /\ UNCHANGED envVars
    \/ \E i \in Inputs : Offer(i)
    \/ \E i \in Inputs : Retract(i)
    \/ \E i \in Inputs : DropData(i)
    \/ \E j \in Outputs : Take(j)
    \/ \E j \in Outputs : Release(j)
    \/ UNCHANGED vars

\* A step of the stage is one of its kinds of step.
LEMMA StageStepsOfNext == StageStep => StageSteps /\ UNCHANGED envVars
  BY DEF StageStep, StageSteps

\* A step of the network, by actor.
LEMMA StepsOfNext == [Next]_vars <=> StepCases
  BY DEF Next, StageStep, EnvironmentStep, Finished, StepCases

-----------------------------------------------------------------------------
(***************************************************************************)
(* Every wire keeps its type, whatever the partners do with their data.    *)
(***************************************************************************)
LEMMA TypeInit == Init => TypeOK
<1> SUFFICES ASSUME Init PROVE TypeOK
  OBVIOUS
<1>0. NoToken \in Payload
  BY DEF Payload, NoToken
<1>1. StageTypeOK
  BY StageTypeInit DEF Init
<1>2. 0 \in 0..MaxTokens /\ 0 \in Nat
  BY EnvironmentAssumption
<1>3. /\ sent \in [Inputs -> 0..MaxTokens]
      /\ received \in [Outputs -> Nat]
      /\ got \in [Outputs -> [Inputs -> Payload]]
  BY <1>0, <1>2 DEF Init
<1> QED
  BY <1>1, <1>3 DEF TypeOK

\* Every step keeps the types.
LEMMA TypeStep == TypeOK /\ [Next]_vars => TypeOK'
<1> SUFFICES ASSUME TypeOK, StepCases PROVE TypeOK'
  BY StepsOfNext
<1>1. CASE StageStep
  BY <1>1, StageStepsOfNext, StageTypeStep DEF TypeOK, envVars
<1> USE DEF TypeOK, StageTypeOK
<1>2. CASE \E i \in Inputs : Offer(i)
  BY <1>2, EnvironmentAssumption DEF Offer, Payload
<1>3. CASE \E i \in Inputs : Retract(i)
  BY <1>3 DEF Retract, envVars
<1>4. CASE \E i \in Inputs : DropData(i)
  BY <1>4 DEF DropData, envVars, Payload, NoToken
<1>5. CASE \E j \in Outputs : Take(j)
  BY <1>5 DEF Take
<1>6. CASE \E j \in Outputs : Release(j)
  BY <1>6 DEF Release, envVars
<1>7. CASE UNCHANGED vars
  BY <1>7 DEF vars, stageVars, envVars
<1> QED
  BY <1>1, <1>2, <1>3, <1>4, <1>5, <1>6, <1>7 DEF StepCases, StageStep

\* Type correctness for every N, M and supply of tokens: in particular a
\* latch bank always holds one payload per input.
THEOREM TypeCorrect == Safety => []TypeOK
  BY TypeInit, TypeStep, PTL DEF Safety

-----------------------------------------------------------------------------
(***************************************************************************)
(* The control network.                                                    *)
(***************************************************************************)

\* ControlInv by its parts.
LEMMA ControlParts ==
  ASSUME TypeOK, ControlInv
  PROVE  StageTypeOK /\ StageInv /\ ResetPhase /\ RequestPhase /\ AckPhase /\ OutputPhase
<1>1. ASSUME ~reset_n PROVE RequestPhase
  BY <1>1 DEF ControlInv, JoinsCleared, StageInv, ResetPhase, RequestPhase
<1> QED
  BY <1>1 DEF TypeOK, ControlInv, StageInv

\* Reset comes once, so a cell that is about to switch is out of reset.
LEMMA ReqCellOutOfReset ==
  ASSUME TypeOK, ControlInv, NEW k \in ReqCells, ReqCellExcited(k)
  PROVE  reset_n
  BY DEF TypeOK, StageTypeOK, ControlInv, JoinsCleared, ReqCellExcited, ReqCellValue, CElement

\* The control invariant holds after reset ...
LEMMA ControlInit == Init => ControlInv
  BY StageControlInit DEF Init, StageInit, ControlInv, JoinsCleared

\* ... and every step keeps it.
LEMMA ControlStep == TypeOK /\ ControlInv /\ [Next]_vars => ControlInv'
<1> SUFFICES ASSUME TypeOK, ControlInv, StepCases PROVE ControlInv'
  BY StepsOfNext
<1>0. StageTypeOK /\ StageInv /\ JoinsCleared
  BY DEF TypeOK, ControlInv
<1>1. CASE StageStep
  <2>1. StageInv'
    BY <1>0, <1>1, StageStepsOfNext, StageControlStep
  <2>2. \/ UNCHANGED <<reset_n, reqRed>>
        \/ reset_n'
        \/ \E k \in ReqCells : ReqCellExcited(k) /\ UNCHANGED reset_n
    BY <1>1 DEF StageStep, ReleaseReset, SwitchReqCell, SwitchController, PassLatch,
                EndDelay, SwitchAckCell
  <2>3. JoinsCleared'
    BY <1>0, <2>2, ReqCellOutOfReset DEF JoinsCleared
  <2> QED BY <2>1, <2>3 DEF ControlInv
<1>2. ASSUME UNCHANGED <<reset_n, reqRed>>, StageInv' PROVE ControlInv'
  BY <1>0, <1>2 DEF ControlInv, JoinsCleared
<1>3. CASE \E i \in Inputs : Offer(i) \/ Retract(i)
  <2> PICK i \in Inputs : Offer(i) \/ Retract(i) BY <1>3
  <2>1. /\ inReq' = [inReq EXCEPT ![i] = ~q]
        /\ UNCHANGED <<reset_n, reqRed, q, rreq, outAck, ackRed>>
    BY <1>0 DEF Offer, Retract, base_Lack, StageTypeOK
  <2> QED BY <1>0, <1>2, <2>1, RequestMoves
<1>4. CASE \E i \in Inputs : DropData(i)
  BY <1>0, <1>2, <1>4, StageControlUnchanged DEF DropData, controlVars
<1>5. CASE \E j \in Outputs : Take(j) \/ Release(j)
  <2> PICK j \in Outputs : Take(j) \/ Release(j) BY <1>5
  <2>1. /\ outAck[j] # rreq[j] /\ outAck' = [outAck EXCEPT ![j] = rreq[j]]
        /\ UNCHANGED <<reset_n, inReq, reqRed, q, rreq, ackRed>>
    BY <1>0 DEF Take, Release, StageTypeOK
  <2> QED BY <1>0, <1>2, <2>1, AcknowledgeMoves
<1>6. CASE UNCHANGED vars
  BY <1>0, <1>2, <1>6, StageControlUnchanged DEF vars, stageVars, controlVars
<1> QED
  BY <1>1, <1>3, <1>4, <1>5, <1>6 DEF StepCases, StageStep

\* So it holds in every reachable state.
LEMMA ControlCorrect == Safety => [](TypeOK /\ ControlInv)
<1>1. Init => TypeOK /\ ControlInv
  BY TypeInit, ControlInit
<1>2. TypeOK /\ ControlInv /\ [Next]_vars => (TypeOK /\ ControlInv)'
  BY TypeStep, ControlStep
<1> QED
  BY <1>1, <1>2, PTL DEF Safety

-----------------------------------------------------------------------------
(***************************************************************************)
(* What the control network never does.                                    *)
(***************************************************************************)
LEMMA JoinedHandshakeHolds ==
  TypeOK /\ ControlInv /\ [Next]_vars => [JoinedHandshakeStep]_vars
<1> SUFFICES ASSUME TypeOK, ControlInv, StepCases, q' # q PROVE JoinedHandshakeStep
  BY StepsOfNext DEF JoinedHandshakeStep, TypeOK, StageTypeOK
<1>1. SwitchController
  BY DEF StepCases, ReleaseReset, SwitchReqCell, SwitchController, PassLatch,
         EndDelay, SwitchAckCell, Offer, Retract, DropData, Take, Release, vars, stageVars
<1> QED
  BY <1>1, ControlParts, ControllerJoins

\* For every number of channels the serial reductions act as one N-input and
\* one M-input C-element around the controller.
THEOREM JoinedHandshakeCorrect == Safety => JoinedHandshake
  BY ControlCorrect, JoinedHandshakeHolds, PTL DEF Safety, JoinedHandshake

\* The controller moves only when no delay carries an edge.
LEMMA NoSwallowedEdgeHolds ==
  TypeOK /\ ControlInv /\ [Next]_vars => [NoSwallowedEdgeStep]_vars
<1> SUFFICES ASSUME TypeOK, ControlInv, [Next]_vars, q' # q
             PROVE  \A j \in Outputs : rreq[j] = q
  BY DEF NoSwallowedEdgeStep
<1>1. q \in BOOLEAN /\ q' \in BOOLEAN /\ \A j \in Outputs : rreq[j] \in BOOLEAN
  BY TypeStep DEF TypeOK, StageTypeOK
<1>2. JoinedHandshakeStep
  BY JoinedHandshakeHolds DEF vars, stageVars
<1> QED
  BY <1>1, <1>2 DEF JoinedHandshakeStep

\* Every edge of the controller reaches every output request, however long
\* the matched delays are and however they differ.
THEOREM NoSwallowedEdgeCorrect == Safety => NoSwallowedEdge
  BY ControlCorrect, NoSwallowedEdgeHolds, PTL DEF Safety, NoSwallowedEdge

(***************************************************************************)
(* The monotonicity the backend document assumes of the joins, for the     *)
(* requests and acknowledges themselves and for every cell behind them.    *)
(***************************************************************************)
LEMMA MonotonicPhases ==
  ASSUME TypeOK, ControlInv, StepCases
  PROVE  /\ reset_n => reset_n'
         /\ ~q => /\ \A i \in Inputs : inReq[i] => inReq'[i]
                  /\ \A k \in ReqCells : reqRed[k] => reqRed'[k]
                  /\ \A j \in Outputs : ~outAck[j] => ~outAck'[j]
                  /\ \A k \in AckCells : ~ackRed[k] => ~ackRed'[k]
         /\ q => /\ \A i \in Inputs : ~inReq[i] => ~inReq'[i]
                 /\ \A k \in ReqCells : ~reqRed[k] => ~reqRed'[k]
                 /\ \A j \in Outputs : outAck[j] => outAck'[j]
                 /\ \A k \in AckCells : ackRed[k] => ackRed'[k]
<1>1. reset_n => reset_n'
  BY DEF StepCases, ReleaseReset, SwitchReqCell, SwitchController, PassLatch,
         EndDelay, SwitchAckCell, Offer, Retract, DropData, Take, Release, vars, stageVars
<1>2. \/ UNCHANGED inReq
      \/ \E i \in Inputs : ~q /\ inReq' = [inReq EXCEPT ![i] = TRUE]
      \/ \E i \in Inputs : q /\ inReq' = [inReq EXCEPT ![i] = FALSE]
  BY DEF StepCases, ReleaseReset, SwitchReqCell, SwitchController, PassLatch, base_Lack,
         EndDelay, SwitchAckCell, Offer, Retract, DropData, Take, Release, vars, stageVars
<1>3. \A i \in Inputs : (~q /\ inReq[i] => inReq'[i]) /\ (q /\ ~inReq[i] => ~inReq'[i])
  BY <1>2 DEF TypeOK, StageTypeOK
<1>4. \/ UNCHANGED outAck
      \/ \E j \in Outputs : rreq[j] /\ ~outAck[j] /\ outAck' = [outAck EXCEPT ![j] = TRUE]
      \/ \E j \in Outputs : ~rreq[j] /\ outAck[j] /\ outAck' = [outAck EXCEPT ![j] = FALSE]
  BY DEF StepCases, ReleaseReset, SwitchReqCell, SwitchController, PassLatch,
         EndDelay, SwitchAckCell, Offer, Retract, DropData, Take, Release, vars, stageVars
<1>5. \A j \in Outputs : (~q /\ ~outAck[j] => ~outAck'[j]) /\ (q /\ outAck[j] => outAck'[j])
  BY <1>4, ControlParts DEF TypeOK, StageTypeOK, OutputPhase
<1>6. \/ UNCHANGED reqRed
      \/ \E k \in ReqCells : /\ ReqCellExcited(k)
                             /\ reqRed' = [reqRed EXCEPT ![k] = ReqCellValue(k)]
  BY DEF StepCases, ReleaseReset, SwitchReqCell, SwitchController, PassLatch,
         EndDelay, SwitchAckCell, Offer, Retract, DropData, Take, Release, vars, stageVars
<1>7. \A k \in ReqCells : (~q /\ reqRed[k] => reqRed'[k]) /\ (q /\ ~reqRed[k] => ~reqRed'[k])
  BY <1>6, ControlParts, ReqCellOutOfReset, ReqCellSwitch DEF TypeOK, StageTypeOK
<1>8. \/ UNCHANGED ackRed
      \/ \E k \in AckCells : /\ AckCellExcited(k)
                             /\ ackRed' = [ackRed EXCEPT ![k] = AckCellValue(k)]
  BY DEF StepCases, ReleaseReset, SwitchReqCell, SwitchController, PassLatch,
         EndDelay, SwitchAckCell, Offer, Retract, DropData, Take, Release, vars, stageVars
<1>9. \A k \in AckCells : (~q /\ ~ackRed[k] => ~ackRed'[k]) /\ (q /\ ackRed[k] => ackRed'[k])
  BY <1>8, ControlParts, AckCellSwitch DEF TypeOK, StageTypeOK
<1> QED
  BY <1>1, <1>3, <1>5, <1>7, <1>9

\* No step disables an excited cell.
LEMMA SpeedIndependentHolds ==
  TypeOK /\ ControlInv /\ [Next]_vars => [SpeedIndependentStep]_vars
<1> SUFFICES ASSUME TypeOK, ControlInv, StepCases PROVE SpeedIndependentStep
  BY StepsOfNext
<1>0. TypeOK'
  BY TypeStep, StepsOfNext
<1>1. ASSUME NEW k \in ReqCells, ReqCellExcited(k), reqRed'[k] = reqRed[k]
      PROVE  ReqCellExcited(k)'
  <2> DEFINE before == IF k = 1 THEN inReq[1] ELSE reqRed[k - 1]
  <2>1. /\ k + 1 \in Inputs /\ 1 \in Inputs /\ (k # 1 => k - 1 \in ReqCells)
        /\ k + 1 \in 1..(k + 1) /\ 1 \in 1..(k + 1) /\ (k # 1 => k - 1 \in 1..(k - 1))
    BY SizeAssumption DEF Inputs, ReqCells
  <2>2. reset_n /\ reset_n'
    BY <1>1, ReqCellOutOfReset, MonotonicPhases
  <2>3. CASE ~q
    <3>1. before' /\ inReq'[k + 1] /\ ReqCellValue(k)
      BY <1>1, <2>1, <2>3, ControlParts, ReqCellOutOfReset, ReqCellSwitch, MonotonicPhases
    <3>2. ~reqRed[k]
      BY <1>1, <3>1 DEF ReqCellExcited, TypeOK, StageTypeOK
    <3> QED
      BY <1>1, <2>2, <3>1, <3>2 DEF ReqCellExcited, ReqCellValue, CElement
  <2>4. CASE q
    <3>1. ~before' /\ ~inReq'[k + 1] /\ ~ReqCellValue(k)
      BY <1>1, <2>1, <2>4, ControlParts, ReqCellOutOfReset, ReqCellSwitch, MonotonicPhases
    <3>2. reqRed[k]
      BY <1>1, <3>1 DEF ReqCellExcited, ReqCellValue, CElement, TypeOK, StageTypeOK
    <3> QED
      BY <1>1, <2>2, <3>1, <3>2 DEF ReqCellExcited, ReqCellValue, CElement
  <2> QED BY <2>3, <2>4
<1>2. ASSUME NEW k \in AckCells, AckCellExcited(k), ackRed'[k] = ackRed[k]
      PROVE  AckCellExcited(k)'
  <2> DEFINE before == IF k = 1 THEN outAck[1] ELSE ackRed[k - 1]
  <2>1. /\ k + 1 \in Outputs /\ 1 \in Outputs /\ (k # 1 => k - 1 \in AckCells)
        /\ k + 1 \in 1..(k + 1) /\ 1 \in 1..(k + 1) /\ (k # 1 => k - 1 \in 1..(k - 1))
    BY SizeAssumption DEF Outputs, AckCells
  <2>2. reset_n /\ reset_n'
    BY <1>2, ControlParts, AckCellSwitch, MonotonicPhases
  <2>3. CASE q
    <3>1. before' /\ outAck'[k + 1] /\ AckCellValue(k)
      BY <1>2, <2>1, <2>3, ControlParts, AckCellSwitch, MonotonicPhases
    <3>2. ~ackRed[k]
      BY <1>2, <3>1 DEF AckCellExcited, TypeOK, StageTypeOK
    <3> QED
      BY <1>2, <2>2, <3>1, <3>2 DEF AckCellExcited, AckCellValue, CElement
  <2>4. CASE ~q
    <3>1. ~before' /\ ~outAck'[k + 1] /\ ~AckCellValue(k)
      BY <1>2, <2>1, <2>4, ControlParts, AckCellSwitch, MonotonicPhases
    <3>2. ackRed[k]
      BY <1>2, <3>1 DEF AckCellExcited, AckCellValue, CElement, TypeOK, StageTypeOK
    <3> QED
      BY <1>2, <2>2, <3>1, <3>2 DEF AckCellExcited, AckCellValue, CElement
  <2> QED BY <2>3, <2>4
<1>3. ASSUME ControllerExcited, q' = q
      PROVE  ControllerExcited'
  <2>1. /\ 1 \in Inputs /\ (N # 1 => N - 1 \in ReqCells)
        /\ 1 \in Outputs /\ (M # 1 => M - 1 \in AckCells)
    BY SizeAssumption DEF Inputs, Outputs, ReqCells, AckCells
  <2>2. reset_n /\ reset_n' /\ q \in BOOLEAN
    BY <1>3, ControlParts, ControllerSwitch, MonotonicPhases DEF TypeOK, StageTypeOK
  <2>3. CASE ~q
    <3>1. base_Lreq' /\ ~base_Rack'
      BY <1>3, <2>1, <2>3, ControlParts, ControllerSwitch, MonotonicPhases DEF base_Lreq, base_Rack
    <3> QED
      BY <1>3, <2>2, <2>3, <3>1 DEF ControllerExcited, ControllerValue, CElement
  <2>4. CASE q
    <3>1. ~base_Lreq' /\ base_Rack'
      BY <1>3, <2>1, <2>4, ControlParts, ControllerSwitch, MonotonicPhases DEF base_Lreq, base_Rack
    <3> QED
      BY <1>3, <2>2, <2>4, <3>1 DEF ControllerExcited, ControllerValue, CElement
  <2> QED BY <2>3, <2>4
<1> QED
  BY <1>1, <1>2, <1>3 DEF SpeedIndependentStep

\* The generated control network has no gate hazard for any number of
\* channels: every order of arrivals, withdrawals and acknowledges is safe.
THEOREM SpeedIndependentCorrect == Safety => SpeedIndependent
  BY ControlCorrect, SpeedIndependentHolds, PTL DEF Safety, SpeedIndependent

\* No input of a cell moves before the cell has answered the last move.
LEMMA AnsweredInputsHolds ==
  TypeOK /\ ControlInv /\ [Next]_vars => [AnsweredInputsStep]_vars
<1> SUFFICES ASSUME TypeOK, ControlInv, StepCases PROVE AnsweredInputsStep
  BY StepsOfNext
<1>0. TypeOK'
  BY TypeStep, StepsOfNext
<1>1. ASSUME NEW k \in ReqCells
      PROVE  /\ ReqChain(k)' # ReqChain(k) => ReqChain(k) = reqRed[k]
             /\ inReq'[k + 1] # inReq[k + 1] => inReq[k + 1] = reqRed[k]
  <2>1. /\ k + 1 \in Inputs /\ 1 \in Inputs /\ (k # 1 => k - 1 \in ReqCells)
        /\ k + 1 \in 1..(k + 1) /\ 1 \in 1..(k + 1) /\ (k # 1 => k - 1 \in 1..k)
    BY <1>1, SizeAssumption DEF Inputs, ReqCells
  <2>2. /\ {ReqChain(k), inReq[k + 1], reqRed[k]} \subseteq BOOLEAN
        /\ {ReqChain(k)', inReq'[k + 1]} \subseteq BOOLEAN
    BY <1>0, <1>1, <2>1 DEF ReqChain, TypeOK, StageTypeOK
  <2>3. CASE ~q
    <3>1. reqRed[k] => ReqChain(k) /\ inReq[k + 1]
      BY <1>1, <2>1, <2>3, ControlParts DEF ReqChain, RequestPhase
    <3>2. (ReqChain(k) => ReqChain(k)') /\ (inReq[k + 1] => inReq'[k + 1])
      BY <1>1, <2>1, <2>3, MonotonicPhases DEF ReqChain
    <3> QED BY <2>2, <3>1, <3>2
  <2>4. CASE q
    <3>1. ~reqRed[k] => ~ReqChain(k) /\ ~inReq[k + 1]
      BY <1>1, <2>1, <2>4, ControlParts DEF ReqChain, RequestPhase
    <3>2. (~ReqChain(k) => ~ReqChain(k)') /\ (~inReq[k + 1] => ~inReq'[k + 1])
      BY <1>1, <2>1, <2>4, MonotonicPhases DEF ReqChain
    <3> QED BY <2>2, <3>1, <3>2
  <2> QED BY <2>3, <2>4
<1>2. ASSUME NEW k \in AckCells
      PROVE  /\ AckChain(k)' # AckChain(k) => AckChain(k) = ackRed[k]
             /\ outAck'[k + 1] # outAck[k + 1] => outAck[k + 1] = ackRed[k]
  <2>1. /\ k + 1 \in Outputs /\ 1 \in Outputs /\ (k # 1 => k - 1 \in AckCells)
        /\ k + 1 \in 1..(k + 1) /\ 1 \in 1..(k + 1) /\ (k # 1 => k - 1 \in 1..k)
    BY <1>2, SizeAssumption DEF Outputs, AckCells
  <2>2. /\ {AckChain(k), outAck[k + 1], ackRed[k]} \subseteq BOOLEAN
        /\ {AckChain(k)', outAck'[k + 1]} \subseteq BOOLEAN
    BY <1>0, <1>2, <2>1 DEF AckChain, TypeOK, StageTypeOK
  <2>3. CASE q
    <3>1. ackRed[k] => AckChain(k) /\ outAck[k + 1]
      BY <1>2, <2>1, <2>3, ControlParts DEF AckChain, AckPhase
    <3>2. (AckChain(k) => AckChain(k)') /\ (outAck[k + 1] => outAck'[k + 1])
      BY <1>2, <2>1, <2>3, MonotonicPhases DEF AckChain
    <3> QED BY <2>2, <3>1, <3>2
  <2>4. CASE ~q
    <3>1. ~ackRed[k] => ~AckChain(k) /\ ~outAck[k + 1]
      BY <1>2, <2>1, <2>4, ControlParts DEF AckChain, AckPhase
    <3>2. (~AckChain(k) => ~AckChain(k)') /\ (~outAck[k + 1] => ~outAck'[k + 1])
      BY <1>2, <2>1, <2>4, MonotonicPhases DEF AckChain
    <3> QED BY <2>2, <3>1, <3>2
  <2> QED BY <2>3, <2>4
<1>3. /\ base_Lreq' # base_Lreq => base_Lreq = q
      /\ base_Rack' # base_Rack => base_Rack = ~q
  <2>1. /\ 1 \in Inputs /\ (N # 1 => N - 1 \in ReqCells)
        /\ 1 \in Outputs /\ (M # 1 => M - 1 \in AckCells)
    BY SizeAssumption DEF Inputs, Outputs, ReqCells, AckCells
  <2>2. /\ {base_Lreq, base_Rack, q} \subseteq BOOLEAN
        /\ {base_Lreq', base_Rack'} \subseteq BOOLEAN
    BY <1>0, <2>1 DEF base_Lreq, base_Rack, TypeOK, StageTypeOK
  <2>3. /\ ~q => (base_Lreq => base_Lreq') /\ (~base_Rack => ~base_Rack')
        /\ q => (~base_Lreq => ~base_Lreq') /\ (base_Rack => base_Rack')
    BY <2>1, MonotonicPhases DEF base_Lreq, base_Rack
  <2> QED BY <2>2, <2>3
<1> QED
  BY <1>1, <1>2, <1>3 DEF AnsweredInputsStep

\* Every cell of both joins and of the controller is used as MullerCElement
\* requires, for every number of channels.
THEOREM AnsweredInputsCorrect == Safety => AnsweredInputs
  BY ControlCorrect, AnsweredInputsHolds, PTL DEF Safety, AnsweredInputs

-----------------------------------------------------------------------------
(***************************************************************************)
(* Tokens and payloads, for senders that hold their data long enough.      *)
(***************************************************************************)
LEMMA DataInit == Init => DataInv
<1> SUFFICES ASSUME Init PROVE DataInv
  OBVIOUS
<1>1. /\ ~q /\ 1 \in Inputs
      /\ \A i \in Inputs : ~inReq[i] /\ sent[i] = 0
      /\ \A j \in Outputs : ~rreq[j] /\ received[j] = 0
  BY SizeAssumption DEF Init, StageInit, Inputs
<1> QED
  BY <1>1 DEF DataInv, TokenCount, InputHeld, BundledPayload, accepted

(***************************************************************************)
(* While a request is up or the controller is set, the input data lines    *)
(* carry exactly the tokens of the transaction in progress.                *)
(***************************************************************************)
LEMMA InputVector ==
  ASSUME TypeOK, DataInv, q
  PROVE  inData = [i \in Inputs |-> accepted]
<1>1. \A i \in Inputs : inData[i] = sent[i] /\ sent[i] \in Nat
  BY EnvironmentAssumption DEF DataInv, InputHeld, TypeOK
<1>2. 1 \in Inputs /\ accepted = sent[1]
  BY SizeAssumption DEF Inputs, accepted
<1>3. \A i \in Inputs : inData[i] = accepted
  BY <1>1, <1>2 DEF DataInv, TokenCount
<1> QED
  BY <1>3 DEF TypeOK, StageTypeOK

\* The number of accepted tokens is a natural number.
LEMMA AcceptedType ==
  ASSUME TypeOK PROVE accepted \in Int
  BY SizeAssumption, EnvironmentAssumption DEF accepted, TypeOK, Inputs

\* Every step keeps the data invariant.
LEMMA DataStep ==
  ASSUME HoldsUntilAckLow
  PROVE  TypeOK /\ ControlInv /\ DataInv /\ [Next]_vars => DataInv'
<1> SUFFICES ASSUME TypeOK, ControlInv, DataInv, StepCases PROVE DataInv'
  BY StepsOfNext
<1>0. /\ accepted \in Int /\ 1 \in Inputs /\ q \in BOOLEAN
      /\ \A i \in Inputs : sent[i] \in Int /\ inReq[i] \in BOOLEAN
      /\ \A j \in Outputs : received[j] \in Int /\ outAck[j] \in BOOLEAN
  BY SizeAssumption, EnvironmentAssumption, AcceptedType
  DEF TypeOK, StageTypeOK, Inputs
<1>a. ASSUME UNCHANGED <<inReq, inData, q, latch, rreq, outAck, sent, received>>
      PROVE  DataInv'
  BY <1>a DEF DataInv, TokenCount, InputHeld, BundledPayload, accepted
<1>1. CASE ReleaseReset /\ UNCHANGED envVars
  BY <1>1, <1>a DEF ReleaseReset, envVars
<1>2. CASE \E k \in ReqCells : SwitchReqCell(k) /\ UNCHANGED envVars
  BY <1>2, <1>a DEF SwitchReqCell, envVars
<1>3. CASE SwitchController /\ UNCHANGED envVars
  <2>1. ControllerExcited /\ q' = ControllerValue
    BY <1>3 DEF SwitchController
  <2>2. UNCHANGED <<inReq, inData, latch, rreq, outAck, sent, received>>
    BY <1>3 DEF SwitchController, envVars
  <2>3. CASE ~q
    <3>1. /\ q' /\ accepted' = sent[1] /\ accepted = sent[1] - 1
          /\ \A i \in Inputs : inReq[i]
          /\ \A j \in Outputs : ~outAck[j] /\ ~rreq[j]
      BY <2>1, <2>2, <2>3, <1>0, ControlParts, ControllerSwitch DEF accepted
    <3>2. TokenCount'
      BY <3>1, <2>2, <2>3, <1>0 DEF DataInv, TokenCount
    <3>3. InputHeld'
      BY <3>1, <2>2 DEF DataInv, InputHeld
    <3>4. BundledPayload'
      BY <3>1, <2>2 DEF BundledPayload
    <3> QED BY <3>2, <3>3, <3>4 DEF DataInv
  <2>4. CASE q
    <3>1. /\ ~q' /\ accepted' = accepted
          /\ \A i \in Inputs : ~inReq[i]
          /\ \A j \in Outputs : outAck[j] /\ rreq[j]
      BY <2>1, <2>2, <2>4, <1>0, ControlParts, ControllerSwitch DEF accepted
    <3>2. TokenCount'
      BY <3>1, <2>2, <2>4, <1>0 DEF DataInv, TokenCount
    <3>3. InputHeld'
      BY <3>1, <2>2 DEF DataInv, InputHeld
    <3>4. BundledPayload'
      BY <3>1, <2>2 DEF DataInv, BundledPayload
    <3> QED BY <3>2, <3>3, <3>4 DEF DataInv
  <2> QED BY <2>3, <2>4
<1>4. CASE \E j \in Outputs : PassLatch(j) /\ UNCHANGED envVars
  <2> PICK j \in Outputs : PassLatch(j) /\ UNCHANGED envVars BY <1>4
  <2>1. /\ UNCHANGED <<inReq, inData, q, rreq, outAck, sent, received>>
        /\ latch' = [latch EXCEPT ![j] = inData]
        /\ q /\ accepted' = accepted
    BY DEF PassLatch, LatchExcited, storage_enable, BodyData, envVars, accepted
  <2>2. TokenCount' /\ InputHeld'
    BY <2>1 DEF DataInv, TokenCount, InputHeld
  <2>3. \A n \in Outputs : latch'[n] = latch[n] \/ latch'[n] = inData
    BY <2>1 DEF TypeOK, StageTypeOK
  <2>4. BundledPayload'
    BY <2>1, <2>3, InputVector DEF DataInv, BundledPayload
  <2> QED BY <2>2, <2>4 DEF DataInv
<1>5. CASE \E j \in Outputs : EndDelay(j) /\ UNCHANGED envVars
  <2> PICK j \in Outputs : EndDelay(j) /\ UNCHANGED envVars BY <1>5
  <2>1. /\ UNCHANGED <<inReq, inData, q, latch, outAck, sent, received>>
        /\ rreq' = [rreq EXCEPT ![j] = q]
        /\ q => latch[j] = inData
        /\ accepted' = accepted
    BY DEF EndDelay, PayloadSettled, storage_enable, BodyData, envVars, accepted
  <2>2. TokenCount' /\ InputHeld'
    BY <2>1 DEF DataInv, TokenCount, InputHeld
  <2>3. \A n \in Outputs : rreq'[n] => rreq[n] \/ (n = j /\ q)
    BY <2>1 DEF TypeOK, StageTypeOK
  <2>4. BundledPayload'
    BY <2>1, <2>3, InputVector DEF DataInv, BundledPayload
  <2> QED BY <2>2, <2>4 DEF DataInv
<1>6. CASE \E k \in AckCells : SwitchAckCell(k) /\ UNCHANGED envVars
  BY <1>6, <1>a DEF SwitchAckCell, envVars
<1>7. CASE \E i \in Inputs : Offer(i)
  <2> PICK i \in Inputs : Offer(i) BY <1>7
  <2>1. /\ ~inReq[i] /\ ~q
        /\ sent' = [sent EXCEPT ![i] = sent[i] + 1]
        /\ inReq' = [inReq EXCEPT ![i] = TRUE]
        /\ inData' = [inData EXCEPT ![i] = sent[i] + 1]
        /\ UNCHANGED <<q, latch, rreq, outAck, received>>
    BY DEF Offer, base_Lack
  <2>2. \A n \in Inputs : /\ n = i => /\ inReq'[n] /\ sent'[n] = sent[i] + 1
                                       /\ inData'[n] = sent[i] + 1
                          /\ n # i => /\ inReq'[n] = inReq[n] /\ sent'[n] = sent[n]
                                       /\ inData'[n] = inData[n]
    BY <2>1 DEF TypeOK, StageTypeOK
  <2>3. accepted' = accepted
    <3>1. CASE i = 1
      <4>1. accepted' = (sent[1] + 1) - 1 /\ accepted = sent[1]
        BY <3>1, <2>1, <2>2 DEF accepted
      <4> QED BY <4>1, <1>0
    <3>2. CASE i # 1
      BY <3>2, <2>1, <2>2, <1>0 DEF accepted
    <3> QED BY <3>1, <3>2
  <2>4. TokenCount'
    <3>1. sent[i] = accepted + 0
      BY <2>1 DEF DataInv, TokenCount
    <3>2. sent'[i] = accepted' + 1
      BY <3>1, <2>2, <2>3, <1>0
    <3>3. ASSUME NEW n \in Inputs
          PROVE  sent'[n] = accepted' + (IF inReq'[n] /\ ~q' THEN 1 ELSE 0)
      <4>1. CASE n = i
        BY <4>1, <3>2, <2>1, <2>2
      <4>2. CASE n # i
        BY <4>2, <2>1, <2>2, <2>3 DEF DataInv, TokenCount
      <4> QED BY <4>1, <4>2
    <3>4. ASSUME NEW j \in Outputs
          PROVE  accepted' = received'[j] + (IF q' /\ ~outAck'[j] THEN 1 ELSE 0)
      BY <2>1, <2>3 DEF DataInv, TokenCount
    <3> QED BY <3>3, <3>4 DEF TokenCount
  <2>5. InputHeld'
    BY <2>1, <2>2 DEF DataInv, InputHeld
  <2>6. BundledPayload'
    BY <2>1, <2>3 DEF DataInv, BundledPayload
  <2> QED BY <2>4, <2>5, <2>6 DEF DataInv
<1>8. CASE \E i \in Inputs : Retract(i)
  <2> PICK i \in Inputs : Retract(i) BY <1>8
  <2>1. /\ q /\ inReq' = [inReq EXCEPT ![i] = FALSE]
        /\ UNCHANGED <<inData, q, latch, rreq, outAck, sent, received>>
        /\ accepted' = accepted
    BY DEF Retract, base_Lack, envVars, accepted
  <2> QED
    BY <2>1 DEF DataInv, TokenCount, InputHeld, BundledPayload
<1>9. CASE \E i \in Inputs : DropData(i)
  <2> PICK i \in Inputs : DropData(i) BY <1>9
  <2>1. /\ ~q /\ ~inReq[i] /\ inData' = [inData EXCEPT ![i] = NoToken]
        /\ UNCHANGED <<inReq, q, latch, rreq, outAck, sent, received>>
        /\ accepted' = accepted
    BY HoldsUntilAckLow DEF DropData, base_Lack, envVars, accepted
  <2>2. \A n \in Inputs : n # i => inData'[n] = inData[n]
    BY <2>1 DEF TypeOK, StageTypeOK
  <2> QED
    BY <2>1, <2>2 DEF DataInv, TokenCount, InputHeld, BundledPayload
<1>10. CASE \E j \in Outputs : Take(j)
  <2> PICK j \in Outputs : Take(j) BY <1>10
  <2>1. /\ rreq[j] /\ ~outAck[j]
        /\ outAck' = [outAck EXCEPT ![j] = TRUE]
        /\ received' = [received EXCEPT ![j] = received[j] + 1]
        /\ UNCHANGED <<inReq, inData, q, latch, rreq, sent>>
        /\ accepted' = accepted
    BY DEF Take, accepted
  <2>2. q
    BY <2>1, ControlParts DEF OutputPhase
  <2>3. \A n \in Outputs :
          /\ n = j => outAck'[n] /\ received'[n] = received[n] + 1
          /\ n # j => outAck'[n] = outAck[n] /\ received'[n] = received[n]
    BY <2>1 DEF TypeOK, StageTypeOK
  <2>4. TokenCount'
    <3>1. accepted = received[j] + 1
      BY <2>1, <2>2 DEF DataInv, TokenCount
    <3>2. accepted' = received'[j] + 0
      <4>1. accepted' = accepted /\ received'[j] = received[j] + 1
        BY <2>1, <2>3
      <4>2. received[j] \in Int
        BY <1>0
      <4> QED BY <3>1, <4>1, <4>2
    <3>3. ASSUME NEW n \in Outputs
          PROVE  accepted' = received'[n] + (IF q' /\ ~outAck'[n] THEN 1 ELSE 0)
      <4>1. CASE n = j
        BY <4>1, <3>2, <2>3
      <4>2. CASE n # j
        BY <4>2, <2>1, <2>3 DEF DataInv, TokenCount
      <4> QED BY <4>1, <4>2
    <3>4. ASSUME NEW i \in Inputs
          PROVE  sent'[i] = accepted' + (IF inReq'[i] /\ ~q' THEN 1 ELSE 0)
      BY <2>1 DEF DataInv, TokenCount
    <3> QED BY <3>3, <3>4 DEF TokenCount
  <2> QED
    BY <2>1, <2>4 DEF DataInv, InputHeld, BundledPayload
<1>11. CASE \E j \in Outputs : Release(j)
  <2> PICK j \in Outputs : Release(j) BY <1>11
  <2>1. /\ ~rreq[j] /\ outAck[j]
        /\ outAck' = [outAck EXCEPT ![j] = FALSE]
        /\ UNCHANGED <<inReq, inData, q, latch, rreq, sent, received>>
        /\ accepted' = accepted
    BY DEF Release, envVars, accepted
  <2>2. ~q
    BY <2>1, ControlParts DEF OutputPhase
  <2> QED
    BY <2>1, <2>2 DEF DataInv, TokenCount, InputHeld, BundledPayload
<1>12. CASE UNCHANGED vars
  BY <1>12, <1>a DEF vars, stageVars, envVars
<1> QED
  BY <1>1, <1>2, <1>3, <1>4, <1>5, <1>6, <1>7, <1>8, <1>9, <1>10, <1>11, <1>12
  DEF StepCases

\* The inductive invariant of the ordinary transaction.
THEOREM InvCorrect == ASSUME HoldsUntilAckLow PROVE Safety => []Inv
<1>1. Init => Inv
  BY TypeInit, ControlInit, DataInit DEF Inv
<1>2. Inv /\ [Next]_vars => Inv'
  BY HoldsUntilAckLow, TypeStep, ControlStep, DataStep DEF Inv
<1> QED
  BY <1>1, <1>2, PTL DEF Safety

\* A receiver that sees a request sees the tokens of the transaction in
\* progress, one from every sender.
THEOREM BundledPayloadCorrect ==
  ASSUME HoldsUntilAckLow PROVE Safety => []BundledPayload
<1>1. Inv => BundledPayload
  BY DEF Inv, DataInv
<1> QED
  BY <1>1, HoldsUntilAckLow, InvCorrect, PTL

\* A step leaves the payload of a running output handshake alone.
LEMMA PayloadStableHolds == Inv /\ [Next]_vars => [PayloadStableStep]_vars
<1> SUFFICES ASSUME Inv, StepCases, NEW j \in Outputs, rreq[j] \/ outAck[j]
             PROVE  latch'[j] = latch[j]
  BY StepsOfNext DEF PayloadStableStep
<1> USE DEF Inv
<1>1. \/ UNCHANGED latch
      \/ \E n \in Outputs : LatchExcited(n) /\ latch' = [latch EXCEPT ![n] = BodyData]
  BY DEF StepCases, ReleaseReset, SwitchReqCell, SwitchController, PassLatch,
         EndDelay, SwitchAckCell, Offer, Retract, DropData, Take, Release, vars, stageVars
<1>2. ASSUME LatchExcited(j) PROVE FALSE
  <2>1. q /\ latch[j] # inData
    BY <1>2 DEF LatchExcited, storage_enable, BodyData
  <2>2. rreq[j]
    BY <2>1, ControlParts DEF OutputPhase
  <2> QED
    BY <2>1, <2>2, InputVector DEF DataInv, BundledPayload
<1> QED
  BY <1>1, <1>2 DEF TypeOK, StageTypeOK

\* The transparent latch never moves a payload a receiver may be reading.
THEOREM PayloadStableCorrect ==
  ASSUME HoldsUntilAckLow PROVE Safety => PayloadStable
  BY HoldsUntilAckLow, InvCorrect, PayloadStableHolds, PTL DEF Safety, PayloadStable

-----------------------------------------------------------------------------
(***************************************************************************)
(* The refinement.  Offers are offers, the rise of the controller starts a *)
(* transaction, an acknowledge delivers a result, all else is internal.    *)
(***************************************************************************)
LEMMA FlowInitial == Init => Flow!FlowInit
<1> SUFFICES ASSUME Init PROVE Flow!FlowInit
  OBVIOUS
<1>1. 1 \in Inputs /\ ~inReq[1] /\ sent[1] = 0
  BY SizeAssumption DEF Init, StageInit, Inputs
<1> QED
  BY <1>1 DEF Init, Flow!FlowInit, accepted, NoToken, Inputs, Outputs

\* A step of the network is a step of the flow specification or none.
LEMMA FlowStep ==
  Inv /\ [Next]_vars => [Flow!FlowNext]_(Flow!flowVars)
<1> SUFFICES ASSUME Inv, StepCases
             PROVE  Flow!FlowNext \/ UNCHANGED <<sent, accepted, received, got>>
  BY StepsOfNext DEF Flow!flowVars
<1> USE DEF Inv
<1>0. /\ accepted \in Int /\ 1 \in Inputs /\ q \in BOOLEAN
      /\ \A i \in Inputs : sent[i] \in Int
      /\ \A j \in Outputs : received[j] \in Int
  BY SizeAssumption, EnvironmentAssumption, AcceptedType
  DEF TypeOK, StageTypeOK, Inputs
<1>a. ASSUME UNCHANGED <<inReq, q, sent, received, got>>
      PROVE  UNCHANGED <<sent, accepted, received, got>>
  BY <1>a DEF accepted
<1>1. CASE ReleaseReset /\ UNCHANGED envVars
  BY <1>1, <1>a DEF ReleaseReset, envVars
<1>2. CASE \E k \in ReqCells : SwitchReqCell(k) /\ UNCHANGED envVars
  BY <1>2, <1>a DEF SwitchReqCell, envVars
<1>3. CASE SwitchController /\ UNCHANGED envVars
  <2>1. /\ ControllerExcited /\ q' = ControllerValue
        /\ UNCHANGED <<inReq, outAck, sent, received, got>>
    BY <1>3 DEF SwitchController, envVars
  <2>2. CASE ~q
    <3>1. /\ q' /\ accepted' = sent[1] /\ accepted = sent[1] - 1
          /\ \A i \in Inputs : inReq[i]
      BY <2>1, <2>2, <1>0, ControlParts, ControllerSwitch DEF accepted
    <3>2. \A i \in Inputs : sent[i] = accepted + 1
      BY <3>1, <2>2 DEF DataInv, TokenCount
    <3>3. \A j \in Outputs : accepted = received[j] + 0
      BY <2>2 DEF DataInv, TokenCount
    <3>4. accepted' = accepted + 1 /\ \A j \in Outputs : received[j] = accepted
      BY <3>1, <3>3, <1>0
    <3>5. Flow!StartTransaction
      BY <3>2, <3>4, <2>1 DEF Flow!StartTransaction, Inputs, Outputs
    <3> QED BY <3>5 DEF Flow!FlowNext
  <2>3. CASE q
    <3>1. \A i \in Inputs : ~inReq[i]
      BY <2>1, <2>3, ControlParts, ControllerSwitch
    <3> QED
      BY <3>1, <2>1, <2>3, <1>0 DEF accepted
  <2> QED BY <2>2, <2>3
<1>4. CASE \E j \in Outputs : PassLatch(j) /\ UNCHANGED envVars
  BY <1>4, <1>a DEF PassLatch, envVars
<1>5. CASE \E j \in Outputs : EndDelay(j) /\ UNCHANGED envVars
  BY <1>5, <1>a DEF EndDelay, envVars
<1>6. CASE \E k \in AckCells : SwitchAckCell(k) /\ UNCHANGED envVars
  BY <1>6, <1>a DEF SwitchAckCell, envVars
<1>7. CASE \E i \in Inputs : Offer(i)
  <2> PICK i \in Inputs : Offer(i) BY <1>7
  <2>1. /\ ~inReq[i] /\ ~q /\ sent[i] < MaxTokens
        /\ sent' = [sent EXCEPT ![i] = sent[i] + 1]
        /\ inReq' = [inReq EXCEPT ![i] = TRUE]
        /\ UNCHANGED <<q, received, got>>
    BY DEF Offer, base_Lack
  <2>2. sent[i] = accepted + 0
    BY <2>1 DEF DataInv, TokenCount
  <2>3. sent[i] = accepted
    BY <2>2, <1>0
  <2>4. accepted' = accepted
    <3>1. CASE i = 1
      <4>1. accepted' = (sent[1] + 1) - 1 /\ accepted = sent[1]
        BY <3>1, <2>1 DEF accepted, TypeOK, StageTypeOK
      <4> QED BY <4>1, <1>0
    <3>2. CASE i # 1
      BY <3>2, <2>1, <1>0 DEF accepted, TypeOK, StageTypeOK
    <3> QED BY <3>1, <3>2
  <2>5. Flow!OfferToken(i)
    BY <2>1, <2>3, <2>4 DEF Flow!OfferToken
  <2> QED BY <2>5 DEF Flow!FlowNext, Inputs
<1>8. CASE \E i \in Inputs : Retract(i)
  <2>1. q /\ UNCHANGED <<q, sent, received, got>>
    BY <1>8 DEF Retract, base_Lack, envVars
  <2> QED BY <2>1 DEF accepted
<1>9. CASE \E i \in Inputs : DropData(i)
  BY <1>9, <1>a DEF DropData, envVars
<1>10. CASE \E j \in Outputs : Take(j)
  <2> PICK j \in Outputs : Take(j) BY <1>10
  <2>1. /\ rreq[j] /\ ~outAck[j]
        /\ received' = [received EXCEPT ![j] = received[j] + 1]
        /\ got' = [got EXCEPT ![j] = latch[j]]
        /\ UNCHANGED <<sent, accepted>>
    BY DEF Take, accepted
  <2>2. q
    BY <2>1, ControlParts DEF OutputPhase
  <2>3. accepted = received[j] + 1
    BY <2>1, <2>2 DEF DataInv, TokenCount
  <2>4. received[j] < accepted
    BY <2>3, <1>0
  <2>5. latch[j] = [i \in 1..N |-> accepted]
    BY <2>1 DEF DataInv, BundledPayload, Inputs
  <2>6. Flow!DeliverResult(j)
    BY <2>1, <2>4, <2>5 DEF Flow!DeliverResult
  <2> QED BY <2>6 DEF Flow!FlowNext, Outputs
<1>11. CASE \E j \in Outputs : Release(j)
  BY <1>11, <1>a DEF Release, envVars
<1>12. CASE UNCHANGED vars
  BY <1>12, <1>a DEF vars, stageVars, envVars
<1> QED
  BY <1>1, <1>2, <1>3, <1>4, <1>5, <1>6, <1>7, <1>8, <1>9, <1>10, <1>11, <1>12
  DEF StepCases

\* For every number of inputs and outputs, joins, controller, latches and
\* delays together do what the wire-free specification says: results in order,
\* made of tokens of one transaction, none lost and none repeated.
THEOREM FlowCorrect == ASSUME HoldsUntilAckLow PROVE Safety => Flow!FlowSafety
  BY HoldsUntilAckLow, InvCorrect, FlowInitial, FlowStep, PTL DEF Safety, Flow!FlowSafety
=============================================================================
