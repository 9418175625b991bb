--------------------------- MODULE BodyStageProofs ---------------------------
(***************************************************************************)
(* TLAPS lemmas about BodyStage for every number of inputs and outputs,    *)
(* whatever moves its requests and acknowledges: what the output of a      *)
(* serial reduction says of the channels it joins, that every switching    *)
(* cell keeps StageInv, and what a request or an acknowledge must respect. *)
(***************************************************************************)
EXTENDS BodyStage, TLAPS

\* The switching cells of the stage.
StageSteps ==
    \/ ReleaseReset
    \/ \E k \in ReqCells : SwitchReqCell(k)
    \/ SwitchController
    \/ \E j \in Outputs : PassLatch(j)
    \/ \E j \in Outputs : EndDelay(j)
    \/ \E k \in AckCells : SwitchAckCell(k)

\* The wires StageInv is about.
controlVars == <<reset_n, inReq, reqRed, q, rreq, outAck, ackRed>>

\* The stage's reset values have their types.
LEMMA StageTypeInit == StageInit => StageTypeOK
<1>1. NoToken \in Payload
  BY DEF NoToken, Payload
<1> QED
  BY <1>1 DEF StageInit, StageTypeOK

\* The stage's own steps keep them.
LEMMA StageTypeStep == StageTypeOK /\ StageSteps => StageTypeOK'
<1> SUFFICES ASSUME StageTypeOK, StageSteps PROVE StageTypeOK'
  OBVIOUS
<1> USE DEF StageTypeOK
<1>1. CASE ReleaseReset
  BY <1>1 DEF ReleaseReset
<1>2. CASE \E k \in ReqCells : SwitchReqCell(k)
  <2> PICK k \in ReqCells : SwitchReqCell(k) BY <1>2
  <2>1. ReqCellValue(k) \in BOOLEAN
    BY DEF ReqCellValue, CElement
  <2> QED BY <2>1 DEF SwitchReqCell
<1>3. CASE SwitchController
  <2>1. ControllerValue \in BOOLEAN
    BY DEF ControllerValue, CElement
  <2> QED BY <1>3, <2>1 DEF SwitchController
<1>4. CASE \E j \in Outputs : PassLatch(j)
  BY <1>4 DEF PassLatch, BodyData
<1>5. CASE \E j \in Outputs : EndDelay(j)
  BY <1>5 DEF EndDelay
<1>6. CASE \E k \in AckCells : SwitchAckCell(k)
  <2> PICK k \in AckCells : SwitchAckCell(k) BY <1>6
  <2>1. AckCellValue(k) \in BOOLEAN
    BY DEF AckCellValue, CElement
  <2> QED BY <2>1 DEF SwitchAckCell
<1> QED
  BY <1>1, <1>2, <1>3, <1>4, <1>5, <1>6 DEF StageSteps

-----------------------------------------------------------------------------
(***************************************************************************)
(* What the output of a serial reduction says of everything it joins, in   *)
(* both phases of the handshake: the reason the joins are correct.         *)
(***************************************************************************)
LEMMA JoinedRequests ==
  ASSUME StageTypeOK, StageInv, reset_n
  PROVE  /\ ~q /\ base_Lreq => /\ \A i \in Inputs : inReq[i]
                              /\ \A k \in ReqCells : reqRed[k]
         /\ q /\ ~base_Lreq => /\ \A i \in Inputs : ~inReq[i]
                              /\ \A k \in ReqCells : ~reqRed[k]
<1> USE SizeAssumption DEF Inputs, ReqCells
<1>1. CASE N = 1
  BY <1>1 DEF base_Lreq
<1>2. CASE N # 1
  <2>1. N - 1 \in ReqCells /\ 1..((N - 1) + 1) = Inputs /\ 1..(N - 1) = ReqCells
    BY <1>2
  <2>2. base_Lreq = reqRed[N - 1]
    BY <1>2 DEF base_Lreq
  <2> HIDE DEF Inputs, ReqCells
  <2> QED
    BY <2>1, <2>2 DEF StageInv, RequestPhase
<1> QED
  BY <1>1, <1>2

\* The joined acknowledge speaks for every output, its request and every cell.
LEMMA JoinedAcknowledges ==
  ASSUME StageTypeOK, StageInv
  PROVE  /\ q /\ base_Rack => /\ \A j \in Outputs : outAck[j] /\ rreq[j]
                             /\ \A k \in AckCells : ackRed[k]
         /\ ~q /\ ~base_Rack => /\ \A j \in Outputs : ~outAck[j] /\ ~rreq[j]
                               /\ \A k \in AckCells : ~ackRed[k]
<1>1. /\ q /\ base_Rack => /\ \A j \in Outputs : outAck[j]
                          /\ \A k \in AckCells : ackRed[k]
      /\ ~q /\ ~base_Rack => /\ \A j \in Outputs : ~outAck[j]
                            /\ \A k \in AckCells : ~ackRed[k]
  <2> USE SizeAssumption DEF Outputs, AckCells
  <2>1. CASE M = 1
    BY <2>1 DEF base_Rack
  <2>2. CASE M # 1
    <3>1. M - 1 \in AckCells /\ 1..((M - 1) + 1) = Outputs /\ 1..(M - 1) = AckCells
      BY <2>2
    <3>2. base_Rack = ackRed[M - 1]
      BY <2>2 DEF base_Rack
    <3> HIDE DEF Outputs, AckCells
    <3> QED
      BY <3>1, <3>2 DEF StageInv, AckPhase
  <2> QED
    BY <2>1, <2>2
<1> QED
  BY <1>1 DEF StageInv, OutputPhase

(***************************************************************************)
(* When a cell of the request join switches, everything before it in the   *)
(* chain stands where it now goes.                                         *)
(***************************************************************************)
LEMMA ReqCellSwitch ==
  ASSUME StageTypeOK, StageInv, reset_n, NEW k \in ReqCells, ReqCellExcited(k)
  PROVE  /\ ~q => /\ ReqCellValue(k)
                  /\ \A i \in 1..(k + 1) : inReq[i]
                  /\ \A m \in 1..(k - 1) : reqRed[m]
         /\ q => /\ ~ReqCellValue(k)
                 /\ \A i \in 1..(k + 1) : ~inReq[i]
                 /\ \A m \in 1..(k - 1) : ~reqRed[m]
<1> DEFINE before == IF k = 1 THEN inReq[1] ELSE reqRed[k - 1]
<1>1. ReqCellValue(k) = CElement(reset_n, before, inReq[k + 1], reqRed[k])
  BY DEF ReqCellValue
<1>2. /\ k \in Nat /\ 1 \in 1..(k + 1) /\ k \in 1..k /\ k + 1 \in 1..(k + 1)
      /\ k # 1 => k - 1 \in ReqCells /\ k - 1 \in 1..k /\ (k - 1) + 1 = k
      /\ k = 1 => 1..(k - 1) = {}
      /\ \A i \in 1..(k + 1) : i = k + 1 \/ i \in 1..k
      /\ k + 1 \in Inputs /\ 1 \in Inputs
      /\ k = 1 => 1..k = {1}
  BY SizeAssumption DEF ReqCells, Inputs
<1>3. /\ before \in BOOLEAN /\ inReq[k + 1] \in BOOLEAN /\ reqRed[k] \in BOOLEAN
      /\ reset_n \in BOOLEAN /\ q \in BOOLEAN
  BY <1>2 DEF StageTypeOK
<1>4. ~q /\ reqRed[k] => before /\ inReq[k + 1]
  BY <1>2 DEF StageInv, RequestPhase
<1>5. q /\ ~reqRed[k] => ~before /\ ~inReq[k + 1]
  BY <1>2 DEF StageInv, RequestPhase
<1>6. ~q => ReqCellValue(k) /\ before /\ inReq[k + 1]
  BY <1>1, <1>3, <1>4 DEF ReqCellExcited, CElement
<1>7. q => ~ReqCellValue(k) /\ ~before /\ ~inReq[k + 1]
  BY <1>1, <1>3, <1>5 DEF ReqCellExcited, CElement
<1>8. ~q => (\A i \in 1..k : inReq[i]) /\ (\A m \in 1..(k - 1) : reqRed[m])
  BY <1>6, <1>2 DEF StageInv, RequestPhase
<1>9. q => (\A i \in 1..k : ~inReq[i]) /\ (\A m \in 1..(k - 1) : ~reqRed[m])
  BY <1>7, <1>2 DEF StageInv, RequestPhase
<1> QED
  BY <1>2, <1>6, <1>7, <1>8, <1>9

\* An excited acknowledge cell has its whole prefix behind it.
LEMMA AckCellSwitch ==
  ASSUME StageTypeOK, StageInv, NEW k \in AckCells, AckCellExcited(k)
  PROVE  /\ reset_n
         /\ q => /\ AckCellValue(k)
                 /\ \A j \in 1..(k + 1) : outAck[j]
                 /\ \A m \in 1..(k - 1) : ackRed[m]
         /\ ~q => /\ ~AckCellValue(k)
                  /\ \A j \in 1..(k + 1) : ~outAck[j]
                  /\ \A m \in 1..(k - 1) : ~ackRed[m]
<1> DEFINE before == IF k = 1 THEN outAck[1] ELSE ackRed[k - 1]
<1>1. AckCellValue(k) = CElement(reset_n, before, outAck[k + 1], ackRed[k])
  BY DEF AckCellValue
<1>2. /\ k \in Nat /\ 1 \in 1..(k + 1) /\ k \in 1..k /\ k + 1 \in 1..(k + 1)
      /\ k # 1 => k - 1 \in AckCells /\ k - 1 \in 1..k /\ (k - 1) + 1 = k
      /\ k = 1 => 1..(k - 1) = {}
      /\ \A j \in 1..(k + 1) : j = k + 1 \/ j \in 1..k
      /\ k + 1 \in Outputs /\ 1 \in Outputs
      /\ k = 1 => 1..k = {1}
  BY SizeAssumption DEF AckCells, Outputs
<1>3. /\ before \in BOOLEAN /\ outAck[k + 1] \in BOOLEAN /\ ackRed[k] \in BOOLEAN
      /\ reset_n \in BOOLEAN /\ q \in BOOLEAN
  BY <1>2 DEF StageTypeOK
<1>4. reset_n
  BY <1>1, <1>3 DEF AckCellExcited, CElement, StageInv, ResetPhase
<1>5. q /\ ackRed[k] => before /\ outAck[k + 1]
  BY <1>2 DEF StageInv, AckPhase
<1>6. ~q /\ ~ackRed[k] => ~before /\ ~outAck[k + 1]
  BY <1>2 DEF StageInv, AckPhase
<1>7. q => AckCellValue(k) /\ before /\ outAck[k + 1]
  BY <1>1, <1>3, <1>4, <1>5 DEF AckCellExcited, CElement
<1>8. ~q => ~AckCellValue(k) /\ ~before /\ ~outAck[k + 1]
  BY <1>1, <1>3, <1>4, <1>6 DEF AckCellExcited, CElement
<1>9. q => (\A j \in 1..k : outAck[j]) /\ (\A m \in 1..(k - 1) : ackRed[m])
  BY <1>7, <1>2 DEF StageInv, AckPhase
<1>10. ~q => (\A j \in 1..k : ~outAck[j]) /\ (\A m \in 1..(k - 1) : ~ackRed[m])
  BY <1>8, <1>2 DEF StageInv, AckPhase
<1> QED
  BY <1>2, <1>4, <1>7, <1>8, <1>9, <1>10

(***************************************************************************)
(* When the controller switches, the whole network stands in one phase.    *)
(***************************************************************************)
LEMMA ControllerSwitch ==
  ASSUME StageTypeOK, StageInv, ControllerExcited
  PROVE  /\ reset_n
         /\ ~q => /\ ControllerValue
                  /\ \A i \in Inputs : inReq[i]
                  /\ \A k \in ReqCells : reqRed[k]
                  /\ \A j \in Outputs : ~outAck[j] /\ ~rreq[j]
                  /\ \A k \in AckCells : ~ackRed[k]
         /\ q => /\ ~ControllerValue
                 /\ \A i \in Inputs : ~inReq[i]
                 /\ \A k \in ReqCells : ~reqRed[k]
                 /\ \A j \in Outputs : outAck[j] /\ rreq[j]
                 /\ \A k \in AckCells : ackRed[k]
<1>1. base_Lreq \in BOOLEAN /\ base_Rack \in BOOLEAN
  <2>1. /\ 1 \in Inputs /\ (N # 1 => N - 1 \in ReqCells)
        /\ 1 \in Outputs /\ (M # 1 => M - 1 \in AckCells)
    BY SizeAssumption DEF Inputs, Outputs, ReqCells, AckCells
  <2>2. base_Lreq \in BOOLEAN
    BY <2>1 DEF base_Lreq, StageTypeOK
  <2>3. base_Rack \in BOOLEAN
    BY <2>1 DEF base_Rack, StageTypeOK
  <2> QED BY <2>2, <2>3
<1>2. q \in BOOLEAN /\ reset_n \in BOOLEAN
  BY DEF StageTypeOK
<1>3. reset_n
  BY <1>1, <1>2
  DEF ControllerExcited, ControllerValue, CElement, StageInv, ResetPhase
<1>4. ~q => ControllerValue /\ base_Lreq /\ ~base_Rack
  BY <1>1, <1>2, <1>3 DEF ControllerExcited, ControllerValue, CElement
<1>5. q => ~ControllerValue /\ ~base_Lreq /\ base_Rack
  BY <1>1, <1>2, <1>3 DEF ControllerExcited, ControllerValue, CElement
<1> QED
  BY <1>3, <1>4, <1>5, JoinedRequests, JoinedAcknowledges

\* The stage's control invariant holds after reset.
LEMMA StageControlInit == StageInit => StageInv
<1> SUFFICES ASSUME StageInit PROVE StageInv
  OBVIOUS
<1>1. /\ \A k \in ReqCells : 1..k \subseteq ReqCells
      /\ \A k \in AckCells : 1..k \subseteq AckCells /\ 1..(k + 1) \subseteq Outputs
  BY SizeAssumption DEF ReqCells, AckCells, Outputs
<1>2. /\ ~q /\ ~reset_n
      /\ \A k \in ReqCells : ~reqRed[k]
      /\ \A k \in AckCells : ~ackRed[k]
      /\ \A j \in Outputs : ~rreq[j] /\ ~outAck[j]
  BY DEF StageInit
<1> QED
  BY <1>1, <1>2 DEF StageInv, ResetPhase, AckPhase, OutputPhase

\* Every switching cell keeps the joins and the output handshakes in phase.
LEMMA StageControlStep == StageTypeOK /\ StageInv /\ StageSteps => StageInv'
<1> SUFFICES ASSUME StageTypeOK, StageInv, StageSteps PROVE StageInv'
  OBVIOUS
<1>1. CASE ReleaseReset
  BY <1>1, SizeAssumption
  DEF ReleaseReset, StageInv, ResetPhase, RequestPhase, AckPhase, OutputPhase
<1>2. CASE \E k \in ReqCells : SwitchReqCell(k)
  <2> PICK k \in ReqCells : SwitchReqCell(k) BY <1>2
  <2>1. ReqCellExcited(k) BY DEF SwitchReqCell
  <2>2. UNCHANGED <<reset_n, inReq, q, rreq, outAck, ackRed>> BY DEF SwitchReqCell
  <2>3. ResetPhase' /\ AckPhase' /\ OutputPhase'
    BY <2>2 DEF StageInv, ResetPhase, AckPhase, OutputPhase
  <2>4. /\ reqRed'[k] = ReqCellValue(k)
        /\ \A m \in ReqCells \ {k} : reqRed'[m] = reqRed[m]
    BY DEF SwitchReqCell, StageTypeOK
  <2>5. ASSUME reset_n PROVE RequestPhase'
    <3> SUFFICES ASSUME NEW n \in ReqCells
                 PROVE /\ ~q /\ reqRed'[n] => /\ \A i \in 1..(n + 1) : inReq[i]
                                              /\ \A m \in 1..n : reqRed'[m]
                       /\ q /\ ~reqRed'[n] => /\ \A i \in 1..(n + 1) : ~inReq[i]
                                              /\ \A m \in 1..n : ~reqRed'[m]
      BY <2>2 DEF RequestPhase
    <3>0. 1..n \subseteq ReqCells /\ \A m \in 1..k : m = k \/ m \in 1..(k - 1)
      BY SizeAssumption DEF ReqCells
    <3>1. CASE n = k
      BY <2>5, <3>0, <3>1, <2>1, <2>4, ReqCellSwitch
    <3>2. CASE n # k
      BY <2>5, <3>0, <3>2, <2>1, <2>4, ReqCellSwitch DEF StageInv, RequestPhase
    <3> QED BY <3>1, <3>2
  <2> QED BY <2>2, <2>3, <2>5 DEF StageInv
<1>3. CASE SwitchController
  <2>1. ControllerExcited BY <1>3 DEF SwitchController
  <2>2. UNCHANGED <<reset_n, inReq, reqRed, rreq, outAck, ackRed>> /\ q' = ControllerValue
    BY <1>3 DEF SwitchController
  <2>3. CASE ~q
    BY <2>1, <2>2, <2>3, ControllerSwitch
    DEF StageInv, ResetPhase, RequestPhase, AckPhase, OutputPhase
  <2>4. CASE q
    BY <2>1, <2>2, <2>4, ControllerSwitch
    DEF StageInv, ResetPhase, RequestPhase, AckPhase, OutputPhase
  <2> QED BY <2>3, <2>4
<1>4. CASE \E j \in Outputs : PassLatch(j)
  BY <1>4 DEF PassLatch, StageInv, ResetPhase, RequestPhase, AckPhase, OutputPhase
<1>5. CASE \E j \in Outputs : EndDelay(j)
  BY <1>5 DEF EndDelay, StageTypeOK, StageInv, ResetPhase, RequestPhase, AckPhase, OutputPhase
<1>6. CASE \E k \in AckCells : SwitchAckCell(k)
  <2> PICK k \in AckCells : SwitchAckCell(k) BY <1>6
  <2>1. AckCellExcited(k) BY DEF SwitchAckCell
  <2>2. UNCHANGED <<reset_n, inReq, q, rreq, outAck, reqRed>> BY DEF SwitchAckCell
  <2>3. ResetPhase' /\ (reset_n => RequestPhase)' /\ OutputPhase'
    BY <2>1, <2>2, AckCellSwitch DEF StageInv, ResetPhase, RequestPhase, OutputPhase
  <2>4. /\ ackRed'[k] = AckCellValue(k)
        /\ \A m \in AckCells \ {k} : ackRed'[m] = ackRed[m]
    BY DEF SwitchAckCell, StageTypeOK
  <2>5. AckPhase'
    <3> SUFFICES ASSUME NEW n \in AckCells
                 PROVE /\ q /\ ackRed'[n] => /\ \A j \in 1..(n + 1) : outAck[j]
                                             /\ \A m \in 1..n : ackRed'[m]
                       /\ ~q /\ ~ackRed'[n] => /\ \A j \in 1..(n + 1) : ~outAck[j]
                                               /\ \A m \in 1..n : ~ackRed'[m]
      BY <2>2 DEF AckPhase
    <3>0. 1..n \subseteq AckCells /\ \A m \in 1..k : m = k \/ m \in 1..(k - 1)
      BY SizeAssumption DEF AckCells
    <3>1. CASE n = k
      BY <3>0, <3>1, <2>1, <2>4, AckCellSwitch
    <3>2. CASE n # k
      BY <3>0, <3>2, <2>1, <2>4, AckCellSwitch DEF StageInv, AckPhase
    <3> QED BY <3>1, <3>2
  <2> QED BY <2>3, <2>5 DEF StageInv
<1> QED
  BY <1>1, <1>2, <1>3, <1>4, <1>5, <1>6 DEF StageSteps

-----------------------------------------------------------------------------
(***************************************************************************)
(* What StageInv asks of the surroundings: a request rises only while q is *)
(* low and falls only while it is high, an acknowledge follows its request.*)
(***************************************************************************)
LEMMA StageControlUnchanged ==
  ASSUME StageInv, UNCHANGED controlVars PROVE StageInv'
  BY DEF controlVars, StageInv, ResetPhase, RequestPhase, AckPhase, OutputPhase

\* A sender that raises its request while q is low, or lowers it while q is
\* high, keeps the invariant ...
LEMMA RequestMoves ==
  ASSUME StageTypeOK, StageInv, NEW i \in Inputs,
         inReq' = [inReq EXCEPT ![i] = ~q],
         UNCHANGED <<reset_n, reqRed, q, rreq, outAck, ackRed>>
  PROVE  StageInv'
<1>1. \A k \in ReqCells : 1..(k + 1) \subseteq Inputs
  BY SizeAssumption DEF ReqCells, Inputs
<1>2. \A n \in Inputs : (~q /\ inReq[n] => inReq'[n]) /\ (q /\ ~inReq[n] => ~inReq'[n])
  BY DEF StageTypeOK
<1>3. RequestPhase => RequestPhase'
  BY <1>1, <1>2 DEF RequestPhase
<1> QED
  BY <1>3 DEF StageInv, ResetPhase, AckPhase, OutputPhase

\* ... and so does a receiver that follows its request.
LEMMA AcknowledgeMoves ==
  ASSUME StageTypeOK, StageInv, NEW j \in Outputs, outAck[j] # rreq[j],
         outAck' = [outAck EXCEPT ![j] = rreq[j]],
         UNCHANGED <<reset_n, inReq, reqRed, q, rreq, ackRed>>
  PROVE  StageInv' /\ q = rreq[j]
<1>0. /\ \A k \in AckCells : 1..(k + 1) \subseteq Outputs
      /\ q \in BOOLEAN /\ \A n \in Outputs : outAck[n] \in BOOLEAN /\ rreq[n] \in BOOLEAN
  BY SizeAssumption DEF AckCells, Outputs, StageTypeOK
<1>1. q = rreq[j]
  BY <1>0 DEF StageInv, OutputPhase
<1>2. /\ outAck'[j] = q
      /\ \A n \in Outputs : n # j => outAck'[n] = outAck[n]
  BY <1>1 DEF StageTypeOK
<1>3. AckPhase'
  BY <1>0, <1>2 DEF StageInv, AckPhase
<1>4. ResetPhase' /\ OutputPhase'
  BY <1>0, <1>1, <1>2 DEF StageInv, ResetPhase, OutputPhase
<1>5. (reset_n => RequestPhase)'
  BY DEF StageInv, RequestPhase
<1> QED
  BY <1>1, <1>3, <1>4, <1>5 DEF StageInv

\* The reset of a stage whose acknowledge join has returned to zero.
LEMMA ResetMoves ==
  ASSUME StageTypeOK, StageInv, ~q, ~base_Rack, ~reset_n',
         UNCHANGED <<inReq, reqRed, q, rreq, outAck, ackRed>>
  PROVE  StageInv'
<1>1. /\ \A j \in Outputs : ~outAck[j] /\ ~rreq[j]
      /\ \A k \in AckCells : ~ackRed[k]
  BY JoinedAcknowledges
<1> QED
  BY <1>1 DEF StageInv, ResetPhase, AckPhase, OutputPhase

-----------------------------------------------------------------------------
(***************************************************************************)
(* The joined handshake, for whoever moves the rest.                       *)
(***************************************************************************)
LEMMA ControllerJoins ==
  ASSUME StageTypeOK, StageInv, SwitchController
  PROVE  JoinedHandshakeStep
  BY ControllerSwitch DEF SwitchController, JoinedHandshakeStep
=============================================================================
