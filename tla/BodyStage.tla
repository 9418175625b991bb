----------------------------- MODULE BodyStage -----------------------------
(***************************************************************************)
(* The ordinary BODY stage that every generated module contains: N input   *)
(* requests joined by a serial C-element reduction, one half-buffer        *)
(* controller, a latch bank and a matched delay per output, and the M      *)
(* output acknowledgements joined by a second reduction.  The module has   *)
(* no environment: inReq, inData and outAck are moved by the modules that  *)
(* extend it, either external channels or EN_RECV / EN_SEND stages.        *)
(***************************************************************************)
EXTENDS Integers, FourPhaseCells

CONSTANTS N,        \* number of input Channels of the transaction
          M         \* number of output Channels of the transaction

ASSUME SizeAssumption == N \in Nat \ {0} /\ M \in Nat \ {0}

Inputs   == 1..N
Outputs  == 1..M
ReqCells == 1..(N - 1)   \* C-elements of the request join, none when N = 1
AckCells == 1..(M - 1)   \* C-elements of the acknowledge join, none when M = 1

(***************************************************************************)
(* A payload is the number of the token that carries it, from 1 on.  Dummy *)
(* is the zero word a disabled EN_RECV stores; NoToken stands for whatever *)
(* is on a data wire or in a latch that nothing has defined.               *)
(***************************************************************************)
Payload == Int
Dummy   == 0
NoToken == -1

VARIABLES
    reset_n,  \* active-low reset of the control state
    inReq,    \* body-side request of each input
    inData,   \* payload on each input
    reqRed,   \* outputs of the request-join cells
    q,        \* state of the half-buffer controller
    latch,    \* content of each output latch bank
    rreq,     \* each output request after its matched delay
    outAck,   \* body-side acknowledge of each output
    ackRed    \* outputs of the acknowledge-join cells

stageVars == <<reset_n, inReq, inData, reqRed, q, latch, rreq, outAck, ackRed>>

(***************************************************************************)
(* Wires.  A join of one channel is the direct connection M6 selects.      *)
(* Mutants: a reduction tapped one cell too early, a join bypassed as if   *)
(* the transaction had one output, a latch enabled by the request.         *)
(***************************************************************************)
base_LreqTooEarly == IF N = 1 THEN inReq[1] ELSE reqRed[1]
base_RackBypassed == outAck[1]

base_Lreq == IF N = 1 THEN inReq[1] ELSE reqRed[N - 1]
base_Rack == IF M = 1 THEN outAck[1] ELSE ackRed[M - 1]
base_Lack == q

storage_enableFromRequest == base_Lreq
storage_enable == q

(***************************************************************************)
(* The value each cell of the control network drives from its inputs.      *)
(* Mutants: a controller that ignores its acknowledge, and one that is     *)
(* cleared by its acknowledge alone.                                       *)
(***************************************************************************)
ReqCellValue(k) ==
    CElement(reset_n, IF k = 1 THEN inReq[1] ELSE reqRed[k - 1],
             inReq[k + 1], reqRed[k])

AckCellValue(k) ==
    CElement(reset_n, IF k = 1 THEN outAck[1] ELSE ackRed[k - 1],
             outAck[k + 1], ackRed[k])

ControllerIgnoresAck   == reset_n /\ base_Lreq
ControllerClearedByAck == CElementAsAnd(reset_n, base_Lreq, ~base_Rack, q)

ControllerValue == CElement(reset_n, base_Lreq, ~base_Rack, q)

(***************************************************************************)
(* The data value every output latch sees while transparent.  An output    *)
(* expression may read any received Variable, so the abstraction hands     *)
(* over the whole vector of input payloads.  Mutant: the last one unbound. *)
(***************************************************************************)
BodyDataWithoutLast == [i \in 1..(N - 1) |-> inData[i]]

BodyData == inData

(***************************************************************************)
(* The matched-delay requirement: a delayed request may rise only once the *)
(* payload of its output has settled through the latch bank.  Mutant: a    *)
(* delay shorter than its datapath.                                        *)
(***************************************************************************)
PayloadUnmatched(j) == TRUE

PayloadSettled(j) == storage_enable => latch[j] = BodyData

(***************************************************************************)
(* Cells that are about to switch.                                         *)
(***************************************************************************)
ReqCellExcited(k)   == ReqCellValue(k) # reqRed[k]
AckCellExcited(k)   == AckCellValue(k) # ackRed[k]
ControllerExcited   == ControllerValue # q
LatchExcited(j)     == storage_enable /\ latch[j] # BodyData
DelayPending(j)     == rreq[j] # q

StageInit ==
    /\ reset_n = FALSE
    /\ inReq   = [i \in Inputs |-> FALSE]
    /\ inData  = [i \in Inputs |-> NoToken]
    /\ reqRed  = [k \in ReqCells |-> FALSE]
    /\ q       = FALSE
    /\ latch   = [j \in Outputs |-> [i \in Inputs |-> NoToken]]
    /\ rreq    = [j \in Outputs |-> FALSE]
    /\ outAck  = [j \in Outputs |-> FALSE]
    /\ ackRed  = [k \in AckCells |-> FALSE]

(***************************************************************************)
(* One action per switching cell.                                          *)
(***************************************************************************)
\* Reset is held, as the test benches hold it, until the joins are clear.
ReleaseReset ==
    /\ ~reset_n
    /\ \A k \in ReqCells : ~reqRed[k]
    /\ \A k \in AckCells : ~ackRed[k]
    /\ reset_n' = TRUE
    /\ UNCHANGED <<inReq, inData, reqRed, q, latch, rreq, outAck, ackRed>>

SwitchReqCell(k) ==
    /\ ReqCellExcited(k)
    /\ reqRed' = [reqRed EXCEPT ![k] = ReqCellValue(k)]
    /\ UNCHANGED <<reset_n, inReq, inData, q, latch, rreq, outAck, ackRed>>

SwitchController ==
    /\ ControllerExcited
    /\ q' = ControllerValue
    /\ UNCHANGED <<reset_n, inReq, inData, reqRed, latch, rreq, outAck, ackRed>>

PassLatch(j) ==
    /\ LatchExcited(j)
    /\ latch' = [latch EXCEPT ![j] = BodyData]
    /\ UNCHANGED <<reset_n, inReq, inData, reqRed, q, rreq, outAck, ackRed>>

EndDelay(j) ==
    /\ DelayPending(j)
    /\ PayloadSettled(j)
    /\ rreq' = [rreq EXCEPT ![j] = q]
    /\ UNCHANGED <<reset_n, inReq, inData, reqRed, q, latch, outAck, ackRed>>

SwitchAckCell(k) ==
    /\ AckCellExcited(k)
    /\ ackRed' = [ackRed EXCEPT ![k] = AckCellValue(k)]
    /\ UNCHANGED <<reset_n, inReq, inData, reqRed, q, latch, rreq, outAck>>

StageTypeOK ==
    /\ reset_n \in BOOLEAN
    /\ inReq  \in [Inputs -> BOOLEAN]
    /\ inData \in [Inputs -> Payload]
    /\ reqRed \in [ReqCells -> BOOLEAN]
    /\ q \in BOOLEAN
    /\ latch  \in [Outputs -> [Inputs -> Payload]]
    /\ rreq   \in [Outputs -> BOOLEAN]
    /\ outAck \in [Outputs -> BOOLEAN]
    /\ ackRed \in [AckCells -> BOOLEAN]

-----------------------------------------------------------------------------
(***************************************************************************)
(* What holds of the stage in any surroundings whose requests rise while q *)
(* is low and fall while it is high, and whose acknowledges follow the     *)
(* requests.  A serial reduction of C-elements behaves like one N-input    *)
(* C-element only because of that: a cell that has already followed tells  *)
(* that everything before it in the chain has followed too.                *)
(***************************************************************************)
ResetPhase ==
    ~reset_n => /\ ~q
                /\ \A k \in AckCells : ~ackRed[k]
                /\ \A j \in Outputs : ~rreq[j] /\ ~outAck[j]

RequestPhase ==
    \A k \in ReqCells :
        /\ ~q /\ reqRed[k] => /\ \A i \in 1..(k + 1) : inReq[i]
                              /\ \A m \in 1..k : reqRed[m]
        /\ q /\ ~reqRed[k] => /\ \A i \in 1..(k + 1) : ~inReq[i]
                              /\ \A m \in 1..k : ~reqRed[m]

AckPhase ==
    \A k \in AckCells :
        /\ q /\ ackRed[k] => /\ \A j \in 1..(k + 1) : outAck[j]
                             /\ \A m \in 1..k : ackRed[m]
        /\ ~q /\ ~ackRed[k] => /\ \A j \in 1..(k + 1) : ~outAck[j]
                               /\ \A m \in 1..k : ~ackRed[m]

OutputPhase ==
    \A j \in Outputs : /\ q /\ outAck[j] => rreq[j]
                       /\ ~q /\ ~outAck[j] => ~rreq[j]

StageInv == ResetPhase /\ (reset_n => RequestPhase) /\ AckPhase /\ OutputPhase

(***************************************************************************)
(* The controller starts a transaction only when every input requests and  *)
(* every output is idle, and ends it only when every request is withdrawn  *)
(* and every output has acknowledged, whatever the serial reductions       *)
(* remember.                                                               *)
(***************************************************************************)
JoinedHandshakeStep ==
    /\ ~q /\ q' => /\ \A i \in Inputs : inReq[i]
                   /\ \A j \in Outputs : ~rreq[j] /\ ~outAck[j]
    /\ q /\ ~q' => /\ \A i \in Inputs : ~inReq[i]
                   /\ \A j \in Outputs : rreq[j] /\ outAck[j]
=============================================================================
