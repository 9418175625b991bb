-------------------------- MODULE LatchCellProofs --------------------------
(***************************************************************************)
(* TLAPS proofs about the gates of latch_cell.                             *)
(***************************************************************************)
EXTENDS LatchCell, TLAPS

\* Every step keeps the phases of the latch.
LEMMA CellInvStep == CellInv /\ [Next]_vars => CellInv'
<1> SUFFICES ASSUME TypeOK, HeldPhase, [Next]_vars PROVE TypeOK' /\ HeldPhase'
  BY DEF CellInv
<1> USE DEF TypeOK, HeldPhase, pins, gates
<1>1. CASE SwitchDataN
  BY <1>1 DEF SwitchDataN, invert_data
<1>2. CASE SwitchSetN
  BY <1>2 DEF SwitchSetN, gate_data_high
<1>3. CASE SwitchResetN
  BY <1>3 DEF SwitchResetN, gate_data_low
<1>4. CASE SwitchOut
  BY <1>4 DEF SwitchOut, sr_set
<1>5. CASE SwitchOutN
  BY <1>5 DEF SwitchOutN, sr_reset
<1>6. CASE ChangeData
  BY <1>6 DEF ChangeData
<1>7. CASE Open
  BY <1>7 DEF Open
<1>8. CASE Close
  <2>1. /\ set_latch_n = ~data_in /\ reset_latch_n = data_in
        /\ data_out = ~(set_latch_n /\ data_out_n)
        /\ data_out_n = ~(reset_latch_n /\ data_out)
    BY <1>8 DEF Close, Settled, invert_data, gate_data_high, gate_data_low, sr_set, sr_reset
  <2>2. data_out = data_in /\ data_out_n = ~data_in
    BY <2>1
  <2> QED BY <1>8, <2>1, <2>2 DEF Close
<1>9. CASE UNCHANGED vars
  BY <1>9 DEF vars
<1> QED
  BY <1>1, <1>2, <1>3, <1>4, <1>5, <1>6, <1>7, <1>8, <1>9 DEF Next, GateStep

\* A latch cell keeps what it captured from any power-up state: reset of the
\* payload datapath is indeed not needed.
THEOREM CellInvCorrect == Safety => []CellInv
<1>1. Init => CellInv
  BY DEF Init, CellInv, TypeOK, HeldPhase
<1> QED
  BY <1>1, CellInvStep, PTL DEF Safety

\* A step of a closed latch leaves its output alone.
LEMMA ClosedOutputHolds ==
  CellInv /\ [Next]_vars => [closed => UNCHANGED data_out]_vars
<1> SUFFICES ASSUME CellInv, Next, closed PROVE UNCHANGED data_out
  OBVIOUS
<1>1. CASE SwitchOut
  BY <1>1 DEF SwitchOut, sr_set, CellInv, TypeOK, HeldPhase
<1>2. CASE ~SwitchOut
  BY <1>2 DEF Next, GateStep, SwitchDataN, SwitchSetN, SwitchResetN, SwitchOutN,
              ChangeData, Open, Close, gates
<1> QED
  BY <1>1, <1>2

\* The output of a closed cell is glitch-free for all delays of its gates.
THEOREM ClosedOutputStillCorrect == Safety => ClosedOutputStill
  BY CellInvCorrect, ClosedOutputHolds, PTL DEF Safety, ClosedOutputStill
=============================================================================
