------------------------ MODULE MullerCElementProofs ------------------------
(***************************************************************************)
(* TLAPS proofs about the gates of muller_c_element2.                      *)
(***************************************************************************)
EXTENDS MullerCElement, TLAPS

\* Every step keeps the types.
LEMMA CellTypeStep == TypeOK /\ [Next]_vars => TypeOK'
<1> SUFFICES ASSUME TypeOK, [Next]_vars PROVE TypeOK'
  OBVIOUS
<1> USE DEF TypeOK, pins, gates
<1>1. CASE GateStep
  BY <1>1 DEF GateStep, SwitchSetLatchN, SwitchAnyHigh, SwitchResetLatchN, SwitchQ,
              SwitchQBar, make_set_latch_n, detect_any_high, make_reset_latch_n,
              sr_set, sr_reset
<1>2. CASE ChangeA \/ ChangeB \/ ReleaseReset \/ AssertReset
  BY <1>2 DEF ChangeA, ChangeB, ReleaseReset, AssertReset
<1>3. CASE UNCHANGED vars
  BY <1>3 DEF vars
<1> QED
  BY <1>1, <1>2, <1>3 DEF Next

(***************************************************************************)
(* While reset is released the latch stays in its four phases, provided    *)
(* the partners wait for it.                                               *)
(***************************************************************************)
LEMMA PhaseStep ==
  ASSUME PartnersWait
  PROVE  TypeOK /\ LatchPhases /\ [Next]_vars => LatchPhases'
<1> SUFFICES ASSUME TypeOK, LatchPhases, [Next]_vars, reset_n'
             PROVE  (RestLow \/ RestHigh \/ Rising \/ Falling)'
  BY DEF LatchPhases
<1> USE DEF TypeOK, RestLow, RestHigh, Rising, Falling, pins, gates
<1>1. CASE SwitchSetLatchN
  BY <1>1 DEF SwitchSetLatchN, make_set_latch_n, LatchPhases
<1>2. CASE SwitchAnyHigh
  BY <1>2 DEF SwitchAnyHigh, detect_any_high, LatchPhases
<1>3. CASE SwitchResetLatchN
  BY <1>3 DEF SwitchResetLatchN, make_reset_latch_n, LatchPhases
<1>4. CASE SwitchQ
  BY <1>4 DEF SwitchQ, sr_set, LatchPhases
<1>5. CASE SwitchQBar
  BY <1>5 DEF SwitchQBar, sr_reset, LatchPhases
<1>6. CASE ChangeA
  BY <1>6 DEF ChangeA, InputMayChange, LatchSettled, LatchPhases
<1>7. CASE ChangeB
  BY <1>7 DEF ChangeB, InputMayChange, LatchSettled, LatchPhases
<1>8. CASE ReleaseReset
  BY <1>8 DEF ReleaseReset, Settled, make_set_latch_n, detect_any_high,
              make_reset_latch_n, sr_set, sr_reset
<1>9. CASE AssertReset
  BY <1>9 DEF AssertReset
<1>10. CASE UNCHANGED vars
  BY <1>10 DEF vars, LatchPhases
<1> QED
  BY <1>1, <1>2, <1>3, <1>4, <1>5, <1>6, <1>7, <1>8, <1>9, <1>10 DEF Next, GateStep

\* From every power-up state, the cross-coupled latch never leaves its legal
\* phases once reset has been released.
THEOREM CellInvCorrect == ASSUME PartnersWait PROVE Safety => []CellInv
<1>1. Init => CellInv
  BY DEF Init, CellInv, TypeOK, LatchPhases
<1>2. CellInv /\ [Next]_vars => CellInv'
  BY CellTypeStep, PhaseStep DEF CellInv
<1> QED
  BY <1>1, <1>2, PTL DEF Safety

\* A step of the gates is a step of the one-step cell or none.
LEMMA FollowsCElementHolds ==
  CellInv /\ [Next]_vars => [FollowsCElementStep]_vars
<1> SUFFICES ASSUME CellInv, Next, reset_n, q' # q
             PROVE  q' = CElement(reset_n, a, b, q) /\ UNCHANGED pins
  BY DEF FollowsCElementStep
<1>1. SwitchQ
  BY DEF Next, GateStep, SwitchSetLatchN, SwitchAnyHigh, SwitchResetLatchN, SwitchQBar,
         ChangeA, ChangeB, ReleaseReset, AssertReset, gates
<1>2. UNCHANGED pins /\ q' = sr_set
  BY <1>1 DEF SwitchQ
<1>3. RestLow \/ RestHigh \/ Rising \/ Falling
  BY DEF CellInv, LatchPhases
<1> QED
  BY <1>2, <1>3 DEF sr_set, CElement, CellInv, TypeOK, RestLow, RestHigh, Rising, Falling

\* The NAND latch implements the one-step C-element every other module uses:
\* its output never glitches, whatever the delays of its five gates.
THEOREM FollowsCElementCorrect ==
  ASSUME PartnersWait PROVE Safety => FollowsCElement
  BY CellInvCorrect, FollowsCElementHolds, PTL DEF Safety, FollowsCElement
=============================================================================
