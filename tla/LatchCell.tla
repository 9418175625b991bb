----------------------------- MODULE LatchCell -----------------------------
(***************************************************************************)
(* The gates of latch_cell, one bit of every latch bank: a cross-coupled   *)
(* NAND latch, its two gating NANDs and the inverter of its data.  Every   *)
(* gate switches on its own.  The module justifies the one-step PassLatch  *)
(* of BodyStage and the hold of a closed bank.                             *)
(***************************************************************************)
VARIABLES
    data_in, enable, data_in_n, set_latch_n, reset_latch_n, data_out, data_out_n,
    closed,     \* TRUE from a fall of enable until its next rise
    captured    \* the data when enable last fell

pins  == <<data_in, enable, closed, captured>>
gates == <<data_in_n, set_latch_n, reset_latch_n, data_out, data_out_n>>
vars  == <<pins, gates>>

(***************************************************************************)
(* What each gate drives.  Mutants: a data gate that enable does not       *)
(* close, swapped data rails, a latch with one feedback wire open.         *)
(***************************************************************************)
GateHighUngated == ~data_in
GateLowSwapped  == ~(data_in /\ enable)
SetFeedbackOpen == ~set_latch_n

invert_data    == ~data_in
gate_data_high == ~(data_in /\ enable)
gate_data_low  == ~(data_in_n /\ enable)
sr_set         == ~(set_latch_n /\ data_out_n)
sr_reset       == ~(reset_latch_n /\ data_out)

Settled ==
    /\ data_in_n = invert_data
    /\ set_latch_n = gate_data_high
    /\ reset_latch_n = gate_data_low
    /\ data_out = sr_set
    /\ data_out_n = sr_reset

\* Power-up: the datapath has no reset, so every wire may hold anything.
Init ==
    /\ enable = FALSE /\ closed = FALSE /\ captured = FALSE
    /\ data_in \in BOOLEAN
    /\ data_in_n \in BOOLEAN /\ set_latch_n \in BOOLEAN /\ reset_latch_n \in BOOLEAN
    /\ data_out \in BOOLEAN /\ data_out_n \in BOOLEAN

SwitchDataN ==
    /\ data_in_n # invert_data
    /\ data_in_n' = invert_data
    /\ UNCHANGED <<pins, set_latch_n, reset_latch_n, data_out, data_out_n>>

SwitchSetN ==
    /\ set_latch_n # gate_data_high
    /\ set_latch_n' = gate_data_high
    /\ UNCHANGED <<pins, data_in_n, reset_latch_n, data_out, data_out_n>>

SwitchResetN ==
    /\ reset_latch_n # gate_data_low
    /\ reset_latch_n' = gate_data_low
    /\ UNCHANGED <<pins, data_in_n, set_latch_n, data_out, data_out_n>>

SwitchOut ==
    /\ data_out # sr_set
    /\ data_out' = sr_set
    /\ UNCHANGED <<pins, data_in_n, set_latch_n, reset_latch_n, data_out_n>>

SwitchOutN ==
    /\ data_out_n # sr_reset
    /\ data_out_n' = sr_reset
    /\ UNCHANGED <<pins, data_in_n, set_latch_n, reset_latch_n, data_out>>

GateStep == SwitchDataN \/ SwitchSetN \/ SwitchResetN \/ SwitchOut \/ SwitchOutN

(***************************************************************************)
(* The stage around the cell.  Data moves freely while the bank is open    *)
(* and as soon as it is closed; enable falls only once the cell has        *)
(* settled, the bundled-data margin between the payload and the controller.*)
(***************************************************************************)
ChangeData ==
    /\ data_in' = ~data_in
    /\ UNCHANGED <<enable, closed, captured, gates>>

Open ==
    /\ ~enable
    /\ enable' = TRUE /\ closed' = FALSE
    /\ UNCHANGED <<data_in, captured, gates>>

Close ==
    /\ enable /\ Settled
    /\ enable' = FALSE /\ closed' = TRUE /\ captured' = data_in
    /\ UNCHANGED <<data_in, gates>>

Next == GateStep \/ ChangeData \/ Open \/ Close

Safety == Init /\ [][Next]_vars

\* A gate whose inputs call for a change eventually switches.
Spec ==
    /\ Safety
    /\ WF_vars(SwitchDataN) /\ WF_vars(SwitchSetN) /\ WF_vars(SwitchResetN)
    /\ WF_vars(SwitchOut) /\ WF_vars(SwitchOutN)

-----------------------------------------------------------------------------
\* Every wire is Boolean.
TypeOK ==
    /\ data_in \in BOOLEAN /\ enable \in BOOLEAN
    /\ closed \in BOOLEAN /\ captured \in BOOLEAN
    /\ data_in_n \in BOOLEAN /\ set_latch_n \in BOOLEAN /\ reset_latch_n \in BOOLEAN
    /\ data_out \in BOOLEAN /\ data_out_n \in BOOLEAN

\* A closed cell shows the captured data without a glitch, however its gates
\* race back to rest and however the data moves: the latch keeps both rails,
\* and a set or reset gate that is still open only repeats what it captured.
HeldPhase ==
    closed => /\ ~enable
              /\ data_out = captured /\ data_out_n = ~captured
              /\ set_latch_n \/ captured
              /\ reset_latch_n \/ ~captured

\* The inductive invariant: types and the state of a closed cell.
CellInv == TypeOK /\ HeldPhase

\* An open cell whose data rests eventually shows it, from every power-up
\* state and after every earlier capture.
Transparent ==
    /\ [](<>[](enable /\ data_in) => <>[]data_out)
    /\ [](<>[](enable /\ ~data_in) => <>[]~data_out)

\* While the cell is closed its output does not move at all.
ClosedOutputStill == [][closed => UNCHANGED data_out]_vars
=============================================================================
