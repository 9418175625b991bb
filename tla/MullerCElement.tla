--------------------------- MODULE MullerCElement ---------------------------
(***************************************************************************)
(* The gates of muller_c_element2: a cross-coupled NAND latch and the      *)
(* three gates that set and reset it.  Every gate switches on its own.     *)
(* The module justifies the one-step CElement of FourPhaseCells.           *)
(***************************************************************************)
EXTENDS FourPhaseCells

CONSTANT PartnersWait  \* TRUE: an input answers q only once the latch has
                       \* settled.  FALSE: as soon as q itself has switched.

ASSUME PartnersAssumption == PartnersWait \in BOOLEAN

VARIABLES reset_n, a, b, set_latch_n, any_high, reset_latch_n, q, q_bar

pins  == <<reset_n, a, b>>
gates == <<set_latch_n, any_high, reset_latch_n, q, q_bar>>
vars  == <<pins, gates>>

(***************************************************************************)
(* What each gate drives.  Mutants: an AND where the OR is, a reset that   *)
(* does not reach the reset side, a set gate that looks at one input.      *)
(***************************************************************************)
AnyHighAsAnd   == a /\ b
ResetSideOpen  == any_high
SetByFirstOnly == ~(reset_n /\ a)
ResetSideStuck == TRUE

make_set_latch_n   == ~(reset_n /\ a /\ b)
detect_any_high    == a \/ b
make_reset_latch_n == reset_n /\ any_high
sr_set             == ~(set_latch_n /\ q_bar)
sr_reset           == ~(reset_latch_n /\ q)

LatchSettled == q_bar = ~q

Settled ==
    /\ set_latch_n = make_set_latch_n
    /\ any_high = detect_any_high
    /\ reset_latch_n = make_reset_latch_n
    /\ q = sr_set
    /\ q_bar = sr_reset

\* Power-up: reset is asserted and every wire holds anything.
Init ==
    /\ reset_n = FALSE
    /\ a \in BOOLEAN /\ b \in BOOLEAN
    /\ set_latch_n \in BOOLEAN /\ any_high \in BOOLEAN /\ reset_latch_n \in BOOLEAN
    /\ q \in BOOLEAN /\ q_bar \in BOOLEAN

SwitchSetLatchN ==
    /\ set_latch_n # make_set_latch_n
    /\ set_latch_n' = make_set_latch_n
    /\ UNCHANGED <<pins, any_high, reset_latch_n, q, q_bar>>

SwitchAnyHigh ==
    /\ any_high # detect_any_high
    /\ any_high' = detect_any_high
    /\ UNCHANGED <<pins, set_latch_n, reset_latch_n, q, q_bar>>

SwitchResetLatchN ==
    /\ reset_latch_n # make_reset_latch_n
    /\ reset_latch_n' = make_reset_latch_n
    /\ UNCHANGED <<pins, set_latch_n, any_high, q, q_bar>>

SwitchQ ==
    /\ q # sr_set
    /\ q' = sr_set
    /\ UNCHANGED <<pins, set_latch_n, any_high, reset_latch_n, q_bar>>

SwitchQBar ==
    /\ q_bar # sr_reset
    /\ q_bar' = sr_reset
    /\ UNCHANGED <<pins, set_latch_n, any_high, reset_latch_n, q>>

GateStep ==
    SwitchSetLatchN \/ SwitchAnyHigh \/ SwitchResetLatchN \/ SwitchQ \/ SwitchQBar

(***************************************************************************)
(* The network around the cell.  Four-phase monotonicity: an input that    *)
(* has changed keeps its value until q has followed.  Reset is held until  *)
(* the cell has settled and may return at any time.                        *)
(***************************************************************************)
InputMayChange(x) == x = q /\ (PartnersWait => LatchSettled)

ChangeA ==
    /\ InputMayChange(a)
    /\ a' = ~a
    /\ UNCHANGED <<reset_n, b, gates>>

ChangeB ==
    /\ InputMayChange(b)
    /\ b' = ~b
    /\ UNCHANGED <<reset_n, a, gates>>

ReleaseReset ==
    /\ ~reset_n /\ Settled
    /\ reset_n' = TRUE
    /\ UNCHANGED <<a, b, gates>>

AssertReset ==
    /\ reset_n
    /\ reset_n' = FALSE
    /\ UNCHANGED <<a, b, gates>>

Next == GateStep \/ ChangeA \/ ChangeB \/ ReleaseReset \/ AssertReset

Safety == Init /\ [][Next]_vars

\* A gate whose inputs call for a change eventually switches.
Spec ==
    /\ Safety
    /\ WF_vars(SwitchSetLatchN) /\ WF_vars(SwitchAnyHigh) /\ WF_vars(SwitchResetLatchN)
    /\ WF_vars(SwitchQ) /\ WF_vars(SwitchQBar)

-----------------------------------------------------------------------------
\* Every wire is Boolean.
TypeOK ==
    /\ reset_n \in BOOLEAN /\ a \in BOOLEAN /\ b \in BOOLEAN
    /\ set_latch_n \in BOOLEAN /\ any_high \in BOOLEAN /\ reset_latch_n \in BOOLEAN
    /\ q \in BOOLEAN /\ q_bar \in BOOLEAN

\* Out of reset, the output of the gates changes exactly as the one-step
\* C-element would, with no glitch for any order of gates and inputs, and
\* never while an input changes.
FollowsCElementStep ==
    reset_n /\ q' # q => q' = CElement(reset_n, a, b, q) /\ UNCHANGED pins
FollowsCElement == [][FollowsCElementStep]_vars

\* Reset clears the cell from any power-up state and in any later one, and
\* agreeing inputs eventually reach the output.
ResetClears == ~reset_n ~> (reset_n \/ ~q)
CopiesInputs ==
    /\ (reset_n /\ a /\ b) ~> (~reset_n \/ q)
    /\ (reset_n /\ ~a /\ ~b) ~> (~reset_n \/ ~q)

(***************************************************************************)
(* The inductive invariant: out of reset the latch is at rest low, at rest *)
(* high, or has both outputs high on its way between the two, and each of  *)
(* the set and reset gates can only be late in the way the inputs explain. *)
(***************************************************************************)
RestLow ==
    /\ ~q /\ q_bar
    /\ ~set_latch_n => a /\ b
    /\ reset_latch_n => any_high
    /\ any_high => a \/ b

RestHigh ==
    /\ q /\ ~q_bar
    /\ set_latch_n => ~a \/ ~b
    /\ ~reset_latch_n => ~any_high
    /\ ~any_high => ~a /\ ~b

Rising  == q /\ q_bar /\ a /\ b /\ ~set_latch_n /\ (reset_latch_n => any_high)
Falling == q /\ q_bar /\ ~a /\ ~b /\ ~any_high /\ ~reset_latch_n

\* Out of reset the cross-coupled latch is in one of its four legal phases;
\* in particular its two outputs are never both low.
LatchPhases == reset_n => RestLow \/ RestHigh \/ Rising \/ Falling
CellInv == TypeOK /\ LatchPhases
=============================================================================
