-------------------------- MODULE FourPhaseCells --------------------------
(***************************************************************************)
(* The Boolean relation of the one state-holding gate the four-phase       *)
(* control network is built from.  Wires, buffers and the request and      *)
(* acknowledge fanouts carry no state and disappear into the operators of  *)
(* the modules that use them.                                              *)
(***************************************************************************)

(***************************************************************************)
(* Mutants: an AND gate bound where the library has a C-element, and a     *)
(* cell whose reset pin is left open.                                      *)
(***************************************************************************)
CElementAsAnd(reset_n, a, b, q)     == reset_n /\ a /\ b
CElementNoReset(reset_n, a, b, q)   == (a /\ b) \/ (q /\ (a \/ b))

(***************************************************************************)
(* The value a resettable Muller C-element settles to: reset dominates,    *)
(* agreeing inputs are copied and disagreeing inputs hold the output.      *)
(***************************************************************************)
CElement(reset_n, a, b, q) ==
    /\ reset_n
    /\ \/ a /\ b
       \/ q /\ (a \/ b)
=============================================================================
