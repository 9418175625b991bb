---------------------- MODULE MCConditionalTransaction ----------------------
(***************************************************************************)
(* The guard shapes ConditionalTransaction is checked with.                *)
(***************************************************************************)
EXTENDS ConditionalInvariants

\* Receive; if (sel) ...
AlwaysAndSel == <<"always", "sel">>
\* if (sel) ... else ...
SelOrNot == <<"sel", "not_sel">>
\* A single port.
OnlyAlways == <<"always">>
OnlySel == <<"sel">>
=============================================================================
