-------------------------- MODULE TransactionFlow --------------------------
(***************************************************************************)
(* What one four-phase transaction stage promises, without wires: it takes *)
(* exactly one token from every input, computes, and gives the result to   *)
(* every output before it takes the next token from any input.  A stage    *)
(* buffers one transaction; an input may already offer the next token.     *)
(***************************************************************************)
EXTENDS Naturals

CONSTANTS N, M,        \* number of inputs and of outputs
          MaxTokens,   \* tokens each input sends
          NoToken      \* what an output has taken before its first result

VARIABLES offered,     \* tokens each input has offered
          accepted,    \* transactions the stage has started
          delivered,   \* results each output has taken
          got          \* the tokens the last result of each output was made of

flowVars == <<offered, accepted, delivered, got>>

FlowInit ==
    /\ offered   = [i \in 1..N |-> 0]
    /\ accepted  = 0
    /\ delivered = [j \in 1..M |-> 0]
    /\ got       = [j \in 1..M |-> [i \in 1..N |-> NoToken]]

OfferToken(i) ==
    /\ offered[i] = accepted
    /\ offered[i] < MaxTokens
    /\ offered' = [offered EXCEPT ![i] = @ + 1]
    /\ UNCHANGED <<accepted, delivered, got>>

StartTransaction ==
    /\ \A i \in 1..N : offered[i] = accepted + 1
    /\ \A j \in 1..M : delivered[j] = accepted
    /\ accepted' = accepted + 1
    /\ UNCHANGED <<offered, delivered, got>>

DeliverResult(j) ==
    /\ delivered[j] < accepted
    /\ delivered' = [delivered EXCEPT ![j] = @ + 1]
    /\ got' = [got EXCEPT ![j] = [i \in 1..N |-> accepted]]
    /\ UNCHANGED <<offered, accepted>>

FlowNext ==
    \/ \E i \in 1..N : OfferToken(i)
    \/ StartTransaction
    \/ \E j \in 1..M : DeliverResult(j)

FlowSafety == FlowInit /\ [][FlowNext]_flowVars

FlowSpec ==
    /\ FlowSafety
    /\ \A i \in 1..N : WF_flowVars(OfferToken(i))
    /\ WF_flowVars(StartTransaction)
    /\ \A j \in 1..M : WF_flowVars(DeliverResult(j))
=============================================================================
