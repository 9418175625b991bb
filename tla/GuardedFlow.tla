---------------------------- MODULE GuardedFlow ----------------------------
(***************************************************************************)
(* What a transaction with conditional ports promises, without wires: it   *)
(* uses one token of every input whose Receive is enabled and leaves the   *)
(* others alone, and every output whose Send is enabled gets the result,   *)
(* once, in order and unchanged until it is taken.  The next transaction   *)
(* may start while the EN_SEND stages still hold a result.                 *)
(***************************************************************************)
EXTENDS Naturals, Sequences

CONSTANTS Inputs, Outputs,
          Receives,   \* Receives[v]: inputs received when the external input is v
          Sends,      \* Sends[v]: outputs sent then
          Buffered,   \* outputs behind an EN_SEND stage
          Tokens,     \* a sender numbers its tokens 1..Tokens and again from 1
          Dummy       \* what stands for an input that is not received

VARIABLES sel,        \* the external input the conditions read
          sent,       \* last token each sender has offered
          fresh,      \* whether that token is still to be used
          due,        \* results each output is owed, oldest first
          offer       \* the result an output channel shows, as a set: one or none

flowVars == <<sel, sent, fresh, due, offer>>

FlowInit ==
    /\ sel \in BOOLEAN
    /\ sent  = [i \in Inputs |-> 0]
    /\ fresh = [i \in Inputs |-> FALSE]
    /\ due   = [j \in Outputs |-> <<>>]
    /\ offer = [j \in Outputs |-> {}]

Result == [i \in Inputs |-> IF i \in Receives[sel] THEN sent[i] ELSE Dummy]

ChangeInput ==
    /\ sel' = ~sel
    /\ UNCHANGED <<sent, fresh, due, offer>>

OfferToken(i) ==
    /\ ~fresh[i]
    /\ sent'  = [sent EXCEPT ![i] = (@ % Tokens) + 1]
    /\ fresh' = [fresh EXCEPT ![i] = TRUE]
    /\ UNCHANGED <<sel, due, offer>>

StartTransaction ==
    /\ \A i \in Receives[sel] : fresh[i]
    /\ \A j \in Outputs : due[j] # <<>> => j \in Buffered /\ Len(due[j]) = 1
    /\ fresh' = [i \in Inputs |-> fresh[i] /\ i \notin Receives[sel]]
    /\ due' = [j \in Outputs |-> IF j \in Sends[sel] THEN Append(due[j], Result) ELSE due[j]]
    /\ UNCHANGED <<sel, sent, offer>>

ShowResult(j) ==
    /\ offer[j] = {} /\ due[j] # <<>>
    /\ offer' = [offer EXCEPT ![j] = {Head(due[j])}]
    /\ UNCHANGED <<sel, sent, fresh, due>>

TakeResult(j) ==
    /\ offer[j] # {}
    /\ offer' = [offer EXCEPT ![j] = {}]
    /\ due'   = [due EXCEPT ![j] = Tail(@)]
    /\ UNCHANGED <<sel, sent, fresh>>

FlowNext ==
    \/ ChangeInput
    \/ \E i \in Inputs : OfferToken(i)
    \/ StartTransaction
    \/ \E j \in Outputs : ShowResult(j) \/ TakeResult(j)

FlowSafety == FlowInit /\ [][FlowNext]_flowVars
=============================================================================
