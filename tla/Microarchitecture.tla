------------------------- MODULE Microarchitecture -------------------------
(***************************************************************************)
(* M6: the four-phase bundled-data architecture of one transaction, as     *)
(* plain data.  The input and output ports are those of M4; everything     *)
(* else is chosen from their number and their enables.  Enable channels    *)
(* are numbered from 0, conditional Receives first.                        *)
(***************************************************************************)
EXTENDS Terms

\* The ports that got an enable, by their index.
ConditionalPorts(ports) == {i \in DOMAIN ports : ports[i].enable # NoGuard}

\* The number of conditional ports before port i.
StageIndex(ports, i) == Cardinality({k \in ConditionalPorts(ports) : k < i})

\* _enable_stages: one stage, with an enable channel of its own, per
\* conditional port, even for equal guards.
EnableStages(ports, availability, first) ==
    {[index |-> StageIndex(ports, i), port |-> i, channel |-> first + StageIndex(ports, i),
      enable |-> ports[i].enable, availability |-> availability] : i \in ConditionalPorts(ports)}

\* One port is connected directly, more of them need a join or a fanout.
Topology(ports) == IF Len(ports) > 1 THEN "joined" ELSE "direct"

Nontrivial(e) == e.form \notin {"literal", "name"}

\* _matched_delays: every output slot must outlast every operation of the body
\* and of any Send that computes something.
DelayedOperations(x, sends) ==
    {o.path : o \in {q \in ToSet(x.combinational) \cup {s.source : s \in ToSet(sends)} :
                        Nontrivial(q.operation.value)}}

LowerMicroarchitecture(x, d) ==
    [inputs     |-> d.receives,
     outputs    |-> d.sends,
     inputSide  |-> Topology(d.receives),
     outputSide |-> Topology(d.sends),
     combinational |-> x.combinational,
     enReceives |-> EnableStages(d.receives, "pre_input", 0),
     enSends    |-> EnableStages(d.sends, "post_input", Cardinality(ConditionalPorts(d.receives))),
     matchedDelays |-> [j \in DOMAIN d.sends |-> DelayedOperations(x, d.sends)]]
=============================================================================
