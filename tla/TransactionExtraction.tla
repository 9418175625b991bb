----------------------- MODULE TransactionExtraction -----------------------
(***************************************************************************)
(* M3: the walk that splits a source process into its receive, compute and *)
(* send regions, and rejects what is not one single-stage transaction.     *)
(***************************************************************************)
EXTENDS BehavioralLowering

RECEIVE == 0
COMBINATIONAL == 1
SEND == 2

\* extraction: the walk so far, with the region it has reached.
NothingExtracted ==
    [accepted |-> TRUE, phase |-> RECEIVE, receives |-> <<>>, combinational |-> <<>>,
     sends |-> <<>>, endpoints |-> {}]

RegionOperation(p, path) == [operation |-> p, path |-> path]

RECURSIVE RegionsIn(_)
RegionsIn(p) ==
    CASE p.op = "receive" -> {RECEIVE}
      [] p.op = "assign"  -> {COMBINATIONAL}
      [] p.op = "send"    -> {SEND}
      [] OTHER -> UNION {RegionsIn(p.items[k]) : k \in DOMAIN p.items}

\* Mutant: what each branch mixes is seen, what the branches mix is not.
MixesRegionsWithin(branches) ==
    \E k \in DOMAIN branches : Cardinality(RegionsIn(branches[k])) > 1

MixesRegions(branches) ==
    \/ \E k \in DOMAIN branches : Cardinality(RegionsIn(branches[k])) > 1
    \/ Cardinality(UNION {RegionsIn(branches[k]) : k \in DOMAIN branches}) > 1

\* A Channel used with two payload widths is two endpoints.
Endpoint(p) == <<p.channel, PayloadWidth(p)>>

RecordEndpoint(p, x) ==
    [x EXCEPT !.accepted = @ /\ Endpoint(p) \notin x.endpoints,
              !.endpoints = @ \cup {Endpoint(p)}]

\* Mutant: an if reaches only the region its else branch has reached.
LaterPhaseOfElse(before, after) == after

LaterPhase(before, after) == Max({before, after})

(***************************************************************************)
(* _visit.  The branches of an if and of a parallel all start in the       *)
(* region the process before them has reached; what follows starts in the  *)
(* latest region one of them has reached.                                  *)
(***************************************************************************)
RECURSIVE Visit(_, _, _)
Visit(p, path, x) ==
    LET alternative(y, k) ==
            LET z == Visit(p.items[k], Append(path, k), [y EXCEPT !.phase = x.phase])
            IN [z EXCEPT !.phase = LaterPhase(y.phase, z.phase)]
        alternatives(y) == FoldLeftDomain(alternative, y, p.items)
    IN CASE p.op = "skip" -> x
         [] p.op = "receive" ->
               [RecordEndpoint(p, x) EXCEPT
                   !.accepted = @ /\ x.phase = RECEIVE,
                   !.receives = Append(@, RegionOperation(p, path))]
         [] p.op = "assign" ->
               [x EXCEPT !.accepted = @ /\ x.phase # SEND,
                         !.combinational = Append(@, RegionOperation(p, path)),
                         !.phase = COMBINATIONAL]
         [] p.op = "send" ->
               [RecordEndpoint(p, x) EXCEPT
                   !.sends = Append(@, RegionOperation(p, path)),
                   !.phase = SEND]
         [] p.op = "sequence" ->
               FoldLeftDomain(LAMBDA y, k : Visit(p.items[k], Append(path, k), y), x, p.items)
         [] p.op = "parallel" ->
               alternatives([x EXCEPT !.accepted = @ /\ ~MixesRegions(p.items)])
         [] p.op = "if" -> alternatives(x)

\* extract_transaction: at least one Receive and one Send.
IsTransaction(x) == x.accepted /\ x.receives # <<>> /\ x.sends # <<>>
=============================================================================
