---------------------------- MODULE ContractGraph ----------------------------
(***************************************************************************)
(* The typed graph operations the retrieval workflow calls (graph.py).     *)
(*                                                                         *)
(* A graph is the sequence of triples it was loaded from, in corpus order. *)
(* NetworkX keys an edge by (subject, object, predicate) and visits the    *)
(* neighbours of a node in the order in which they were first joined to    *)
(* it, so the sequence determines both what an edge carries and the order  *)
(* in which a bounded traversal sees it.                                   *)
(*                                                                         *)
(* Clause ids are numbers, ordered as the id strings sort; documents,      *)
(* contracts and amendments are model values.                              *)
(***************************************************************************)
EXTENDS Naturals, Sequences, FiniteSets, FiniteSetsExt

Conflict == "unresolved_contractual_conflict"

Edge(triples, s, p, o) ==
    \E i \in DOMAIN triples :
        /\ triples[i].subject = s
        /\ triples[i].predicate = p
        /\ triples[i].object = o

\* Fault: the predicate is not part of the key.
SourceOfPair(triples, s, p, o) ==
    LET last == Max({i \in DOMAIN triples :
                        triples[i].subject = s /\ triples[i].object = o})
    IN  triples[last].source_clause_id

\* A triple loaded later under the same key replaces the edge's attributes:
\* only the last source clause survives.
EdgeSource(triples, s, p, o) ==
    LET last == Max({i \in DOMAIN triples :
                        /\ triples[i].subject = s
                        /\ triples[i].predicate = p
                        /\ triples[i].object = o})
    IN  triples[last].source_clause_id

\* The position in a traversal of the neighbour o of s (and of s among the
\* predecessors of o): where the two nodes were first joined.
FirstJoin(triples, s, o) ==
    Min({i \in DOMAIN triples : triples[i].subject = s /\ triples[i].object = o})

Outgoing(triples, s, p) ==
    {o \in {triples[i].object : i \in DOMAIN triples} : Edge(triples, s, p, o)}

Incoming(triples, o, p) ==
    {s \in {triples[i].subject : i \in DOMAIN triples} : Edge(triples, s, p, o)}

Step(triples, s, p, o) ==
    [subject |-> s, predicate |-> p, object |-> o,
     source_clause_id |-> EdgeSource(triples, s, p, o)]

------------------------------------------------------------------------------

\* The clauses of this contract's amendments that supersede base, paired with
\* the amendment that contains them.
Superseding(triples, contract, base) ==
    {q \in Incoming(triples, contract, "AMENDS") \X
                {triples[i].object : i \in DOMAIN triples} :
        /\ Edge(triples, q[1], "CONTAINS", q[2])
        /\ Edge(triples, q[2], "SUPERSEDES", base)}

\* r is met before q by the two nested loops.
VisitedBefore(triples, contract, r, q) ==
    LET joined(x) == FirstJoin(triples, x[1], contract)
        contained(x) == FirstJoin(triples, x[1], x[2])
    IN  \/ joined(r) < joined(q)
        \/ joined(r) = joined(q) /\ contained(r) < contained(q)

\* The resolutions collected before the candidate bound stops the traversal.
Resolutions(triples, contract, base, max_candidates) ==
    LET found == Superseding(triples, contract, base)
    IN  {q \in found :
            Cardinality({r \in found : VisitedBefore(triples, contract, r, q)})
                < max_candidates}

\* Fault: the first resolution is taken instead of the last.
ChosenFirst(triples, contract, base, max_candidates) ==
    LET kept == Resolutions(triples, contract, base, max_candidates)
    IN  CHOOSE q \in kept : \A r \in kept : q[2] <= r[2]

\* The resolution with the greatest amended clause id; among equals the one
\* met last, because the sort is stable and the last element is taken.
Chosen(triples, contract, base, max_candidates) ==
    LET kept == Resolutions(triples, contract, base, max_candidates)
    IN  CHOOSE q \in kept :
            \A r \in kept :
                \/ r[2] < q[2]
                \/ r = q
                \/ r[2] = q[2] /\ VisitedBefore(triples, contract, r, q)

OperativeClause(triples, contract, base, max_candidates) ==
    IF Resolutions(triples, contract, base, max_candidates) = {}
    THEN base
    ELSE Chosen(triples, contract, base, max_candidates)[2]

OperativePath(triples, contract, base, max_candidates) ==
    IF Resolutions(triples, contract, base, max_candidates) = {}
    THEN {}
    ELSE LET q == Chosen(triples, contract, base, max_candidates)
         IN  {Step(triples, q[1], "AMENDS", contract),
              Step(triples, q[1], "CONTAINS", q[2]),
              Step(triples, q[2], "SUPERSEDES", base)}

\* The place of target among the clauses base conflicts with, counted from 1.
ConflictRank(triples, base, target) ==
    1 + Cardinality({o \in Outgoing(triples, base, "CONFLICTS_WITH") :
            FirstJoin(triples, base, o) < FirstJoin(triples, base, target)})

ConflictTargets(triples, base, limit) ==
    {o \in Outgoing(triples, base, "CONFLICTS_WITH") :
        ConflictRank(triples, base, o) <= limit}

ConflictPath(triples, base, limit) ==
    {Step(triples, base, "CONFLICTS_WITH", o) :
        o \in ConflictTargets(triples, base, limit)}
==============================================================================
