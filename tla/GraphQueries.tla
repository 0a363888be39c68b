------------------------------ MODULE GraphQueries ------------------------------
(***************************************************************************)
(* The typed graph operations of the competency service (graph.py) beyond  *)
(* those of the workflow.                                                  *)
(*                                                                         *)
(* A tuple that the code sorts by an id is the set of its elements, and    *)
(* cutting it off keeps the least.  A result that may be missing is a set  *)
(* of at most one element.                                                 *)
(***************************************************************************)
EXTENDS ContractGraph, Functions

\* sorted(S)[:limit]
Least(S, limit, Before(_, _)) ==
    {x \in S : Cardinality({y \in S : Before(y, x)}) < limit}

\* The first neighbours of s under p in the order of the traversal.
FirstOutgoing(triples, s, p, limit) ==
    Least(Outgoing(triples, s, p), limit,
          LAMBDA o, r : FirstJoin(triples, s, o) < FirstJoin(triples, s, r))

FirstIncoming(triples, o, p, limit) ==
    Least(Incoming(triples, o, p), limit,
          LAMBDA s, r : FirstJoin(triples, s, o) < FirstJoin(triples, r, o))

------------------------------------------------------------------------------

\* next(outgoing, None) and next(incoming, None)
Trigger(triples, obligation) == FirstOutgoing(triples, obligation, "TRIGGERED_BY", 1)

Creator(triples, obligation) ==
    FirstIncoming(triples, obligation, "CREATES_OBLIGATION", 1)

\* Fault: every obligation of the party matches.
OwedAtAnyTime(triples, party, event) ==
    {o \in Incoming(triples, party, "OWED_BY") : Creator(triples, o) # {}}

\* The obligations of the party whose first trigger is the event, created by
\* some clause.
OwedOn(triples, party, event) ==
    {o \in Incoming(triples, party, "OWED_BY") :
        Trigger(triples, o) = {event} /\ Creator(triples, o) # {}}

ObligationResolution(triples, party, obligation) ==
    LET clause == CHOOSE c \in Creator(triples, obligation) : TRUE
    IN  [obligation_id |-> obligation,
         clause_id |-> clause,
         owed_by |-> party,
         owed_to |-> FirstOutgoing(triples, obligation, "OWED_TO", 1),
         triggered_by |-> Trigger(triples, obligation),
         policy_ids |-> Outgoing(triples, clause, "REFERENCES"),
         path |-> {Step(triples, clause, "CREATES_OBLIGATION", obligation),
                   Step(triples, obligation, "OWED_BY", party)}
                  \cup {Step(triples, obligation, "TRIGGERED_BY", e) :
                            e \in Trigger(triples, obligation)}]

ObligationsForParty(triples, party, event, limit) ==
    {ObligationResolution(triples, party, o) :
        o \in Least(OwedOn(triples, party, event), limit, <)}

------------------------------------------------------------------------------

\* The clauses of the base agreements among contracts whose title matches.
MatchingClauses(artifact, contracts, titles) ==
    {c.clause_id : c \in
        {c \in Range(artifact.clauses) :
            /\ c.title \in titles
            /\ \E d \in Range(artifact.documents) :
                /\ d.document_id = c.document_id
                /\ d.document_type = "Contract"
                /\ d.contract_id \in contracts}}

CompareContracts(artifact, contracts, titles, limit) ==
    [contract_ids |-> contracts,
     clause_ids |-> Least(MatchingClauses(artifact, contracts, titles), limit, <),
     shared_service_type |->
        \E c \in contracts : Outgoing(artifact.triples, c, "COVERS") # {}]

\* The exhibits of the contract, each with a clause it contains.
Exhibited(triples, contract) ==
    {q \in Outgoing(triples, contract, "HAS_EXHIBIT") \X
                {triples[i].object : i \in DOMAIN triples} :
        Edge(triples, q[1], "CONTAINS", q[2])}

ExhibitClauses(triples, contract, limit) ==
    {q[2] : q \in Least(Exhibited(triples, contract), limit,
        LAMBDA q, r : q[2] < r[2] \/ (q[2] = r[2] /\ q[1] < r[1]))}

\* The page and the document of a clause; its chunk is named by the clause.
TraceProvenance(artifact, clause) ==
    LET c == CHOOSE c \in Range(artifact.clauses) : c.clause_id = clause
    IN  [clause_id |-> clause, document_id |-> c.document_id, page_id |-> c.page_id]
==============================================================================
