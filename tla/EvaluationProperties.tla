-------------------------- MODULE EvaluationProperties --------------------------
(***************************************************************************)
(* What the figures, the classes and the exit code of an evaluation mean.  *)
(***************************************************************************)
EXTENDS Evaluation

Cases == UNION {Range(cases[v]) : v \in Variants}

\* Every item so far has been answered by every variant.
Judged == at \in {"json", "markdown", "exit_0", "exit_1"}

\* The weight 2.5 is chosen so that what the graph table names always comes
\* first (evaluate, _rrf): no clause the retrievers alone found is ranked above
\* it, whatever their rankings, and the full variant cites exactly those clauses.
GraphEvidenceLeads ==
    \A v \in GraphVariants : \A i \in DOMAIN cases[v] :
        LET case == cases[v][i]
            named == Len(case.graph.ids)
        IN  /\ named <= K =>
                Range(SubSeq(case.retrieved, 1, named)) = Range(case.graph.ids)
            /\ v = "agentic_full" /\ named \in 1..K => case.citations = case.graph.ids

\* The failure taxonomy (FAILURE_DESCRIPTIONS): in whichever order _classify
\* asks its questions, a class says what is so of the clauses retrieved, on
\* top or within K, and of the claims.  An unresolved conflict is one that no
\* graph evidence precedes and nothing is claimed about; that its clauses were
\* retrieved, as its description also says, is ConflictsWereRetrieved.  What
\* the corpus or the question lacks (missing_evidence, ambiguous_question) is
\* the item's label.
ClassesMeanWhatTheySay ==
    \A case \in Cases :
        LET is(class) == case.classification = class
            top == case.retrieved[1]
            complete == case.item.relevant \subseteq Range(case.retrieved)
        IN  /\ is("correct") => complete /\ top \notin Obsolete \ case.item.relevant
            /\ is("other_retrieval_miss") => ~complete
            /\ is("superseded_clause_retrieval") => top \in Obsolete \ case.item.relevant
            /\ is("missed_amendment") => case.item.category = "amendment" /\ ~complete
            /\ is("exact_term_displacement") =>
                case.item.category = "direct" /\ top \notin case.item.relevant
            /\ is("correct_abstention") => ~case.item.answerable /\ case.claims = <<>>
            /\ is("unresolved_conflict") =>
                /\ case.item.category = "conflict"
                /\ case.graph.path = {} /\ case.claims = <<>>

\* "Conflicting old and new clauses were retrieved without graph precedence
\* sufficient to resolve them" (evaluation.py:84-87): a case counted as an
\* unresolved conflict retrieved the clauses it is labelled with.  The code
\* gives the class by category and variant alone (evaluation.py:519).
ConflictsWereRetrieved ==
    \A case \in Cases :
        case.classification = "unresolved_conflict" =>
            case.item.relevant \subseteq Range(case.retrieved)

\* The figures of one report agree with each other (_aggregate): the
\* categories sum to the whole, no share exceeds one, every claim is grounded
\* or not, and the five variants are measured over the same labels.
ReportAddsUp ==
    Judged =>
        \A v \in Variants :
            LET metrics == Metrics(cases[v])
                sum(part(_)) ==
                    SumFunction([c \in DOMAIN Distribution |->
                                    part(CategoryAccuracy(cases[v], c))])
            IN  /\ metrics.clause_accuracy =
                    Ratio(sum(LAMBDA r : r.numerator), sum(LAMBDA r : r.denominator))
                /\ \A name \in DOMAIN metrics :
                    metrics[name].numerator <= metrics[name].denominator
                /\ metrics.grounded.numerator + metrics.unsupported.numerator
                        = metrics.grounded.denominator
                /\ metrics.clause_accuracy.numerator <= metrics.recall.numerator
                /\ metrics.recall.denominator = Metrics(cases["vector_only"]).recall.denominator

\* The exit code is the verdict of the report that has been written (main,
\* write_reports): both files are of this evaluation, the JSON first, and an
\* evaluation that does not get that far leaves the older files alone.
ExitCodeIsTheVerdict ==
    /\ at = "exit_0" => Passed
    /\ at = "exit_1" => ~Passed
    /\ at \in {"exit_0", "exit_1"} => \A f \in DOMAIN files : files[f] = "this"
    /\ files["markdown"] \in {"partial", "this"} => files["json"] = "this"
    /\ at \in {"golden_set_error", "key_error"} =>
        \A f \in DOMAIN files : files[f] = "earlier"
==============================================================================
