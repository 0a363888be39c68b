---------------------------- MODULE ResponseCache ----------------------------
(***************************************************************************)
(* Calls of the model providers over the shared exact response cache       *)
(* (providers.py, model_economics.py).                                     *)
(*                                                                         *)
(* Each call is one of analyze_and_plan, reformulate and synthesize, made  *)
(* by some process on the same state database with a configuration of its  *)
(* own.  A step is one committed statement on model_response_cache or the  *)
(* request to the model; other calls may act between any two of them.      *)
(*                                                                         *)
(* An answer is a model value; whether it validates against the schema of  *)
(* the operation is all that is known of it, beside what the reply it came *)
(* in says of the tokens it used.                                          *)
(***************************************************************************)
EXTENDS Naturals, FiniteSets

CONSTANTS
    Calls,            \* the provider calls
    Configurations,   \* what a call may be made with
    Fold,             \* normalized_json: the case-folded form of an input
    Asymmetric,       \* folded inputs with a marker of asymmetric synthesis
    EconomicalModel, HigherModel,
    Priced,           \* the models of the pricing catalog
    Answers,          \* what a model, or a fixture, may answer
    ValidAnswers,     \* the answers that validate
    None              \* Python's None

Operations == {"analyze_and_plan", "reformulate", "synthesize"}

\* What the table holds: an answer and, for the properties, the call that stored it.
Entries == [answer: Answers, maker: Calls]

\* What a reply says of its tokens: the counts, nothing (or counts of 0), or
\* something that is no count, such as null.
Usages == {"reported", "absent", "malformed"}

ASSUME AnswersAssumption ==
    ValidAnswers \subseteq Answers /\ None \notin Answers \cup Entries \cup Usages
\* A replay call has a fixture: its answer, or None if the fixture was recorded
\* for another question.
ASSUME ConfigurationsAssumption ==
    \A f \in Configurations :
        /\ f.operation \in Operations /\ f.input \in DOMAIN Fold
        /\ f.provider_mode \in {"replay", "live"}
        /\ f.fixture \in Answers \cup {None}
        /\ {f.local_response_cache, f.enable_higher_reasoning,
            f.pricing_known} \subseteq BOOLEAN

VARIABLES
    config,     \* the configuration of each call
    cache,      \* the table: a function from the keys stored to entries
    pc,         \* where each call is
    cached,     \* the entry a call was served, or None
    output,     \* the answer a call holds, or None
    sent,       \* the calls that have sent a request to the model
    usage       \* what the reply a call accepted says of its tokens, or None

vars == <<config, cache, pc, cached, output, sent, usage>>

\* ModelRouter.route
RoutedModel(f) ==
    IF f.enable_higher_reasoning /\ f.operation = "synthesize"
         /\ Fold[f.input] \in Asymmetric
    THEN HigherModel ELSE EconomicalModel

\* Fault: the corpus is not part of the key.
KeyWithoutCorpus(c) ==
    LET f == config[c]
    IN  [model |-> RoutedModel(f), operation |-> f.operation,
         prompt_version |-> f.prompt_version, corpus_digest |-> None,
         normalized_input |-> Fold[f.input], evidence_hashes |-> f.evidence_hashes]

\* exact_cache_key.  The prompt and the response schema belong to the
\* operation, the policy never varies; hashing is taken to be injective.
Key(c) ==
    LET f == config[c]
    IN  [model |-> RoutedModel(f), operation |-> f.operation,
         prompt_version |-> f.prompt_version, corpus_digest |-> f.corpus_digest,
         normalized_input |-> Fold[f.input], evidence_hashes |-> f.evidence_hashes]

Caches(c) == config[c].local_response_cache
Replays(c) == config[c].provider_mode = "replay"

Init ==
    /\ config \in [Calls -> Configurations]
    /\ cache = [k \in {} |-> None]
    /\ pc = [c \in Calls |-> "lookup"]
    /\ cached = [c \in Calls |-> None]
    /\ output = [c \in Calls |-> None]
    /\ sent = {}
    /\ usage = [c \in Calls |-> None]

Goto(c, label) == pc' = [pc EXCEPT ![c] = label]

\* The replay provider refuses a question its fixture was not recorded for.
Refuse(c) ==
    /\ pc[c] = "lookup" /\ Replays(c) /\ config[c].fixture = None
    /\ Goto(c, "raised")
    /\ UNCHANGED <<config, cache, cached, output, sent, usage>>

Ready(c) == pc[c] = "lookup" /\ ~ (Replays(c) /\ config[c].fixture = None)

Hit(c) ==
    /\ Ready(c) /\ Caches(c) /\ Key(c) \in DOMAIN cache
    /\ cached' = [cached EXCEPT ![c] = cache[Key(c)]]
    /\ output' = [output EXCEPT ![c] = cache[Key(c)].answer]
    /\ Goto(c, "validate")
    /\ UNCHANGED <<config, cache, sent, usage>>

\* Without an entry, or without a cache, replay takes its fixture's answer and
\* stores it before it is validated; live asks the model.
Miss(c) ==
    /\ Ready(c) /\ (Caches(c) => Key(c) \notin DOMAIN cache)
    /\ IF Replays(c)
       THEN /\ output' = [output EXCEPT ![c] = config[c].fixture]
            /\ Goto(c, IF Caches(c) THEN "put" ELSE "validate")
       ELSE Goto(c, "request") /\ UNCHANGED output
    /\ UNCHANGED <<config, cache, cached, sent, usage>>

\* Fault: a reply that does not validate goes on.
ReplyUnvalidated(c, reply) == reply # None

\* model_validate_json, before anything is stored.
ReplyAccepted(c, reply) == reply # None /\ reply \in ValidAnswers

\* _call_record, after the answer is stored: int() of what is no count raises.
Accounted(tokens) == IF tokens = "malformed" THEN "raised" ELSE "returned"

\* The request fails, or the model replies with anything, whether or not the
\* reply reports its usage.
Request(c) ==
    /\ pc[c] = "request"
    /\ sent' = sent \cup {c}
    /\ \/ \E reply \in Answers, tokens \in Usages :
             /\ ReplyAccepted(c, reply)
             /\ output' = [output EXCEPT ![c] = reply]
             /\ usage' = [usage EXCEPT ![c] = tokens]
             /\ Goto(c, IF Caches(c) THEN "put" ELSE Accounted(tokens))
       \/ /\ \E reply \in Answers \cup {None} : ~ReplyAccepted(c, reply)
          /\ Goto(c, "raised")
          /\ UNCHANGED <<output, usage>>
    /\ UNCHANGED <<config, cache, cached>>

\* INSERT OR REPLACE.
Stored(c, table) ==
    [k \in DOMAIN table \cup {Key(c)} |->
        IF k = Key(c) THEN [answer |-> output[c], maker |-> c] ELSE table[k]]

\* Fault: the statement is never committed.
PutUncommitted(c) ==
    /\ pc[c] = "put"
    /\ Goto(c, IF Replays(c) THEN "validate" ELSE Accounted(usage[c]))
    /\ UNCHANGED <<config, cache, cached, output, sent, usage>>

Put(c) ==
    /\ pc[c] = "put"
    /\ cache' = Stored(c, cache)
    /\ Goto(c, IF Replays(c) THEN "validate" ELSE Accounted(usage[c]))
    /\ UNCHANGED <<config, cached, output, sent, usage>>

\* schema.model_validate of what the cache, or the fixture, holds.
Validate(c) ==
    /\ pc[c] = "validate"
    /\ Goto(c, IF output[c] \in ValidAnswers THEN "returned" ELSE "raised")
    /\ UNCHANGED <<config, cache, cached, output, sent, usage>>

\* The process is killed, or the database stays locked for too long.
Vanish(c) ==
    /\ pc[c] \in {"lookup", "request", "put", "validate"}
    /\ Goto(c, "vanished")
    /\ UNCHANGED <<config, cache, cached, output, sent, usage>>

Call(c) ==
    Refuse(c) \/ Hit(c) \/ Miss(c) \/ Request(c) \/ Put(c) \/ Validate(c) \/ Vanish(c)

Next == \E c \in Calls : Call(c)

Spec == Init /\ [][Next]_vars

------------------------------------------------------------------------------

\* The pricing version is the catalog's and the catalog has the model.
HasPrice(f) == f.pricing_known /\ RoutedModel(f) \in Priced

\* PricingCatalog.estimate: counts that are not all 0 cost something, and a
\* reply without usage counts as one of no tokens.
PricedUsage(c) == IF usage[c] = "reported" THEN "estimate" ELSE "zero"

\* Fault: a call that may use the cache is taken to be a hit.
EstimateOfHits(c) ==
    IF Caches(c) \/ Replays(c) THEN "zero"
    ELSE IF HasPrice(config[c]) THEN PricedUsage(c) ELSE "unknown"

\* estimated_cost_usd of the record of a call that returned.
EstimatedCost(c) ==
    IF cached[c] # None \/ Replays(c) THEN "zero"
    ELSE IF HasPrice(config[c]) THEN PricedUsage(c) ELSE "unknown"

LocalCacheStatus(c) ==
    IF ~ Caches(c) THEN "disabled" ELSE IF cached[c] # None THEN "hit" ELSE "miss"
==============================================================================
