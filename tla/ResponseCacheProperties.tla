----------------------- MODULE ResponseCacheProperties -----------------------
(***************************************************************************)
(* What the response cache must never do to the calls that share it.       *)
(***************************************************************************)
EXTENDS ResponseCache

Labels == {"lookup", "request", "put", "validate", "returned", "raised", "vanished"}

\* The table maps keys of calls to answers; every call is at one of its labels
\* and holds an answer before it stores, checks or returns one.
TypeOK ==
    /\ config \in [Calls -> Configurations]
    /\ DOMAIN cache \subseteq {Key(c) : c \in Calls}
    /\ \A k \in DOMAIN cache : cache[k] \in Entries
    /\ pc \in [Calls -> Labels]
    /\ cached \in [Calls -> Entries \cup {None}]
    /\ output \in [Calls -> Answers \cup {None}]
    /\ \A c \in Calls : pc[c] \in {"put", "validate", "returned"} => output[c] \in Answers
    /\ sent \subseteq Calls
    /\ usage \in [Calls -> Usages \cup {None}]

\* Two calls ask the same thing: as ADR 0003 counts it, the same model, prompt,
\* prompt version, corpus, evidence and, up to the case of letters, input.
SameRequest(f, g) ==
    /\ RoutedModel(f) = RoutedModel(g)
    /\ f.operation = g.operation /\ f.prompt_version = g.prompt_version
    /\ f.corpus_digest = g.corpus_digest
    /\ f.evidence_hashes = g.evidence_hashes
    /\ Fold[f.input] = Fold[g.input]

\* A call that is served from the cache is served an answer to its own request,
\* made on the same corpus from the same evidence, however many calls have
\* replaced the entry since the first one missed.
HitsAnswerTheSameRequest ==
    \A c \in Calls :
        cached[c] # None => SameRequest(config[c], config[cached[c].maker])

\* An entry that does not validate, and so fails every later call that hits
\* it, was put there by a replay of a malformed fixture, which stores before
\* it validates: nothing a model says can get into the cache unvalidated.
PoisonIsTheFixtures ==
    \A k \in DOMAIN cache :
        cache[k].answer \notin ValidAnswers =>
            LET maker == cache[k].maker
            IN  Replays(maker) /\ config[maker].fixture = cache[k].answer

\* Once a call has returned through the cache its answer's entry never goes
\* away, so a call that looks up the same request later never asks the model
\* again (README.md: running the same command twice demonstrates local hits).
RepeatsHit ==
    [][\A c, d \in Calls :
          /\ pc[d] = "returned" /\ Caches(d) /\ Caches(c) /\ Key(c) = Key(d)
          /\ pc[c] = "lookup"
          => pc'[c] # "request"]_vars

\* The answer of a call was asked of the model, or taken from its fixture, by
\* that call itself.
Obtained(c) == c \in sent \/ Replays(c)

\* A returned call that sent a request says what it cost, or that this is not
\* known, as long as the reply reported its usage: without that the request is
\* recorded as free (_live's usage.get(..., 0)).  A call that sent none is
\* recorded as free, and the answer it hit was obtained by the call that
\* stored it: what is free to one was asked for, or replayed, by another.
CostsAreHonest ==
    \A c \in Calls :
        pc[c] = "returned" =>
            /\ EstimatedCost(c) = "zero" => c \notin sent \/ usage[c] = "absent"
            /\ c \notin sent => EstimatedCost(c) = "zero"
            /\ LocalCacheStatus(c) = "hit" =>
                 c \notin sent /\ Obtained(cached[c].maker)

------------------------------------------------------------------------------
(* The inductive invariant behind the properties.                           *)

\* What a call has done is known from its place, its mode and what it holds.
CallInv(c) ==
    /\ Replays(c) => c \notin sent /\ pc[c] # "request"
    /\ pc[c] = "lookup" => cached[c] = None /\ output[c] = None /\ c \notin sent
    /\ pc[c] = "request" => cached[c] = None /\ output[c] = None
    /\ cached[c] # None => c \notin sent /\ Caches(c) /\ pc[c] # "put"
    /\ pc[c] = "put" =>
          /\ Caches(c)
          /\ IF Replays(c) THEN output[c] = config[c].fixture
                           ELSE output[c] \in ValidAnswers
    /\ ~ Replays(c) /\ pc[c] \in {"put", "returned"} /\ cached[c] = None =>
          c \in sent /\ usage[c] \in Usages
    /\ pc[c] = "returned" => usage[c] # "malformed"
    /\ c \notin sent => usage[c] = None
    /\ pc[c] = "validate" => Replays(c) \/ cached[c] # None
    /\ (pc[c] \in {"validate", "returned"} /\ Caches(c)) => Key(c) \in DOMAIN cache

\* An entry is stored under the key of the call that made it, which obtained it.
TableInv ==
    \A k \in DOMAIN cache : k = Key(cache[k].maker) /\ Obtained(cache[k].maker)

CachedInv ==
    \A c \in Calls :
        cached[c] # None => Key(cached[c].maker) = Key(c) /\ Obtained(cached[c].maker)

\* The calls, the table and what was served from it agree.
CacheAgrees ==
    /\ \A c \in Calls : CallInv(c)
    /\ TableInv /\ CachedInv
    /\ PoisonIsTheFixtures

\* The inductive invariant (_replay and _live over the table).
IInv == TypeOK /\ CacheAgrees
==============================================================================
