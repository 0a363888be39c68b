-------------------------- MODULE ResponseCacheProofs --------------------------
(***************************************************************************)
(* Proofs about the response cache, for any calls, configurations and      *)
(* answers.                                                                *)
(***************************************************************************)
EXTENDS ResponseCacheProperties, TLAPS

\* What a call is made with never changes, and with it its key and its modes.
LEMMA ConfigurationsStay ==
    ASSUME config' = config, NEW c \in Calls
    PROVE  /\ Key(c)' = Key(c) /\ Caches(c)' = Caches(c) /\ Replays(c)' = Replays(c)
           /\ RoutedModel(config[c])' = RoutedModel(config[c])
  BY DEF Key, Caches, Replays, RoutedModel

\* Before any call has acted the table is empty and everything agrees.
LEMMA InitAgrees == Init => IInv
<1> SUFFICES ASSUME Init PROVE IInv
    OBVIOUS
<1> USE DEF Init
<1>1. TypeOK
    BY DEF TypeOK, Labels, Entries
<1>2. \A c \in Calls : CallInv(c)
    BY DEF CallInv
<1>3. TableInv /\ CachedInv /\ PoisonIsTheFixtures
    BY DEF TableInv, CachedInv, PoisonIsTheFixtures
<1> QED
    BY <1>1, <1>2, <1>3 DEF IInv, CacheAgrees

\* A step that leaves the table alone, and in which one call moves on and may
\* be served an entry of the table, keeps the table's half of the invariant.
LEMMA TableStays ==
    ASSUME IInv, UNCHANGED <<config, cache>>, sent \subseteq sent', NEW c \in Calls,
           \/ cached' = cached
           \/ Key(c) \in DOMAIN cache /\ cached' = [cached EXCEPT ![c] = cache[Key(c)]]
    PROVE  TableInv' /\ CachedInv' /\ PoisonIsTheFixtures'
<1> USE DEF IInv, CacheAgrees
<1>1. \A d \in Calls : Key(d)' = Key(d) /\ Replays(d)' = Replays(d)
    BY ConfigurationsStay
<1>2. \A k \in DOMAIN cache : cache[k].maker \in Calls
    BY DEF TypeOK, Entries
<1>3. TableInv'
    BY <1>1, <1>2 DEF TableInv, Obtained
<1>4. PoisonIsTheFixtures'
    BY <1>1, <1>2 DEF PoisonIsTheFixtures
<1>5. CachedInv'
  <2> DEFINE served == cached'
  <2>1. ASSUME NEW d \in Calls, served[d] # None
        PROVE  /\ served[d].maker \in Calls /\ Key(served[d].maker) = Key(d)
               /\ Obtained(served[d].maker)
    <3>1. CASE served[d] = cached[d]
        BY <2>1, <3>1 DEF TypeOK, Entries, CachedInv
    <3>2. CASE served[d] # cached[d]
      <4>1. d = c /\ Key(c) \in DOMAIN cache /\ served[d] = cache[Key(c)]
          BY <3>2 DEF TypeOK
      <4> QED
          BY <4>1, <1>2 DEF TableInv
    <3> QED
        BY <3>1, <3>2
  <2> QED
      BY <2>1, <1>1 DEF CachedInv, Key, RoutedModel, Obtained
<1> QED
    BY <1>3, <1>4, <1>5

\* A refused call has sent nothing and holds nothing.
LEMMA RefuseAgrees ==
    ASSUME IInv, NEW c \in Calls, Refuse(c) PROVE IInv'
<1> USE DEF IInv, CacheAgrees, Refuse, Goto
<1>1. \A d \in Calls : Key(d)' = Key(d) /\ Caches(d)' = Caches(d) /\ Replays(d)' = Replays(d)
    BY ConfigurationsStay
<1>2. TypeOK'
    BY <1>1 DEF TypeOK, Labels
<1>3. \A d \in Calls : CallInv(d)'
    BY <1>1 DEF CallInv, TypeOK
<1>4. TableInv' /\ CachedInv' /\ PoisonIsTheFixtures'
    BY TableStays
<1> QED
    BY <1>2, <1>3, <1>4

\* A hit is served the entry its own key leads to.
LEMMA HitAgrees ==
    ASSUME IInv, NEW c \in Calls, Hit(c) PROVE IInv'
<1> USE DEF IInv, CacheAgrees, Hit, Ready, Goto
<1>1. \A d \in Calls : Key(d)' = Key(d) /\ Caches(d)' = Caches(d) /\ Replays(d)' = Replays(d)
    BY ConfigurationsStay
<1>2. cache[Key(c)] \in Entries /\ cache[Key(c)].answer \in Answers
    BY DEF TypeOK, Entries
<1>3. TypeOK'
    BY <1>1, <1>2 DEF TypeOK, Labels
<1>4. \A d \in Calls : CallInv(d)'
  <2> TAKE d \in Calls
  <2>1. CASE d = c
    <3>1. CallInv(c) /\ Key(c) \in DOMAIN cache /\ Caches(c) /\ pc[c] = "lookup"
        OBVIOUS
    <3>2. pc'[c] = "validate" /\ cached'[c] # None
        BY <1>2, AnswersAssumption DEF TypeOK, Entries
    <3>3. c \notin sent' /\ cache' = cache /\ usage'[c] = None
        BY <3>1 DEF CallInv
    <3> QED
        BY ONLY <2>1, <1>1, <3>1, <3>2, <3>3, AnswersAssumption DEF CallInv, Usages
  <2>2. CASE d # c
      BY <2>2, <1>1 DEF CallInv, TypeOK
  <2> QED
      BY <2>1, <2>2
<1>5. TableInv' /\ CachedInv' /\ PoisonIsTheFixtures'
    BY TableStays
<1> QED
    BY <1>3, <1>4, <1>5

\* A miss takes the fixture, or turns to the model.
LEMMA MissAgrees ==
    ASSUME IInv, NEW c \in Calls, Miss(c) PROVE IInv'
<1> USE DEF IInv, CacheAgrees, Miss, Ready, Goto
<1>1. \A d \in Calls : Key(d)' = Key(d) /\ Caches(d)' = Caches(d) /\ Replays(d)' = Replays(d)
    BY ConfigurationsStay
<1>2. Replays(c) => config[c].fixture \in Answers
    BY ConfigurationsAssumption DEF TypeOK
<1>3. TypeOK'
    BY <1>1, <1>2 DEF TypeOK, Labels
<1>4. \A d \in Calls : CallInv(d)'
  <2> TAKE d \in Calls
  <2>1. CASE d = c /\ Replays(c)
      BY <2>1, <1>1 DEF CallInv, TypeOK
  <2>2. CASE d = c /\ ~ Replays(c)
      BY <2>2, <1>1 DEF CallInv, TypeOK
  <2>3. CASE d # c
      BY <2>3, <1>1 DEF CallInv, TypeOK
  <2> QED
      BY <2>1, <2>2, <2>3
<1>5. TableInv' /\ CachedInv' /\ PoisonIsTheFixtures'
    BY TableStays
<1> QED
    BY <1>3, <1>4, <1>5

\* Only an answer that validates leaves the request.
LEMMA RequestAgrees ==
    ASSUME IInv, NEW c \in Calls, Request(c) PROVE IInv'
<1> USE DEF IInv, CacheAgrees, Request, Goto
<1>1. \A d \in Calls : Key(d)' = Key(d) /\ Caches(d)' = Caches(d) /\ Replays(d)' = Replays(d)
    BY ConfigurationsStay
<1>2. TableInv' /\ CachedInv' /\ PoisonIsTheFixtures'
    BY TableStays
<1>3. CASE /\ pc' = [pc EXCEPT ![c] = "raised"]
           /\ UNCHANGED <<output, usage>>
  <2>1. TypeOK'
      BY <1>1, <1>3 DEF TypeOK, Labels
  <2>2. \A d \in Calls : CallInv(d)'
      BY <1>1, <1>3 DEF CallInv, TypeOK
  <2> QED
      BY <1>2, <2>1, <2>2
<1>4. ASSUME NEW reply \in ValidAnswers, NEW tokens \in Usages,
             output' = [output EXCEPT ![c] = reply],
             usage' = [usage EXCEPT ![c] = tokens],
             pc' = [pc EXCEPT ![c] = IF Caches(c) THEN "put" ELSE Accounted(tokens)]
      PROVE  IInv'
  <2>1. TypeOK'
      BY <1>1, <1>4, AnswersAssumption DEF TypeOK, Labels, Accounted
  <2>2. ASSUME NEW d \in Calls PROVE CallInv(d)'
    <3>1. CASE d = c
        BY <3>1, <1>1, <1>4 DEF CallInv, TypeOK, Accounted
    <3>2. CASE d # c
        BY <3>2, <1>1, <1>4 DEF CallInv, TypeOK
    <3> QED
        BY <3>1, <3>2
  <2> QED
      BY <1>2, <2>1, <2>2
<1> QED
    BY <1>3, <1>4 DEF ReplyAccepted

\* The entry stored is the call's own answer under the call's own key.
LEMMA PutAgrees ==
    ASSUME IInv, NEW c \in Calls, Put(c) PROVE IInv'
<1> USE DEF IInv, CacheAgrees, Put, Goto
<1>1. \A d \in Calls : Key(d)' = Key(d) /\ Caches(d)' = Caches(d) /\ Replays(d)' = Replays(d)
    BY ConfigurationsStay
<1>2. /\ DOMAIN cache' = DOMAIN cache \cup {Key(c)}
      /\ cache'[Key(c)] = [answer |-> output[c], maker |-> c]
      /\ \A k \in DOMAIN cache \ {Key(c)} : cache'[k] = cache[k]
    BY DEF Stored
<1>3. cache'[Key(c)] \in Entries
    BY <1>2 DEF TypeOK, Entries
<1>4. \A k \in DOMAIN cache : cache[k].maker \in Calls
    BY DEF TypeOK, Entries
<1>5. TypeOK'
  <2>1. \A k \in DOMAIN cache' : cache'[k] \in Entries
      BY <1>2, <1>3 DEF TypeOK
  <2>2. DOMAIN cache' \subseteq {Key(d) : d \in Calls}'
      BY <1>1, <1>2 DEF TypeOK
  <2> QED
      BY <2>1, <2>2 DEF TypeOK, Labels, Accounted
<1>6. \A d \in Calls : CallInv(d)'
  <2> TAKE d \in Calls
  <2>1. CASE d = c
    <3>1. CASE Replays(c)
        BY <2>1, <3>1, <1>1, <1>2, AnswersAssumption DEF CallInv, TypeOK, Usages
    <3>2. CASE ~ Replays(c)
      <4>1. /\ CallInv(c) /\ pc[c] = "put" /\ c \in sent /\ usage[c] \in Usages
            /\ usage'[c] = usage[c] /\ sent' = sent /\ cached'[c] = cached[c]
            /\ cached[c] = None /\ output' = output
            /\ pc'[c] = Accounted(usage[c])
          BY <3>2 DEF CallInv, TypeOK
      <4> QED
          BY ONLY <4>1, <2>1, <3>2, <1>1, <1>2 DEF CallInv, Accounted
    <3> QED
        BY <3>1, <3>2
  <2>2. CASE d # c
      BY <2>2, <1>1, <1>2 DEF CallInv, TypeOK
  <2> QED
      BY <2>1, <2>2
<1>7. TableInv'
  <2>1. \A d \in Calls : Obtained(d)' = Obtained(d)
      BY <1>1 DEF Obtained
  <2>2. Obtained(c)
      BY DEF CallInv, Obtained
  <2> QED
      BY <2>1, <2>2, <1>1, <1>2, <1>4 DEF TableInv
<1>8. CachedInv'
  <2>1. \A d \in Calls : cached[d] # None => cached[d].maker \in Calls
      BY DEF TypeOK, Entries
  <2>2. \A d \in Calls : Obtained(d)' = Obtained(d)
      BY <1>1 DEF Obtained
  <2> QED
      BY <2>1, <2>2, <1>1 DEF CachedInv
<1>9. PoisonIsTheFixtures'
  <2>1. output[c] \notin ValidAnswers => Replays(c) /\ config[c].fixture = output[c]
      BY DEF CallInv
  <2> QED
      BY <2>1, <1>1, <1>2, <1>4 DEF PoisonIsTheFixtures
<1> QED
    BY <1>5, <1>6, <1>7, <1>8, <1>9

\* Validation decides how the call ends and nothing else.
LEMMA ValidateAgrees ==
    ASSUME IInv, NEW c \in Calls, Validate(c) PROVE IInv'
<1> USE DEF IInv, CacheAgrees, Validate, Goto
<1>1. \A d \in Calls : Key(d)' = Key(d) /\ Caches(d)' = Caches(d) /\ Replays(d)' = Replays(d)
    BY ConfigurationsStay
<1>2. TypeOK'
    BY <1>1 DEF TypeOK, Labels
<1>3. \A d \in Calls : CallInv(d)'
    BY <1>1, AnswersAssumption DEF CallInv, TypeOK, Usages
<1>4. TableInv' /\ CachedInv' /\ PoisonIsTheFixtures'
    BY TableStays
<1> QED
    BY <1>2, <1>3, <1>4

\* A call that vanishes leaves the table as it is.
LEMMA VanishAgrees ==
    ASSUME IInv, NEW c \in Calls, Vanish(c) PROVE IInv'
<1> USE DEF IInv, CacheAgrees, Vanish, Goto
<1>1. \A d \in Calls : Key(d)' = Key(d) /\ Caches(d)' = Caches(d) /\ Replays(d)' = Replays(d)
    BY ConfigurationsStay
<1>2. TypeOK'
    BY <1>1 DEF TypeOK, Labels
<1>3. \A d \in Calls : CallInv(d)'
    BY <1>1 DEF CallInv, TypeOK
<1>4. TableInv' /\ CachedInv' /\ PoisonIsTheFixtures'
    BY TableStays
<1> QED
    BY <1>2, <1>3, <1>4

\* When nothing happens everything goes on agreeing.
LEMMA StutterAgrees ==
    ASSUME IInv, UNCHANGED vars PROVE IInv'
<1> USE DEF vars
<1>1. \A d \in Calls : Key(d)' = Key(d) /\ Caches(d)' = Caches(d) /\ Replays(d)' = Replays(d)
    BY ConfigurationsStay
<1>2. TypeOK'
    BY <1>1 DEF IInv, TypeOK
<1>3. \A d \in Calls : CallInv(d)'
    BY <1>1 DEF IInv, CacheAgrees, CallInv
<1>4. \A k \in DOMAIN cache : cache[k].maker \in Calls
    BY DEF IInv, TypeOK, Entries
<1>5. \A d \in Calls : cached[d] # None => cached[d].maker \in Calls
    BY DEF IInv, TypeOK, Entries
<1>6. TableInv' /\ CachedInv' /\ PoisonIsTheFixtures'
    BY <1>1, <1>4, <1>5
       DEF IInv, CacheAgrees, TableInv, CachedInv, PoisonIsTheFixtures, Obtained
<1> QED
    BY <1>2, <1>3, <1>6 DEF IInv, CacheAgrees

\* The types, and the agreement of the calls, the table and what was served
\* from it, hold in every reachable state.
THEOREM CacheInvariant == Spec => []IInv
<1>1. ASSUME IInv, [Next]_vars PROVE IInv'
  <2>1. CASE UNCHANGED vars
      BY <1>1, <2>1, StutterAgrees
  <2>2. ASSUME NEW c \in Calls, Call(c) PROVE IInv'
      BY <1>1, <2>2, RefuseAgrees, HitAgrees, MissAgrees, RequestAgrees, PutAgrees,
         ValidateAgrees, VanishAgrees DEF Call
  <2> QED
      BY <1>1, <2>1, <2>2 DEF Next
<1> QED
    BY InitAgrees, <1>1, PTL DEF Spec

\* Every entry, label and answer is of its kind.
THEOREM TypeCorrect == Spec => []TypeOK
<1>1. IInv => TypeOK
    BY DEF IInv
<1> QED
    BY CacheInvariant, <1>1, PTL

\* A call served from the cache is served an answer to its own request.
THEOREM HitsAlwaysAnswerTheSameRequest == Spec => []HitsAnswerTheSameRequest
<1>1. IInv => HitsAnswerTheSameRequest
  <2> SUFFICES ASSUME IInv, NEW c \in Calls, cached[c] # None
               PROVE  SameRequest(config[c], config[cached[c].maker])
      BY DEF HitsAnswerTheSameRequest
  <2>1. Key(cached[c].maker) = Key(c)
      BY DEF IInv, CacheAgrees, CachedInv
  <2> QED
      BY <2>1 DEF Key, SameRequest
<1> QED
    BY CacheInvariant, <1>1, PTL

\* Nothing a model says is cached before it has validated.
THEOREM PoisonIsAlwaysTheFixtures == Spec => []PoisonIsTheFixtures
<1>1. IInv => PoisonIsTheFixtures
    BY DEF IInv, CacheAgrees
<1> QED
    BY CacheInvariant, <1>1, PTL

\* A call recorded as free sent no request, unless its reply reported no usage,
\* and the answer it hit was obtained by the call that stored it.
THEOREM CostsAreAlwaysHonest == Spec => []CostsAreHonest
<1>1. IInv => CostsAreHonest
  <2> SUFFICES ASSUME IInv, NEW c \in Calls, pc[c] = "returned"
               PROVE  /\ EstimatedCost(c) = "zero" => c \notin sent \/ usage[c] = "absent"
                      /\ c \notin sent => EstimatedCost(c) = "zero"
                      /\ LocalCacheStatus(c) = "hit" =>
                           c \notin sent /\ Obtained(cached[c].maker)
      BY DEF CostsAreHonest
  <2>1. CallInv(c)
      BY DEF IInv, CacheAgrees
  <2>2. c \notin sent <=> cached[c] # None \/ Replays(c)
      BY <2>1 DEF CallInv
  <2>3. c \in sent => usage[c] \in {"reported", "absent"}
      BY <2>1, <2>2 DEF CallInv, Usages
  <2>4. EstimatedCost(c) = "zero" => c \notin sent \/ usage[c] = "absent"
      BY <2>2, <2>3 DEF EstimatedCost, PricedUsage
  <2>5. c \notin sent => EstimatedCost(c) = "zero"
      BY <2>2 DEF EstimatedCost
  <2>6. LocalCacheStatus(c) = "hit" => c \notin sent /\ Obtained(cached[c].maker)
      BY <2>2 DEF LocalCacheStatus, IInv, CacheAgrees, CachedInv
  <2> QED
      BY <2>4, <2>5, <2>6
<1> QED
    BY CacheInvariant, <1>1, PTL

\* A request that was answered through the cache is never sent again.
THEOREM RepeatsAlwaysHit == Spec => RepeatsHit
<1> DEFINE Again ==
        \A c, d \in Calls :
            /\ pc[d] = "returned" /\ Caches(d) /\ Caches(c) /\ Key(c) = Key(d)
            /\ pc[c] = "lookup"
            => pc'[c] # "request"
<1>1. ASSUME IInv, [Next]_vars PROVE [Again]_vars
  <2> SUFFICES ASSUME NEW c \in Calls, NEW d \in Calls, Next,
                      pc[d] = "returned", Caches(d), Caches(c), Key(c) = Key(d),
                      pc[c] = "lookup"
               PROVE  pc'[c] # "request"
      BY <1>1
  <2>1. Key(c) \in DOMAIN cache
      BY <1>1 DEF IInv, CacheAgrees, CallInv
  <2>2. pc \in [Calls -> Labels]
      BY <1>1 DEF IInv, TypeOK
  <2>3. PICK e \in Calls : Call(e)
      BY DEF Next
  <2>4. CASE e # c
      BY <2>2, <2>3, <2>4 DEF Call, Refuse, Hit, Miss, Request, Put, Validate, Vanish,
         Goto
  <2>5. CASE e = c
      BY <2>1, <2>2, <2>3, <2>5 DEF Call, Refuse, Hit, Miss, Request, Put, Validate,
         Vanish, Goto
  <2> QED
      BY <2>4, <2>5
<1> QED
    BY CacheInvariant, <1>1, PTL DEF Spec, RepeatsHit
==============================================================================
