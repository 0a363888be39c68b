--------------------------- MODULE MCResponseCache ---------------------------
(***************************************************************************)
(* Three calls: the same question in two spellings, variations of it in    *)
(* every part of the key, replays with good, malformed and foreign         *)
(* fixtures.                                                               *)
(***************************************************************************)
EXTENDS ResponseCacheProperties, TLC

CONSTANTS Luna, Sol, Good, Better, Malformed

\* "Compare" and "compare" fold to the same text.
MCFold == [i \in {"Compare", "compare", "lookup"} |->
              IF i = "lookup" THEN "lookup" ELSE "compare"]

Live(operation, input) ==
    [operation |-> operation, input |-> input, evidence_hashes |-> <<"e1">>,
     corpus_digest |-> "corpus-a", prompt_version |-> "v1",
     enable_higher_reasoning |-> FALSE, local_response_cache |-> TRUE,
     provider_mode |-> "live", pricing_known |-> TRUE, fixture |-> None]

Usual == Live("synthesize", "compare")
Replay(fixture) == [Usual EXCEPT !.provider_mode = "replay", !.fixture = fixture]

MCConfigurations ==
    {Usual,
     Live("synthesize", "Compare"),
     Live("synthesize", "lookup"),
     Live("analyze_and_plan", "compare"),
     [Usual EXCEPT !.enable_higher_reasoning = TRUE],
     [Usual EXCEPT !.local_response_cache = FALSE],
     [Usual EXCEPT !.pricing_known = FALSE],
     [Usual EXCEPT !.corpus_digest = "corpus-b"],
     [Usual EXCEPT !.evidence_hashes = <<"e2", "e1">>],
     Replay(Good), Replay(Malformed), Replay(None),
     [Replay(Better) EXCEPT !.local_response_cache = FALSE]}

MCAnswers == {Good, Better, Malformed}
MCValidAnswers == {Good, Better}
CallSymmetry == Permutations(Calls)
==============================================================================
