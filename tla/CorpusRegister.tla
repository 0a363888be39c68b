---------------------------- MODULE CorpusRegister ----------------------------
(***************************************************************************)
(* What the artifact directory promises the programs that load a corpus:   *)
(* it behaves as one register.  Corpora are published whole, a load        *)
(* returns the corpus published at one instant of the call, and it fails   *)
(* only when nothing was published yet.                                    *)
(***************************************************************************)
CONSTANTS
    Loaders,      \* programs that load the corpus
    Corpora,      \* whole corpora
    Absent        \* no corpus, yet or any more

VARIABLES
    published,    \* the corpus a load would return
    held          \* by loader: the corpus it works with

vars == <<published, held>>

TypeOK ==
    /\ published \in Corpora \cup {Absent}
    /\ held \in [Loaders -> Corpora \cup {Absent}]

Init ==
    /\ published = Absent
    /\ held = [l \in Loaders |-> Absent]

Publish(c) ==
    /\ published' = c
    /\ UNCHANGED held

Load(l) ==
    /\ held[l] = Absent
    /\ published # Absent
    /\ held' = [held EXCEPT ![l] = published]
    /\ UNCHANGED published

Close(l) ==
    /\ held' = [held EXCEPT ![l] = Absent]
    /\ UNCHANGED published

Next ==
    \/ \E c \in Corpora : Publish(c)
    \/ \E l \in Loaders : Load(l) \/ Close(l)

Spec == Init /\ [][Next]_vars
==============================================================================
