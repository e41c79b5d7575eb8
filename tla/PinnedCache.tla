------------------------------ MODULE PinnedCache ------------------------------
(***************************************************************************)
(* What the instance cache promises its clients, whatever way instances    *)
(* come to be loaded: an instance leaves the cache when the last holder    *)
(* lets go of it, not earlier and not later, unless it is kept for good.   *)
(***************************************************************************)
CONSTANTS Ids, Handles

VARIABLES
    cached,   \* the instances with a live object
    kept,     \* those a client loaded for good
    holds     \* what each handle pins

vars == <<cached, kept, holds>>

Held(i) == \E h \in Handles : i \in holds[h]
Needed(i) == i \in kept \/ Held(i)

(* Nothing stays in the cache unneeded. *)
NothingUnneeded == \A i \in cached : Needed(i)

Init == cached = {} /\ kept = {} /\ holds = [h \in Handles |-> {}]

(* A handle pins one more instance of the batch it is given. *)
Hold(h, i) ==
    /\ holds' = [holds EXCEPT ![h] = @ \cup {i}]
    /\ UNCHANGED <<cached, kept>>

(* An instance is materialized for a batch that holds it, or for good. *)
Admit(i) ==
    /\ i \notin cached /\ Held(i)
    /\ cached' = cached \cup {i}
    /\ UNCHANGED <<kept, holds>>

AdmitForGood(i) ==
    /\ cached' = cached \cup {i} /\ kept' = kept \cup {i}
    /\ UNCHANGED holds

(* Handle h lets go of what it holds; another handle's batch, or nothing,  *)
(* takes its place.                                                        *)
LetGo(h, g) ==
    /\ holds' = IF g = h THEN [holds EXCEPT ![h] = {}]
                         ELSE [holds EXCEPT ![h] = holds[g], ![g] = {}]
    /\ cached' = {i \in cached : Needed(i)'}
    /\ UNCHANGED kept

Next == \/ \E i \in Ids : Admit(i) \/ AdmitForGood(i)
        \/ \E h \in Handles, i \in Ids : Hold(h, i)
        \/ \E g, h \in Handles : LetGo(h, g)

Spec == Init /\ [][Next]_vars
==============================================================================
