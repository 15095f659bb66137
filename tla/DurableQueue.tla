----------------------------- MODULE DurableQueue -----------------------------
(***************************************************************************)
(* What the sync loop promises of its work, an item being a (root, path)   *)
(* key, whatever its planner, its fair batches and its transfers do:       *)
(*   - work is handed out only together with a write of everything that is *)
(*     handed out or still waiting;                                        *)
(*   - handed-out work leaves one item at a time, or with its root;        *)
(*   - nothing but a write of exactly the present work changes the store,  *)
(*     and a write that fails leaves it as it was;                         *)
(*   - a restart waits for all that is in the store, or for nothing when   *)
(*     the store cannot be read, and does not touch the store.             *)
(* SyncLoop implements it: see WorkIsLedgered there.                       *)
(***************************************************************************)
CONSTANTS
    Roots,      \* sync roots
    Names       \* relative paths

Item == Roots \X Names

VARIABLES
    waiting,    \* items planned and not handed out
    handedOut,  \* items handed out and not acknowledged
    stored,     \* items a restart finds in the store
    safe        \* did the last write of the store succeed?

vars == <<waiting, handedOut, stored, safe>>

Init == waiting = {} /\ handedOut = {} /\ stored = {} /\ safe = TRUE

(* The store is written with all work there is, or the write fails. *)
Write ==
    \/ stored' = waiting' \cup handedOut' /\ safe' = TRUE
    \/ UNCHANGED stored /\ safe' = FALSE

(* The planner decides anew what is to be done. *)
Plan ==
    /\ waiting' \in SUBSET Item
    /\ UNCHANGED <<handedOut, stored, safe>>

(* The plan is written without handing anything out. *)
Save ==
    /\ UNCHANGED <<waiting, handedOut>>
    /\ Write

(* Waiting items are handed out; one may wait on, planned a second time. *)
HandOut(items) ==
    /\ handedOut' = handedOut \cup items
    /\ waiting' \subseteq waiting /\ waiting = waiting' \cup items
    /\ Write

(* The transfer of an item has succeeded. *)
Acknowledge(item) ==
    /\ handedOut' = handedOut \ {item}
    /\ UNCHANGED <<waiting, stored, safe>>

(* Roots are gone, and with them all their work. *)
Evict(gone) ==
    /\ waiting' = {k \in waiting : k[1] \notin gone}
    /\ handedOut' = {k \in handedOut : k[1] \notin gone}
    /\ Write

(* The process dies and starts again. *)
Restart ==
    /\ waiting' \in {stored, {}}
    /\ handedOut' = {}
    /\ UNCHANGED <<stored, safe>>

Next ==
    \/ Plan \/ Save \/ Restart
    \/ \E items \in SUBSET waiting : HandOut(items)
    \/ \E item \in handedOut : Acknowledge(item)
    \/ \E gone \in SUBSET Roots : Evict(gone)

Spec == Init /\ [][Next]_vars
=============================================================================
