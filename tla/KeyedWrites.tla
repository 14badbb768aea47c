---------------------------- MODULE KeyedWrites ----------------------------
(***************************************************************************)
(* What a client key promises to a device that sends a write again until   *)
(* it is answered (the offline queue), without requests, tables or races.  *)
(*                                                                         *)
(* stored  <<key, row>> of every write that was accepted;                  *)
(* told    <<key, row>> of every answer that was given.                    *)
(*                                                                         *)
(* The promise: a key stores one row, once and for good, and whoever sends *)
(* the key is told of that row or of nothing.                              *)
(***************************************************************************)
VARIABLES stored, told

keyedVars == <<stored, told>>

Init == stored = {} /\ told = {}

\* A new key; the answer to it may be lost.
Write ==
    \E entry \in stored' :
        /\ \A old \in stored : old[1] # entry[1]
        /\ stored' = stored \cup {entry}
        /\ told' \in {told, told \cup {entry}}

Retry ==
    /\ \E entry \in stored : told' = told \cup {entry}
    /\ UNCHANGED stored

Next == Write \/ Retry

Spec == Init /\ [][Next]_keyedVars

=============================================================================
