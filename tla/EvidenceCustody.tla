-------------------------- MODULE EvidenceCustody --------------------------
(***************************************************************************)
(* What the platform promises about a piece of evidence, without requests, *)
(* jobs or rows.                                                           *)
(*                                                                         *)
(* life    "absent", "loose" (uploaded, in no case), "kept", "gone";       *)
(* holders the cases a medium is in;                                       *)
(* over    the cases resolved long enough ago to be destroyed;             *)
(* late    the media put in a case only after their own time as loose      *)
(*         uploads was up.                                                 *)
(*                                                                         *)
(* The promise: a medium enters one case, once; it is destroyed loose, or  *)
(* with a case whose retention is over, and never comes back.  Evidence    *)
(* attached in time thus outlives the retention of its case.               *)
(***************************************************************************)
CONSTANTS Media, Cases
VARIABLES life, holders, over, late

custodyVars == <<life, holders, over, late>>

Init ==
    /\ life = [m \in Media |-> "absent"]
    /\ holders = [m \in Media |-> {}]
    /\ over = {}
    /\ late = {}

Upload(m) ==
    /\ life[m] = "absent"
    /\ life' = [life EXCEPT ![m] = "loose"]
    /\ UNCHANGED <<holders, over, late>>

Enter(m, c) ==
    /\ life[m] = "loose"
    /\ c \notin over
    /\ life' = [life EXCEPT ![m] = "kept"]
    /\ holders' = [holders EXCEPT ![m] = {c}]
    /\ late' \in {late, late \cup {m}}
    /\ UNCHANGED over

Destroy(m) ==
    /\ life[m] \in {"loose", "kept"}
    /\ life[m] = "loose" \/ holders[m] \subseteq over \/ m \in late
    /\ life' = [life EXCEPT ![m] = "gone"]
    /\ UNCHANGED <<holders, over, late>>

RetentionEnds ==
    /\ over \subseteq over' /\ over' \subseteq Cases
    /\ UNCHANGED <<life, holders, late>>

Next ==
    \/ RetentionEnds
    \/ \E m \in Media : Upload(m) \/ Destroy(m) \/ \E c \in Cases : Enter(m, c)

Spec == Init /\ [][Next]_custodyVars

=============================================================================
