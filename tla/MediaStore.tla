----------------------------- MODULE MediaStore -----------------------------
(***************************************************************************)
(* A medium is a row that holds its wrapped key and objects, encrypted     *)
(* under that key, in a store that knows nothing of the row.  An ingest    *)
(* writes the objects and then the row; the expiry job clears the key and  *)
(* then deletes the objects; readers and moderators come between.          *)
(*                                                                         *)
(* Which rows are due, the attach that makes a pending upload available    *)
(* and the block of a medium are the matter of CaseRetention and of        *)
(* Moderation: here any living row may be due, any pending one attached,   *)
(* any available one blocked.  Every upload has an owner with an account;  *)
(* an upload refused for its bytes leaves no trace.                        *)
(***************************************************************************)
EXTENDS Handlers

CONSTANTS
    Uploads     \* storage prefixes: a random one for each ingest

VARIABLES
    medium,     \* tb_media
    store,      \* the object of each prefix and variant
    expiring    \* the run of the media-expiry job

mediaVars == <<medium, store, expiring, rq>>

----------------------------------------------------------------------------

\* The thumbnail fares as the blurred one does.
Variants == {"normalized", "blur", "original"}
Living   == {"pending", "available", "blocked"}
ObjectState == {"absent", "under way", "there"}

\* keep: keep_original.  A row has its key until it is shredded.
MediaRow == [status : Living \cup {"none", "deleted"}, keep : BOOLEAN]
ObjectsOf(keep) == IF keep THEN Variants ELSE Variants \ {"original"}

MediaTypeOK ==
    /\ medium \in [Uploads -> MediaRow]
    /\ store \in [Uploads -> [Variants -> ObjectState]]
    /\ expiring.due \subseteq Uploads /\ expiring.pc \in {"idle", "shred", "delete"}

MediaInit ==
    /\ medium = [m \in Uploads |-> [status |-> "none", keep |-> FALSE]]
    /\ store = [m \in Uploads |-> [v \in Variants |-> "absent"]]
    /\ expiring = [pc |-> "idle", due |-> {}, at |-> None, left |-> {}]
    /\ HandlersInit

Restatus(m, status) == medium' = [medium EXCEPT ![m].status = status]

----------------------------------------------------------------------------
(* Ingest                                                                  *)

\* ingest: the objects are written side by side.
IngestBegin(r, m, keep) ==
    /\ medium[m].status = "none" /\ \A v \in Variants : store[m][v] = "absent"
    /\ \A s \in Reqs : rq[s].op = "ingest" => rq[s].medium # m
    /\ Begin(r, [op |-> "ingest", pc |-> "insert", medium |-> m, keep |-> keep])
    /\ store' = [store EXCEPT ![m] = [v \in Variants |->
                    IF v \in ObjectsOf(keep) THEN "under way" ELSE "absent"]]
    /\ UNCHANGED <<medium, expiring>>

\* put: it lands or it fails, whether its request is still there or not.
PutEnds(m, v) ==
    /\ store[m][v] = "under way"
    /\ \E o \in {"there", "absent"} : store' = [store EXCEPT ![m][v] = o]
    /\ UNCHANGED <<medium, expiring, rq>>

\* Mutated form: the puts are not waited for.
InsertMediaEarly(r) ==
    /\ At(r, "ingest", "insert")
    /\ medium' = [medium EXCEPT ![rq[r].medium] = [status |-> "pending", keep |-> rq[r].keep]]
    /\ Finish(r)
    /\ UNCHANGED <<store, expiring>>

\* insertMedia: after every put has landed; one that failed has ended the request.
InsertMedia(r) ==
    /\ At(r, "ingest", "insert")
    /\ \A v \in ObjectsOf(rq[r].keep) : store[rq[r].medium][v] = "there"
    /\ medium' = [medium EXCEPT ![rq[r].medium] = [status |-> "pending", keep |-> rq[r].keep]]
    /\ Finish(r)
    /\ UNCHANGED <<store, expiring>>

\* The attach of the owner's report; blockMedia, unblockMedia.
Elsewhere(m) ==
    /\ \/ medium[m].status = "pending" /\ Restatus(m, "available")
       \/ medium[m].status = "available" /\ Restatus(m, "blocked")
       \/ medium[m].status = "blocked" /\ Restatus(m, "available")
    /\ UNCHANGED <<store, expiring, rq>>

----------------------------------------------------------------------------
(* Reading                                                                 *)

\* openVariant: the uploader, of what is not blocked, and never the original.
\* openVariantForPanel: whatever has its key, the original if it was kept.
ReadBegin(r, m, from, v) ==
    /\ \/ from = "app" /\ medium[m].status \in {"pending", "available"} /\ v # "original"
       \/ from = "panel" /\ medium[m].status \in Living /\ (v = "original" => medium[m].keep)
    /\ Begin(r, [op |-> "read", pc |-> "open", medium |-> m, variant |-> v])
    /\ UNCHANGED <<medium, store, expiring>>

\* openMediaObject: 404 when the object is gone, bytes with the key that was read
\* otherwise, even of a medium shredded since.
OpenObject(r) ==
    /\ At(r, "read", "open")
    /\ IF store[rq[r].medium][rq[r].variant] = "there" THEN With(r, [pc |-> "served"]) ELSE Finish(r)
    /\ UNCHANGED <<medium, store, expiring>>

Served(r) == At(r, "read", "served") /\ Finish(r) /\ UNCHANGED <<medium, store, expiring>>

----------------------------------------------------------------------------
(* The expiry job, which holds a database lock                             *)

\* findExpired: a batch.
SelectDue(S) ==
    /\ expiring.pc = "idle" /\ S # {} /\ \A m \in S : medium[m].status \in Living
    /\ expiring' = [expiring EXCEPT !.pc = "shred", !.due = S]
    /\ UNCHANGED <<medium, store, rq>>

\* shred: the key first, which is the deletion.
Shred(m) ==
    /\ expiring.pc = "shred" /\ m \in expiring.due
    /\ Restatus(m, "deleted")
    /\ expiring' = [pc |-> "delete", due |-> expiring.due \ {m}, at |-> m,
                    left |-> ObjectsOf(medium[m].keep)]
    /\ UNCHANGED <<store, rq>>

\* delete: a failure is logged and not tried again.
DeleteObject(v) ==
    /\ expiring.pc = "delete" /\ v \in expiring.left
    /\ \E o \in {"absent", store[expiring.at][v]} : store' = [store EXCEPT ![expiring.at][v] = o]
    /\ expiring' = [expiring EXCEPT !.left = @ \ {v}]
    /\ UNCHANGED <<medium, rq>>

NextDue ==
    /\ \/ expiring.pc = "delete" /\ expiring.left = {}
       \/ expiring.pc = "shred" /\ expiring.due = {}
    /\ expiring' = [pc |-> IF expiring.due = {} THEN "idle" ELSE "shred", due |-> expiring.due,
                    at |-> None, left |-> {}]
    /\ UNCHANGED <<medium, store, rq>>

\* The process dies in the middle of a run.
RunDies == /\ expiring.pc # "idle"
           /\ expiring' = [pc |-> "idle", due |-> {}, at |-> None, left |-> {}]
           /\ UNCHANGED <<medium, store, rq>>

MediaNext ==
    \/ \E m \in Uploads : Elsewhere(m) \/ Shred(m) \/ \E v \in Variants : PutEnds(m, v)
    \/ \E S \in SUBSET Uploads : SelectDue(S)
    \/ \E v \in Variants : DeleteObject(v)
    \/ NextDue \/ RunDies
    \/ \E r \in Reqs :
        \/ \E m \in Uploads, keep \in BOOLEAN : IngestBegin(r, m, keep)
        \/ \E m \in Uploads, from \in {"app", "panel"}, v \in Variants : ReadBegin(r, m, from, v)
        \/ InsertMedia(r) \/ OpenObject(r) \/ Served(r)
        \/ GivesUp(r) /\ UNCHANGED <<medium, store, expiring>>

MediaSpec == MediaInit /\ [][MediaNext]_mediaVars

----------------------------------------------------------------------------
(* Properties                                                              *)

\* Two stores without a transaction between them: whatever dies half-way, a medium
\* whose row still holds its key has all its objects, so that evidence on record can be
\* read.  (The converse does not hold: an ingest or a job run that dies leaves objects
\* that nothing lists any more, ciphertext without a key.)
LivingRowHasItsObjects ==
    \A m \in Uploads : medium[m].status \in Living =>
        \A v \in ObjectsOf(medium[m].keep) : store[m][v] = "there"

=============================================================================
