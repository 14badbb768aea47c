----------------------------- MODULE DeskProofs -----------------------------
(***************************************************************************)
(* The desk and the store, for any number of moderators, uploads, reports, *)
(* sightings and requests: the trail of moderation, the media rows and     *)
(* their objects, what a reader of a case is shown, the lists and          *)
(* statistics of the panel, and the direction picked from the sums.        *)
(*                                                                         *)
(* The components share no table, hence no invariant.                      *)
(***************************************************************************)
EXTENDS MediaStore, Moderation, ReportViews, ReportLists, DirectionSightings, FiniteSetTheorems,
        WellFoundedInduction, TLAPS

----------------------------------------------------------------------------
(* MediaStore: a row with its key has its objects                          *)

\* An upload in flight belongs to one request and has no row; the expiry job deletes the
\* objects of rows whose key it has put away.

MediaRequest ==
    {Idle}
    \cup [op : {"ingest"}, pc : {"insert"}, medium : Uploads, keep : BOOLEAN]
    \cup [op : {"read"}, pc : {"open", "served"}, medium : Uploads, variant : Variants]

ExpiryRun ==
    [pc : {"idle", "shred"}, due : SUBSET Uploads, at : {None}, left : {{}}]
    \cup [pc : {"delete"}, due : SUBSET Uploads, at : Uploads, left : SUBSET Variants]

MediaTyped ==
    /\ MediaTypeOK
    /\ expiring \in ExpiryRun
    /\ rq \in [Reqs -> MediaRequest]

\* An upload being ingested is nobody else's, and has no row yet.
IngestAlone ==
    /\ \A r \in Reqs : rq[r].op = "ingest" =>
          rq[r].medium \in Uploads /\ medium[rq[r].medium].status = "none"
    /\ \A r, s \in Reqs :
          rq[r].op = "ingest" /\ rq[s].op = "ingest" /\ rq[r].medium = rq[s].medium => r = s

\* The job only has rows in hand, and deletes the objects of a row without its key.
JobHasRows ==
    /\ \A m \in expiring.due : medium[m].status # "none"
    /\ expiring.pc = "delete" => expiring.at \in Uploads /\ medium[expiring.at].status = "deleted"

MediaInv == MediaTyped /\ IngestAlone /\ JobHasRows /\ LivingRowHasItsObjects

LEMMA MediaInit_Inv == MediaInit => MediaInv
BY DEF MediaInit, HandlersInit, Idle, MediaInv, MediaTyped, MediaTypeOK, MediaRequest, MediaRow,
       ExpiryRun, Living, Variants, ObjectState, IngestAlone, JobHasRows, LivingRowHasItsObjects

LEMMA Objects == \A keep \in BOOLEAN : ObjectsOf(keep) \subseteq Variants
BY DEF ObjectsOf

LEMMA MediaTyping ==
    ASSUME MediaTyped, [MediaNext]_mediaVars
    PROVE  MediaTyped'
<1>1. medium' \in [Uploads -> MediaRow]
  <2>1. ASSUME NEW m \in Uploads, NEW status \in Living \cup {"deleted"}, Restatus(m, status)
        PROVE  medium' \in [Uploads -> MediaRow]
    BY <2>1 DEF Restatus, MediaTyped, MediaTypeOK, MediaRow
  <2>2. ASSUME NEW r \in Reqs, InsertMedia(r) PROVE medium' \in [Uploads -> MediaRow]
    <3>1. rq[r].medium \in Uploads /\ rq[r].keep \in BOOLEAN
      BY <2>2 DEF InsertMedia, At, MediaTyped, MediaRequest, Idle
    <3>2. QED
      BY <2>2, <3>1 DEF InsertMedia, MediaTyped, MediaTypeOK, MediaRow, Living
  <2>3. CASE UNCHANGED medium
    BY <2>3 DEF MediaTyped, MediaTypeOK
  <2>4. {"pending", "available", "blocked", "deleted"} \subseteq Living \cup {"deleted"}
    BY DEF Living
  <2>5. QED
    BY <2>1, <2>2, <2>3, <2>4 DEF MediaNext, mediaVars, Elsewhere, Shred, PutEnds, SelectDue,
       DeleteObject, NextDue, RunDies, IngestBegin, ReadBegin, OpenObject, Served
<1>2. store' \in [Uploads -> [Variants -> ObjectState]]
  <2> USE DEF MediaTyped, MediaTypeOK, ObjectState
  <2>1. ASSUME NEW m \in Uploads, NEW v \in Variants, PutEnds(m, v)
        PROVE  store' \in [Uploads -> [Variants -> ObjectState]]
    <3>1. PICK o \in ObjectState : store' = [store EXCEPT ![m] = [store[m] EXCEPT ![v] = o]]
      BY <2>1 DEF PutEnds
    <3>2. QED
      BY <3>1
  <2>2. ASSUME NEW v \in Variants, DeleteObject(v)
        PROVE  store' \in [Uploads -> [Variants -> ObjectState]]
    <3>1. PICK at \in Uploads : expiring.at = at
      BY <2>2 DEF DeleteObject, ExpiryRun
    <3>2. store[at][v] \in ObjectState
      BY <3>1
    <3>3. PICK o \in {"absent", store[at][v]} : store' = [store EXCEPT ![at][v] = o]
      BY <2>2, <3>1 DEF DeleteObject
    <3>4. o \in ObjectState /\ store' = [store EXCEPT ![at] = [store[at] EXCEPT ![v] = o]]
      BY <3>1, <3>2, <3>3
    <3>5. QED
      BY <3>4
  <2>3. ASSUME NEW r \in Reqs, NEW m \in Uploads, NEW keep \in BOOLEAN, IngestBegin(r, m, keep)
        PROVE  store' \in [Uploads -> [Variants -> ObjectState]]
    BY <2>3 DEF IngestBegin
  <2>4. CASE UNCHANGED store
    BY <2>4
  <2> HIDE DEF MediaTyped, MediaTypeOK, ObjectState
  <2>5. QED
    BY <2>1, <2>2, <2>3, <2>4 DEF MediaNext, mediaVars, Elsewhere, Shred, SelectDue, NextDue,
       RunDies, ReadBegin, InsertMedia, OpenObject, Served
<1>3. expiring' \in ExpiryRun
  <2> USE DEF MediaTyped, ExpiryRun
  <2>1. ASSUME NEW m \in Uploads, Shred(m) PROVE expiring' \in ExpiryRun
    <3>1. medium[m].keep \in BOOLEAN
      BY DEF MediaTypeOK, MediaRow
    <3>2. QED
      BY <2>1, <3>1, Objects DEF Shred
  <2>2. ASSUME NEW S \in SUBSET Uploads, SelectDue(S) PROVE expiring' \in ExpiryRun
    BY <2>2 DEF SelectDue
  <2>3. ASSUME NEW v \in Variants, DeleteObject(v) PROVE expiring' \in ExpiryRun
    BY <2>3 DEF DeleteObject
  <2>4. ASSUME NextDue \/ RunDies PROVE expiring' \in ExpiryRun
    BY <2>4 DEF NextDue, RunDies
  <2>5. CASE UNCHANGED expiring
    BY <2>5
  <2> HIDE DEF MediaTyped, ExpiryRun
  <2>6. QED
    BY <2>1, <2>2, <2>3, <2>4, <2>5 DEF MediaNext, mediaVars, Elsewhere, PutEnds, IngestBegin,
       ReadBegin, InsertMedia, OpenObject, Served
<1>4. rq' \in [Reqs -> MediaRequest]
  <2>0. rq \in [Reqs -> MediaRequest]
    BY DEF MediaTyped
  <2>1. ASSUME NEW r \in Reqs, NEW m \in Uploads, NEW keep \in BOOLEAN, IngestBegin(r, m, keep)
        PROVE  rq' \in [Reqs -> MediaRequest]
    BY <2>0, <2>1 DEF IngestBegin, Begin, MediaRequest
  <2>2. ASSUME NEW r \in Reqs, NEW m \in Uploads, NEW from \in {"app", "panel"},
               NEW v \in Variants,
               ReadBegin(r, m, from, v)
        PROVE  rq' \in [Reqs -> MediaRequest]
    BY <2>0, <2>2 DEF ReadBegin, Begin, MediaRequest
  <2>3. ASSUME NEW r \in Reqs, At(r, "read", "open"), With(r, [pc |-> "served"])
        PROVE  rq' \in [Reqs -> MediaRequest]
    BY <2>0, <2>3 DEF With, At, MediaRequest, Idle
  <2>4. ASSUME NEW r \in Reqs, Finish(r) PROVE rq' \in [Reqs -> MediaRequest]
    BY <2>0, <2>4 DEF Finish, MediaRequest
  <2>5. CASE UNCHANGED rq
    BY <2>0, <2>5
  <2>6. QED
    BY <2>1, <2>2, <2>3, <2>4, <2>5
       DEF MediaNext, mediaVars, Elsewhere, Shred, PutEnds, SelectDue,
       DeleteObject, NextDue, RunDies, InsertMedia, OpenObject, Served, GivesUp
<1>5. expiring'.due \subseteq Uploads /\ expiring'.pc \in {"idle", "shred", "delete"}
  BY <1>3 DEF ExpiryRun
<1>6. QED
  BY <1>1, <1>2, <1>3, <1>4, <1>5 DEF MediaTyped, MediaTypeOK

\* What a step does to the requests, as the ingests see it.
IngestsKept == \A r \in Reqs : rq'[r].op = "ingest" => rq'[r] = rq[r]

LEMMA MediaRequestsKept ==
    ASSUME rq \in [Reqs -> MediaRequest], [MediaNext]_mediaVars
    PROVE  \/ IngestsKept
           \/ \E r \in Reqs, m \in Uploads, keep \in BOOLEAN : IngestBegin(r, m, keep)
<1>1. ASSUME NEW r \in Reqs, NEW m \in Uploads, NEW from \in {"app", "panel"}, NEW v \in Variants,
             ReadBegin(r, m, from, v)
      PROVE  IngestsKept
  BY <1>1 DEF ReadBegin, Begin, IngestsKept
<1>2. ASSUME NEW r \in Reqs, At(r, "read", "open"), With(r, [pc |-> "served"]) PROVE IngestsKept
  BY <1>2 DEF With, At, MediaRequest, Idle, IngestsKept
<1>3. ASSUME NEW r \in Reqs, Finish(r) PROVE IngestsKept
  BY <1>3 DEF Finish, Idle, IngestsKept
<1>4. CASE UNCHANGED rq
  BY <1>4 DEF IngestsKept
<1>5. QED
  BY <1>1, <1>2, <1>3, <1>4 DEF MediaNext, mediaVars, Elsewhere, Shred, PutEnds, SelectDue,
     DeleteObject, NextDue, RunDies, InsertMedia, OpenObject, Served, GivesUp

\* A step puts the key of no row away but in the job, and gives one in InsertMedia only.
LEMMA StorageKeysStay ==
    ASSUME MediaTyped, IngestAlone, JobHasRows, [MediaNext]_mediaVars
    PROVE  \/ \E r \in Reqs : InsertMedia(r)
           \/ \A m \in Uploads : /\ medium[m].status = "none" => medium'[m].status = "none"
                                 /\ medium[m].status # "none" => medium'[m].status # "none"
                                 /\ medium[m].status = "deleted" => medium'[m].status = "deleted"
<1> DEFINE Kept == \A m \in Uploads : /\ medium[m].status = "none" => medium'[m].status = "none"
                                      /\ medium[m].status # "none" => medium'[m].status # "none"
                                      /\ medium[m].status = "deleted" => medium'[m].status = "deleted"
<1>1. ASSUME NEW m \in Uploads, Elsewhere(m) PROVE Kept
  BY <1>1 DEF Elsewhere, Restatus, MediaTyped, MediaTypeOK, MediaRow
<1>2. ASSUME NEW m \in Uploads, Shred(m) PROVE Kept
  BY <1>2 DEF Shred, Restatus, MediaTyped, MediaTypeOK, MediaRow, JobHasRows
<1>3. CASE UNCHANGED medium
  BY <1>3
<1>4. QED
  BY <1>1, <1>2, <1>3
     DEF MediaNext, mediaVars, PutEnds, SelectDue, DeleteObject, NextDue, RunDies,
     IngestBegin, ReadBegin, OpenObject, Served

LEMMA IngestStep ==
    ASSUME MediaTyped, IngestAlone, JobHasRows, [MediaNext]_mediaVars
    PROVE  IngestAlone'
<1>1. ASSUME NEW r \in Reqs, NEW m \in Uploads, NEW keep \in BOOLEAN, IngestBegin(r, m, keep)
      PROVE  IngestAlone'
  BY <1>1 DEF IngestBegin, Begin, IngestAlone, MediaTyped
<1>2. ASSUME NEW r \in Reqs, InsertMedia(r) PROVE IngestAlone'
  BY <1>2 DEF InsertMedia, At, Finish, Idle, IngestAlone, MediaTyped, MediaTypeOK
<1>3. ASSUME IngestsKept,
             \A m \in Uploads : medium[m].status = "none" => medium'[m].status = "none"
      PROVE  IngestAlone'
  BY <1>3 DEF IngestsKept, IngestAlone
<1>4. QED
  BY <1>1, <1>2, <1>3, MediaRequestsKept, StorageKeysStay DEF MediaTyped

LEMMA JobStep ==
    ASSUME MediaTyped, IngestAlone, JobHasRows, [MediaNext]_mediaVars
    PROVE  JobHasRows'
<1>1. ASSUME NEW m \in Uploads, Shred(m) PROVE JobHasRows'
  BY <1>1 DEF Shred, Restatus, JobHasRows, MediaTyped, MediaTypeOK, MediaRow
<1>2. ASSUME NEW S \in SUBSET Uploads, SelectDue(S) PROVE JobHasRows'
  BY <1>2 DEF SelectDue, Living, JobHasRows, MediaTyped, ExpiryRun
<1>3. ASSUME NEW v \in Variants, DeleteObject(v) PROVE JobHasRows'
  BY <1>3 DEF DeleteObject, JobHasRows, MediaTyped, ExpiryRun
<1>4. ASSUME NextDue \/ RunDies PROVE JobHasRows'
  BY <1>4 DEF NextDue, RunDies, JobHasRows
<1>5. ASSUME NEW r \in Reqs, InsertMedia(r) PROVE JobHasRows'
  BY <1>5 DEF InsertMedia, At, IngestAlone, JobHasRows, MediaTyped, MediaTypeOK
<1>6. ASSUME UNCHANGED expiring,
             \A m \in Uploads : /\ medium[m].status # "none" => medium'[m].status # "none"
                                /\ medium[m].status = "deleted" => medium'[m].status = "deleted"
      PROVE  JobHasRows'
  BY <1>6 DEF JobHasRows, MediaTyped, MediaTypeOK
<1>7. QED
  BY <1>1, <1>2, <1>3, <1>4, <1>5, <1>6, StorageKeysStay DEF MediaNext, mediaVars, Elsewhere, PutEnds,
     IngestBegin, ReadBegin, OpenObject, Served

LEMMA RowStep ==
    ASSUME MediaInv, [MediaNext]_mediaVars
    PROVE  LivingRowHasItsObjects'
<1> USE DEF MediaInv, MediaTyped, MediaTypeOK
<1>1. ASSUME NEW m \in Uploads, Elsewhere(m) PROVE LivingRowHasItsObjects'
  BY <1>1 DEF Elsewhere, Restatus, Living, MediaRow, LivingRowHasItsObjects
<1>2. ASSUME NEW m \in Uploads, Shred(m) PROVE LivingRowHasItsObjects'
  BY <1>2 DEF Shred, Restatus, Living, MediaRow, LivingRowHasItsObjects
<1>3. CASE UNCHANGED <<medium, store>>
  BY <1>3 DEF LivingRowHasItsObjects
<1>4. ASSUME NEW m \in Uploads, NEW v \in Variants, PutEnds(m, v) PROVE LivingRowHasItsObjects'
  <2>1. \A x \in Uploads, w \in Variants : store[x][w] = "there" => store'[x][w] = "there"
    BY <1>4 DEF PutEnds
  <2>2. medium' = medium
    BY <1>4 DEF PutEnds
  <2>3. QED
    BY <2>1, <2>2, Objects DEF MediaRow, LivingRowHasItsObjects
<1>5. ASSUME NEW v \in Variants, DeleteObject(v) PROVE LivingRowHasItsObjects'
  <2>1. PICK at \in Uploads : expiring.at = at /\ medium[at].status = "deleted"
    BY <1>5 DEF DeleteObject, JobHasRows
  <2>2. \A m \in Uploads \ {at} : store'[m] = store[m]
    BY <1>5, <2>1 DEF DeleteObject
  <2>3. medium' = medium
    BY <1>5 DEF DeleteObject
  <2>4. QED
    BY <2>1, <2>2, <2>3 DEF Living, LivingRowHasItsObjects
<1>6. ASSUME NEW r \in Reqs, NEW m \in Uploads, NEW keep \in BOOLEAN, IngestBegin(r, m, keep)
      PROVE  LivingRowHasItsObjects'
  BY <1>6 DEF IngestBegin, Living, LivingRowHasItsObjects
<1>7. ASSUME NEW r \in Reqs, InsertMedia(r) PROVE LivingRowHasItsObjects'
  <2>1. PICK m \in Uploads : rq[r].medium = m
    BY <1>7 DEF InsertMedia, At, IngestAlone
  <2>2. QED
    BY <1>7, <2>1 DEF InsertMedia, LivingRowHasItsObjects
<1> HIDE DEF MediaInv, MediaTyped, MediaTypeOK
<1>8. QED
  BY <1>1, <1>2, <1>3, <1>4, <1>5, <1>6, <1>7
  DEF MediaNext, mediaVars, SelectDue, NextDue, RunDies, ReadBegin, OpenObject, Served

\* A media row that has its key has its objects, although rows and objects are two stores
\* without a transaction and both ingest and job may die at any await (ingest,
\* runMediaExpiry).
THEOREM KeyMeansObjects == MediaSpec => [](MediaTypeOK /\ LivingRowHasItsObjects)
<1>1. MediaInv /\ [MediaNext]_mediaVars => MediaInv'
  BY MediaTyping, IngestStep, JobStep, RowStep DEF MediaInv
<1>2. MediaInv => MediaTypeOK /\ LivingRowHasItsObjects
  BY DEF MediaInv, MediaTyped
<1>3. QED
  BY MediaInit_Inv, <1>1, <1>2, PTL DEF MediaSpec

----------------------------------------------------------------------------
(* Moderation: the trail adds up to the row                                *)

\* The rows of the trail and the acts about to write theirs are counted together: sets less
\* clears of a flag are the flag, and whom the row names has a row or is about to.

Acting == [op : {"act"}, pc : {"update", "answer"}, who : Moderators, act : Acts]
ModerationRequest == {Idle} \cup Acting

\* The rows of the trail and the acts about to write one.
Written(act) == Noted(act) + InHand(act)
RowsOf(act) == {x \in Moderators \X (1 .. MaxActs) : x[2] <= auditRows[x[1]][act]}
HandsOn(act) == {r \in Reqs : At(r, "act", "answer") /\ rq[r].act = act}
Doing(who, act) == {r \in Reqs : rq[r].op = "act" /\ rq[r].who = who /\ rq[r].act = act}

ModerationTyped == ModerationTypeOK /\ rq \in [Reqs -> ModerationRequest]

\* Room in the trail is kept for the acts under way.
RoomKept ==
    \A who \in Moderators, act \in Acts : auditRows[who][act] + Busy(who, act) <= MaxActs

SumsUp ==
    /\ "hidden" \notin unnoted => Written("hide") - Written("unhide") = IF flag["hidden"] THEN 1 ELSE 0
    /\ "blocked" \notin unnoted => Written("block") - Written("unblock") = IF flag["blocked"] THEN 1 ELSE 0
    /\ "reviewed" \notin unnoted => Written("review") = IF flag["reviewed"] THEN 1 ELSE 0

\* Whom the row names has a row in the trail, or is about to, for an act on that flag.
Accounted ==
    \A f \in Flags \ unnoted : by[f] # None =>
        \/ \E act \in Acts : FlagOf(act) = f /\ auditRows[by[f]][act] > 0
        \/ \E r \in Reqs : rq[r] \in Acting /\ rq[r].pc = "answer" /\ rq[r].who = by[f] /\ FlagOf(rq[r].act) = f

ModerationInv == ModerationTyped /\ RoomKept /\ SumsUp /\ Accounted

LEMMA ActsAre ==
    /\ Acts = {"hide", "unhide", "block", "unblock", "review"}
    /\ DOMAIN Sets = {"hide", "block", "review"} /\ DOMAIN Clears = {"unhide", "unblock"}
    /\ FlagOf("hide") = "hidden" /\ FlagOf("unhide") = "hidden"
    /\ FlagOf("block") = "blocked" /\ FlagOf("unblock") = "blocked"
    /\ FlagOf("review") = "reviewed"
    /\ \A act \in Acts : FlagOf(act) \in Flags
<1>1. DOMAIN Sets = {"hide", "block", "review"} /\ DOMAIN Clears = {"unhide", "unblock"}
  BY DEF Sets, Clears
<1>2. Acts = {"hide", "unhide", "block", "unblock", "review"}
  BY <1>1 DEF Acts
<1>3. /\ FlagOf("hide") = "hidden" /\ FlagOf("unhide") = "hidden"
      /\ FlagOf("block") = "blocked" /\ FlagOf("unblock") = "blocked"
      /\ FlagOf("review") = "reviewed"
  BY <1>1 DEF FlagOf, Sets, Clears
<1>4. QED
  BY <1>1, <1>2, <1>3 DEF Flags

LEMMA ActingShape ==
    /\ \A q \in Acting : q.op = "act" /\ q.pc \in {"update", "answer"} /\ q.who \in Moderators /\ q.act \in Acts
    /\ Idle.op = "idle" /\ Idle.pc = "idle" /\ Idle \notin Acting
BY DEF Acting, Idle

LEMMA ModerationSizes == IsFiniteSet(Reqs) /\ IsFiniteSet(Moderators \X (1 .. MaxActs)) /\ MaxActs \in Nat
<1>1. MaxActs \in Nat /\ IsFiniteSet(Moderators) /\ IsFiniteSet(Reqs)
  BY HandlersAssumption, ModerationAssumption
<1>2. IsFiniteSet(1 .. MaxActs)
  BY <1>1, FS_Interval
<1>3. QED
  BY <1>1, <1>2, FS_Product

\* One element more or less.
LEMMA CountMoves ==
    ASSUME NEW S, IsFiniteSet(S), NEW P \in SUBSET S, NEW Q \in SUBSET S, NEW e \in S,
           \A x \in S : x # e => (x \in P <=> x \in Q)
    PROVE  /\ Cardinality(P) \in Nat /\ Cardinality(Q) \in Nat
           /\ e \notin P /\ e \in Q => Cardinality(Q) = Cardinality(P) + 1
           /\ e \in P /\ e \notin Q => Cardinality(Q) = Cardinality(P) - 1
           /\ (e \in P <=> e \in Q) => Cardinality(Q) = Cardinality(P)
<1>1. IsFiniteSet(P) /\ IsFiniteSet(Q)
  BY FS_Subset
<1>2. Cardinality(P) \in Nat /\ Cardinality(Q) \in Nat
  BY <1>1, FS_CardinalityType
<1>3. ASSUME e \notin P, e \in Q PROVE Cardinality(Q) = Cardinality(P) + 1
  <2>1. Q = P \cup {e}
    BY <1>3
  <2>2. QED
    BY <1>1, <1>3, <2>1, FS_AddElement
<1>4. ASSUME e \in P, e \notin Q PROVE Cardinality(Q) = Cardinality(P) - 1
  <2>1. Q = P \ {e}
    BY <1>4
  <2>2. QED
    BY <1>1, <1>4, <2>1, FS_RemoveElement
<1>5. ASSUME e \in P <=> e \in Q PROVE Cardinality(Q) = Cardinality(P)
  <2>1. Q = P
    BY <1>5
  <2>2. QED
    BY <2>1
<1>6. QED
  BY <1>2, <1>3, <1>4, <1>5

LEMMA WrittenIs ==
    /\ \A act : Noted(act) = Cardinality(RowsOf(act)) /\ InHand(act) = Cardinality(HandsOn(act))
    /\ \A act : Noted(act) \in Nat /\ InHand(act) \in Nat /\ Written(act) \in Nat
<1>1. ASSUME NEW act
      PROVE  Noted(act) = Cardinality(RowsOf(act)) /\ InHand(act) = Cardinality(HandsOn(act))
  BY DEF Noted, InHand, RowsOf, HandsOn
<1>2. ASSUME NEW act
      PROVE  Cardinality(RowsOf(act)) \in Nat /\ Cardinality(HandsOn(act)) \in Nat
  <2>1. RowsOf(act) \in SUBSET (Moderators \X (1 .. MaxActs)) /\ HandsOn(act) \in SUBSET Reqs
    BY DEF RowsOf, HandsOn
  <2>2. IsFiniteSet(RowsOf(act)) /\ IsFiniteSet(HandsOn(act))
    BY <2>1, ModerationSizes, FS_Subset
  <2>3. QED
    BY <2>2, FS_CardinalityType
<1>3. QED
  BY <1>1, <1>2 DEF Written

\* Whatever the flag, Done is what is written of the one act that sets or clears it.
LEMMA DoneIs ==
    /\ Done("hidden", Sets) = Written("hide") /\ Done("hidden", Clears) = Written("unhide")
    /\ Done("blocked", Sets) = Written("block") /\ Done("blocked", Clears) = Written("unblock")
    /\ Done("reviewed", Sets) = Written("review") /\ Done("reviewed", Clears) = 0
<1>1. /\ {a \in DOMAIN Sets : Sets[a] = "hidden"} = {"hide"}
      /\ {a \in DOMAIN Sets : Sets[a] = "blocked"} = {"block"}
      /\ {a \in DOMAIN Sets : Sets[a] = "reviewed"} = {"review"}
      /\ {a \in DOMAIN Clears : Clears[a] = "hidden"} = {"unhide"}
      /\ {a \in DOMAIN Clears : Clears[a] = "blocked"} = {"unblock"}
      /\ {a \in DOMAIN Clears : Clears[a] = "reviewed"} = {}
  BY DEF Sets, Clears
<1>2. \A a : (CHOOSE x \in {a} : TRUE) = a
  OBVIOUS
<1>3. \A a : {a} # {}
  OBVIOUS
<1>4. /\ Done("hidden", Sets) = Written("hide") /\ Done("hidden", Clears) = Written("unhide")
  BY <1>1, <1>2, <1>3 DEF Done, Written
<1>5. /\ Done("blocked", Sets) = Written("block") /\ Done("blocked", Clears) = Written("unblock")
  BY <1>1, <1>2, <1>3 DEF Done, Written
<1>6. /\ Done("reviewed", Sets) = Written("review") /\ Done("reviewed", Clears) = 0
  BY <1>1, <1>2, <1>3 DEF Done, Written
<1>7. QED
  BY <1>4, <1>5, <1>6

LEMMA ModerationMeans == ASSUME ModerationInv PROVE ModerationTypeOK /\ TrailAddsUp
<1>1. \A f \in Flags \ unnoted : Done(f, Sets) - Done(f, Clears) = IF flag[f] THEN 1 ELSE 0
  <2>1. Written("review") - 0 = Written("review")
    BY WrittenIs
  <2>2. QED
    BY <2>1, DoneIs DEF ModerationInv, SumsUp, Flags
<1>2. \A f \in Flags \ unnoted : by[f] # None =>
         \/ \E act \in Acts : FlagOf(act) = f /\ auditRows[by[f]][act] > 0
         \/ \E r \in Reqs : At(r, "act", "answer") /\ rq[r].who = by[f]
  BY ActingShape DEF ModerationInv, Accounted, At
<1>3. QED
  BY <1>1, <1>2 DEF TrailAddsUp, ModerationInv, ModerationTyped

LEMMA ModerationStart == ASSUME ModerationInit PROVE ModerationInv
<1>1. /\ flag = [f \in Flags |-> FALSE] /\ by = [f \in Flags |-> None]
      /\ auditRows = [who \in Moderators |-> [act \in Acts |-> 0]] /\ unnoted = {}
      /\ rq = [r \in Reqs |-> Idle] /\ wiped = [case |-> FALSE, medium |-> FALSE]
  BY DEF ModerationInit, HandlersInit
<1>2. ModerationTyped
  BY <1>1, ModerationSizes DEF ModerationTyped, ModerationTypeOK, ModerationRequest
<1>3. \A act \in Acts : RowsOf(act) = {} /\ HandsOn(act) = {}
  <2>1. ASSUME NEW act \in Acts, NEW x \in Moderators \X (1 .. MaxActs)
        PROVE  ~ (x[2] <= auditRows[x[1]][act])
    BY <1>1, ModerationSizes
  <2>2. QED
    BY <1>1, <2>1, ActingShape DEF RowsOf, HandsOn, At
<1>4. \A act \in Acts : Written(act) = 0
  BY <1>3, WrittenIs, FS_EmptySet DEF Written
<1>5. RoomKept
  <2>1. \A who \in Moderators, act \in Acts : Doing(who, act) = {} /\ auditRows[who][act] = 0
    BY <1>1, ActingShape DEF Doing
  <2>2. \A who \in Moderators, act \in Acts : Busy(who, act) = 0
    BY <2>1, FS_EmptySet DEF Busy, Doing
  <2>3. QED
    BY <2>1, <2>2, ModerationSizes DEF RoomKept
<1>6. SumsUp
  BY <1>1, <1>4, ActsAre DEF SumsUp, Flags
<1>7. Accounted
  BY <1>1 DEF Accounted
<1>8. QED
  BY <1>2, <1>5, <1>6, <1>7 DEF ModerationInv

\* What a slot that moves does to the counts.
LEMMA HandsMove ==
    ASSUME ModerationTyped, NEW r \in Reqs, NEW q \in ModerationRequest,
           rq' = [rq EXCEPT ![r] = q]
    PROVE  /\ \A act : /\ r \notin HandsOn(act) /\ q.pc = "answer" /\ q.act = act => InHand(act)' = InHand(act) + 1
                       /\ r \in HandsOn(act) /\ q.pc # "answer" => InHand(act)' = InHand(act) - 1
                       /\ r \notin HandsOn(act) /\ ~(q.pc = "answer" /\ q.act = act) => InHand(act)' = InHand(act)
<1>1. rq'[r] = q /\ \A s \in Reqs : s # r => rq'[s] = rq[s]
  BY DEF ModerationTyped
<1>2. q.pc = "answer" => q.op = "act"
  BY ActingShape DEF ModerationRequest
<1>3. ASSUME NEW act
      PROVE  /\ r \notin HandsOn(act) /\ q.pc = "answer" /\ q.act = act => InHand(act)' = InHand(act) + 1
             /\ r \in HandsOn(act) /\ q.pc # "answer" => InHand(act)' = InHand(act) - 1
             /\ r \notin HandsOn(act) /\ ~(q.pc = "answer" /\ q.act = act) => InHand(act)' = InHand(act)
  <2>1. PICK P, Q : P = HandsOn(act) /\ Q = HandsOn(act)'
    OBVIOUS
  <2>2. /\ P \in SUBSET Reqs /\ Q \in SUBSET Reqs /\ \A x \in Reqs : x # r => (x \in P <=> x \in Q)
        /\ (r \in Q <=> (q.pc = "answer" /\ q.act = act))
    BY <1>1, <1>2, <2>1 DEF HandsOn, At
  <2>3. InHand(act) = Cardinality(P) /\ InHand(act)' = Cardinality(Q)
    BY <2>1 DEF InHand, HandsOn
  <2>4. QED
    BY <2>1, <2>2, <2>3, CountMoves, ModerationSizes
<1>4. QED
  BY <1>3

LEMMA BusyIs == ASSUME NEW who, NEW act PROVE Busy(who, act) \in Nat
<1>1. Doing(who, act) \in SUBSET Reqs
  BY DEF Doing
<1>2. Cardinality(Doing(who, act)) \in Nat
  BY <1>1, ModerationSizes, FS_Subset, FS_CardinalityType
<1>3. QED
  BY <1>2 DEF Busy, Doing

LEMMA BusyMoves ==
    ASSUME NEW r \in Reqs, \A s \in Reqs : s # r => rq'[s] = rq[s], NEW who, NEW act
    PROVE  /\ (r \notin Doing(who, act) /\ r \in Doing(who, act)') => Busy(who, act)' = Busy(who, act) + 1
           /\ (r \in Doing(who, act) /\ r \notin Doing(who, act)') => Busy(who, act)' = Busy(who, act) - 1
           /\ (r \in Doing(who, act) <=> r \in Doing(who, act)') => Busy(who, act)' = Busy(who, act)
           /\ Busy(who, act)' \in Nat
<1>1. PICK P, Q : P = Doing(who, act) /\ Q = Doing(who, act)'
  OBVIOUS
<1>2. P \in SUBSET Reqs /\ Q \in SUBSET Reqs /\ \A x \in Reqs : x # r => (x \in P <=> x \in Q)
  BY <1>1 DEF Doing
<1>3. Busy(who, act) = Cardinality(P) /\ Busy(who, act)' = Cardinality(Q)
  BY <1>1 DEF Busy, Doing
<1>4. QED
  BY <1>1, <1>2, <1>3, CountMoves, ModerationSizes

\* A row is written.
LEMMA RowWritten ==
    ASSUME ModerationTyped, NEW who \in Moderators, NEW act \in Acts,
           auditRows[who][act] < MaxActs,
           auditRows' = [auditRows EXCEPT ![who][act] = @ + 1]
    PROVE  /\ auditRows' \in [Moderators -> [Acts -> 0 .. MaxActs]]
           /\ auditRows'[who][act] = auditRows[who][act] + 1
           /\ \A w \in Moderators, b \in Acts : w # who \/ b # act => auditRows'[w][b] = auditRows[w][b]
           /\ Noted(act)' = Noted(act) + 1 /\ \A b \in Acts : b # act => Noted(b)' = Noted(b)
<1>1. auditRows \in [Moderators -> [Acts -> 0 .. MaxActs]] /\ MaxActs \in Nat
  BY ModerationSizes DEF ModerationTyped, ModerationTypeOK
<1>2. PICK n \in 0 .. MaxActs : n = auditRows[who][act] /\ n < MaxActs
  BY <1>1
<1>3. n + 1 \in 0 .. MaxActs /\ n + 1 \in 1 .. MaxActs
  BY <1>1, <1>2
<1>4. PICK rows : rows = [auditRows[who] EXCEPT ![act] = n + 1]
  OBVIOUS
<1>5. rows \in [Acts -> 0 .. MaxActs] /\ rows[act] = n + 1 /\ \A b \in Acts : b # act => rows[b] = auditRows[who][b]
  BY <1>1, <1>3, <1>4
<1>6. auditRows' = [auditRows EXCEPT ![who] = rows]
  BY <1>2, <1>4
<1>7. /\ auditRows' \in [Moderators -> [Acts -> 0 .. MaxActs]] /\ auditRows'[who][act] = n + 1
      /\ \A w \in Moderators, b \in Acts : w # who \/ b # act => auditRows'[w][b] = auditRows[w][b]
  BY <1>1, <1>5, <1>6
<1>8. Noted(act)' = Noted(act) + 1
  <2>1. PICK P, Q : P = RowsOf(act) /\ Q = RowsOf(act)'
    OBVIOUS
  <2>2. /\ <<who, n + 1>> \in Moderators \X (1 .. MaxActs) /\ <<who, n + 1>> \notin P
        /\ <<who, n + 1>> \in Q
    BY <1>1, <1>2, <1>3, <1>7, <2>1 DEF RowsOf
  <2>3. P \in SUBSET (Moderators \X (1 .. MaxActs)) /\ Q \in SUBSET (Moderators \X (1 .. MaxActs))
    BY <2>1 DEF RowsOf
  <2>4. ASSUME NEW x \in Moderators \X (1 .. MaxActs), x # <<who, n + 1>>
        PROVE  x \in P <=> x \in Q
    <3>1. PICK w \in Moderators, k \in 1 .. MaxActs : w = x[1] /\ k = x[2] /\ (w # who \/ k # n + 1)
      BY <2>4
    <3>2. /\ x \in P <=> k <= auditRows[w][act]
          /\ x \in Q <=> k <= auditRows'[w][act]
      BY <2>1, <3>1 DEF RowsOf
    <3>3. CASE w # who
      BY <1>7, <3>2, <3>3
    <3>4. CASE w = who
      BY <1>1, <1>2, <1>7, <3>1, <3>2, <3>4
    <3>5. QED
      BY <3>3, <3>4
  <2>5. Noted(act) = Cardinality(P) /\ Noted(act)' = Cardinality(Q)
    BY <2>1 DEF Noted, RowsOf
  <2>6. QED
    BY <2>2, <2>3, <2>4, <2>5, CountMoves, ModerationSizes
<1>9. ASSUME NEW b \in Acts, b # act PROVE Noted(b)' = Noted(b)
  <2>1. \A x \in Moderators \X (1 .. MaxActs) : auditRows'[x[1]][b] = auditRows[x[1]][b]
    BY <1>7, <1>9
  <2>2. {x \in Moderators \X (1 .. MaxActs) : x[2] <= auditRows'[x[1]][b]}
          = {x \in Moderators \X (1 .. MaxActs) : x[2] <= auditRows[x[1]][b]}
    BY <2>1
  <2>3. QED
    BY <2>2 DEF Noted
<1>10. QED
  BY <1>2, <1>7, <1>8, <1>9
\* No act begins, answers or has its row counted.
LEMMA ModerationJobs == ASSUME ModerationInv, UNCHANGED <<flag, by, auditRows, unnoted, rq>>,
                               wiped' \in [case : BOOLEAN, medium : BOOLEAN]
                        PROVE  ModerationInv'
<1>1. ModerationTyped'
  BY DEF ModerationInv, ModerationTyped, ModerationTypeOK
<1>2. \A act : Written(act)' = Written(act)
  BY DEF Written, Noted, InHand, At
<1>3. SumsUp'
  BY <1>2 DEF ModerationInv, SumsUp
<1>4. RoomKept'
  BY DEF ModerationInv, RoomKept, Busy
<1>5. Accounted'
  BY DEF ModerationInv, Accounted
<1>6. QED
  BY <1>1, <1>3, <1>4, <1>5 DEF ModerationInv

LEMMA ModerationBegin ==
    ASSUME ModerationInv, NEW r \in Reqs, NEW who \in Moderators, NEW act \in Acts,
           ActBegin(r, who, act)
    PROVE  ModerationInv'
<1>1. /\ ModerationTyped /\ rq \in [Reqs -> ModerationRequest]
      /\ auditRows \in [Moderators -> [Acts -> 0 .. MaxActs]]
  BY DEF ModerationInv, ModerationTyped, ModerationTypeOK
<1>2. PICK q : q = [op |-> "act", pc |-> "update", who |-> who, act |-> act]
  OBVIOUS
<1>3. /\ rq' = [rq EXCEPT ![r] = q] /\ rq[r].op = "idle"
      /\ UNCHANGED <<flag, by, wiped, auditRows, unnoted>>
      /\ auditRows[who][act] + Busy(who, act) < MaxActs
  BY <1>2 DEF ActBegin, Begin
<1>4. /\ q \in Acting /\ q \in ModerationRequest /\ q.pc = "update" /\ q.op = "act"
      /\ q.who = who /\ q.act = act
  BY <1>2 DEF Acting, ModerationRequest
<1>5. rq'[r] = q /\ \A s \in Reqs : s # r => rq'[s] = rq[s]
  BY <1>1, <1>3
<1>6. ModerationTyped'
  BY <1>1, <1>3, <1>4 DEF ModerationTyped, ModerationTypeOK
<1>7. \A b : r \notin HandsOn(b)
  BY <1>3 DEF HandsOn, At
<1>8. \A w, b : r \notin Doing(w, b)
  BY <1>3 DEF Doing
<1>9. \A b : InHand(b)' = InHand(b)
  BY <1>1, <1>3, <1>4, <1>7, HandsMove
<1>10. \A b : Noted(b)' = Noted(b)
  BY <1>3 DEF Noted
<1>11. SumsUp'
  BY <1>3, <1>9, <1>10 DEF ModerationInv, SumsUp, Written
<1>12. RoomKept'
  <2>1. ASSUME NEW w \in Moderators, NEW b \in Acts
        PROVE  auditRows[w][b] + Busy(w, b)' <= MaxActs
    <3>1. auditRows[w][b] \in Nat /\ Busy(w, b) \in Nat /\ MaxActs \in Nat
      BY <1>1, BusyIs, ModerationSizes
    <3>2. CASE w = who /\ b = act
      <4>1. r \notin Doing(w, b) /\ r \in Doing(w, b)'
        BY <1>3, <1>4, <1>5, <3>2 DEF Doing
      <4>2. Busy(w, b)' = Busy(w, b) + 1
        BY <1>5, <4>1, BusyMoves
      <4>3. QED
        BY <1>3, <3>1, <3>2, <4>2
    <3>3. CASE ~(w = who /\ b = act)
      <4>0. r \notin Doing(w, b) /\ r \notin Doing(w, b)'
        BY <1>3, <1>4, <1>5, <3>3 DEF Doing
      <4>1. Busy(w, b)' = Busy(w, b)
        BY <1>5, <4>0, BusyMoves
      <4>2. auditRows[w][b] + Busy(w, b) <= MaxActs
        BY DEF ModerationInv, RoomKept
      <4>3. QED
        BY <4>1, <4>2
    <3>4. QED
      BY <3>2, <3>3
  <2>2. QED
    BY <1>3, <2>1 DEF RoomKept
<1>13. Accounted'
  <2>1. \A s \in Reqs : rq[s] \in Acting => rq'[s] = rq[s]
    BY <1>3, <1>5, ActingShape
  <2>2. QED
    BY <1>3, <2>1 DEF ModerationInv, Accounted
<1>14. QED
  BY <1>6, <1>11, <1>12, <1>13 DEF ModerationInv

LEMMA ModerationUpdate == ASSUME ModerationInv, NEW r \in Reqs, ActUpdate(r) PROVE ModerationInv'
<1>1. /\ ModerationTyped /\ rq \in [Reqs -> ModerationRequest] /\ flag \in [Flags -> BOOLEAN]
      /\ by \in [Flags -> Moderators \cup {None}]
  BY DEF ModerationInv, ModerationTyped, ModerationTypeOK
<1>2. rq[r].op = "act" /\ rq[r].pc = "update" /\ rq[r] \in Acting
  BY <1>1, ActingShape DEF ActUpdate, At, ModerationRequest
<1>3. PICK who \in Moderators, act \in Acts : who = rq[r].who /\ act = rq[r].act
  BY <1>2, ActingShape
<1>4. PICK f \in Flags : f = FlagOf(act)
  BY ActsAre
<1>5. PICK q : q = [rq[r] EXCEPT !.pc = "answer"]
  OBVIOUS
<1>6. /\ flag[f] = (act \in DOMAIN Clears)
      /\ flag' = [flag EXCEPT ![f] = act \in DOMAIN Sets]
      /\ by' = [by EXCEPT ![f] = IF act \in DOMAIN Sets THEN who ELSE None]
      /\ rq' = [rq EXCEPT ![r] = q]
      /\ UNCHANGED <<wiped, auditRows, unnoted>>
  BY <1>3, <1>4, <1>5 DEF ActUpdate, Moves, Goto, Expects
<1>7. /\ q \in Acting /\ q \in ModerationRequest /\ q.pc = "answer" /\ q.op = "act"
      /\ q.who = who /\ q.act = act
  BY <1>2, <1>3, <1>5 DEF Acting, ModerationRequest
<1>8. rq'[r] = q /\ \A s \in Reqs : s # r => rq'[s] = rq[s]
  BY <1>1, <1>6
<1>9. ModerationTyped'
  <2>1. flag' \in [Flags -> BOOLEAN] /\ by' \in [Flags -> Moderators \cup {None}]
    BY <1>1, <1>6
  <2>2. rq' \in [Reqs -> ModerationRequest]
    BY <1>1, <1>6, <1>7
  <2>3. QED
    BY <1>1, <1>6, <2>1, <2>2 DEF ModerationTyped, ModerationTypeOK
<1>10. \A b : r \notin HandsOn(b)
  BY <1>2 DEF HandsOn, At
<1>11. InHand(act)' = InHand(act) + 1 /\ \A b : b # act => InHand(b)' = InHand(b)
  BY <1>1, <1>6, <1>7, <1>10, HandsMove
<1>12. \A b : Noted(b)' = Noted(b)
  BY <1>6 DEF Noted
<1>13. Written(act)' = Written(act) + 1 /\ \A b : b # act => Written(b)' = Written(b)
  BY <1>11, <1>12, WrittenIs DEF Written
<1>14. /\ act \in DOMAIN Sets => flag[f] = FALSE /\ flag'[f] = TRUE
       /\ act \in DOMAIN Clears => flag[f] = TRUE /\ flag'[f] = FALSE
       /\ \A g \in Flags : g # f => flag'[g] = flag[g] /\ by'[g] = by[g]
  <2>1. /\ act \in DOMAIN Sets => act \notin DOMAIN Clears
        /\ act \in DOMAIN Clears => act \notin DOMAIN Sets
    BY ActsAre
  <2>2. ASSUME act \in DOMAIN Sets PROVE flag[f] = FALSE /\ flag'[f] = TRUE
    BY <1>1, <1>6, <2>1, <2>2
  <2>3. ASSUME act \in DOMAIN Clears PROVE flag[f] = TRUE /\ flag'[f] = FALSE
    <3>1. (act \in DOMAIN Clears) = TRUE /\ (act \in DOMAIN Sets) = FALSE
      BY <2>1, <2>3
    <3>2. flag' = [flag EXCEPT ![f] = FALSE]
      BY <1>6, <3>1, Zenon
    <3>3. flag[f] = TRUE
      BY <1>6, <3>1, Zenon
    <3>4. QED
      BY <1>1, <3>2, <3>3
  <2>4. \A g \in Flags : g # f => flag'[g] = flag[g]
    BY <1>1, <1>6
  <2>5. \A g \in Flags : g # f => by'[g] = by[g]
    BY <1>1, <1>6
  <2>6. QED
    BY <2>2, <2>3, <2>4, <2>5
<1>15. SumsUp'
  <2>1. /\ Written("hide") \in Nat /\ Written("unhide") \in Nat /\ Written("block") \in Nat
        /\ Written("unblock") \in Nat /\ Written("review") \in Nat
    BY WrittenIs
  <2>2. CASE act = "hide"
    BY <1>4, <1>6, <1>13, <1>14, <2>1, <2>2, ActsAre DEF ModerationInv, SumsUp, Flags
  <2>3. CASE act = "unhide"
    BY <1>4, <1>6, <1>13, <1>14, <2>1, <2>3, ActsAre DEF ModerationInv, SumsUp, Flags
  <2>4. CASE act = "block"
    BY <1>4, <1>6, <1>13, <1>14, <2>1, <2>4, ActsAre DEF ModerationInv, SumsUp, Flags
  <2>5. CASE act = "unblock"
    BY <1>4, <1>6, <1>13, <1>14, <2>1, <2>5, ActsAre DEF ModerationInv, SumsUp, Flags
  <2>6. CASE act = "review"
    BY <1>4, <1>6, <1>13, <1>14, <2>1, <2>6, ActsAre DEF ModerationInv, SumsUp, Flags
  <2>7. QED
    BY <2>2, <2>3, <2>4, <2>5, <2>6, ActsAre
<1>16. RoomKept'
  <2>1. \A w, b : r \in Doing(w, b) <=> (q.op = "act" /\ q.who = w /\ q.act = b)
    BY <1>2, <1>3, <1>7 DEF Doing
  <2>2. ASSUME NEW w, NEW b PROVE Busy(w, b)' = Busy(w, b)
    <3>1. r \in Doing(w, b) <=> r \in Doing(w, b)'
      BY <1>2, <1>3, <1>7, <1>8 DEF Doing
    <3>2. QED
      BY <1>8, <3>1, BusyMoves
  <2>3. QED
    BY <1>6, <2>2 DEF ModerationInv, RoomKept
<1>17. Accounted'
  <2>1. \A s \in Reqs : rq[s] \in Acting /\ rq[s].pc = "answer" => rq'[s] = rq[s]
    BY <1>2, <1>8
  <2>2. by'[f] # None => by'[f] = who
    BY <1>1, <1>6
  <2>3. ASSUME NEW g \in Flags \ unnoted, by'[g] # None
        PROVE  \/ \E b \in Acts : FlagOf(b) = g /\ auditRows[by'[g]][b] > 0
               \/ \E s \in Reqs : rq'[s] \in Acting /\ rq'[s].pc = "answer" /\ rq'[s].who = by'[g] /\ FlagOf(rq'[s].act) = g
    <3>1. CASE g = f
      BY <1>4, <1>7, <1>8, <2>2, <2>3, <3>1
    <3>2. CASE g # f
      <4>1. by'[g] = by[g] /\ by[g] # None
        BY <1>14, <2>3, <3>2
      <4>2. QED
        BY <2>1, <4>1 DEF ModerationInv, Accounted
    <3>3. QED
      BY <3>1, <3>2
  <2>4. QED
    BY <1>6, <2>3 DEF Accounted, FlagOf
<1>18. QED
  BY <1>9, <1>15, <1>16, <1>17 DEF ModerationInv

LEMMA ModerationAnswer == ASSUME ModerationInv, NEW r \in Reqs, ActAnswer(r) PROVE ModerationInv'
<1>1. /\ ModerationTyped /\ rq \in [Reqs -> ModerationRequest]
      /\ auditRows \in [Moderators -> [Acts -> 0 .. MaxActs]]
      /\ by \in [Flags -> Moderators \cup {None}]
  BY DEF ModerationInv, ModerationTyped, ModerationTypeOK
<1>2. rq[r].op = "act" /\ rq[r].pc = "answer" /\ rq[r] \in Acting
  BY <1>1, ActingShape DEF ActAnswer, At, ModerationRequest
<1>3. PICK who \in Moderators, act \in Acts : who = rq[r].who /\ act = rq[r].act
  BY <1>2, ActingShape
<1>4. /\ auditRows' = [auditRows EXCEPT ![who][act] = @ + 1]
      /\ rq' = [rq EXCEPT ![r] = Idle] /\ UNCHANGED <<flag, by, wiped, unnoted>>
  BY <1>3 DEF ActAnswer, Finish
<1>5. Idle \in ModerationRequest /\ Idle.op # "act" /\ Idle.pc # "answer"
  BY ActingShape DEF ModerationRequest
<1>6. rq'[r] = Idle /\ \A s \in Reqs : s # r => rq'[s] = rq[s]
  BY <1>1, <1>4
<1>7. \A b : r \in HandsOn(b) <=> b = act
  BY <1>2, <1>3 DEF HandsOn, At
<1>8. \A w, b : r \in Doing(w, b) <=> (w = who /\ b = act)
  BY <1>2, <1>3 DEF Doing
<1>9. auditRows[who][act] < MaxActs
  <2>1. auditRows[who][act] + Busy(who, act) <= MaxActs
    BY DEF ModerationInv, RoomKept
  <2>2. r \in Doing(who, act) /\ r \notin Doing(who, act)'
    BY <1>5, <1>6, <1>8 DEF Doing
  <2>3. Busy(who, act)' = Busy(who, act) - 1 /\ Busy(who, act)' \in Nat /\ Busy(who, act) \in Nat
    BY <1>6, <2>2, BusyMoves, BusyIs
  <2>4. auditRows[who][act] \in Nat /\ MaxActs \in Nat
    BY <1>1, ModerationSizes
  <2>5. QED
    BY <2>1, <2>2, <2>3, <2>4
<1>10. /\ auditRows' \in [Moderators -> [Acts -> 0 .. MaxActs]]
       /\ auditRows'[who][act] = auditRows[who][act] + 1
       /\ \A w \in Moderators, b \in Acts : w # who \/ b # act => auditRows'[w][b] = auditRows[w][b]
       /\ Noted(act)' = Noted(act) + 1 /\ \A b \in Acts : b # act => Noted(b)' = Noted(b)
  BY <1>1, <1>4, <1>9, RowWritten
<1>11. ModerationTyped'
  BY <1>1, <1>4, <1>5, <1>10 DEF ModerationTyped, ModerationTypeOK
<1>12. InHand(act)' = InHand(act) - 1 /\ \A b : b # act => InHand(b)' = InHand(b)
  BY <1>1, <1>4, <1>5, <1>7, HandsMove
<1>13. \A b \in Acts : Written(b)' = Written(b)
  BY <1>10, <1>12, WrittenIs DEF Written
<1>14. SumsUp'
  BY <1>4, <1>13, ActsAre DEF ModerationInv, SumsUp
<1>15. RoomKept'
  <2>1. ASSUME NEW w \in Moderators, NEW b \in Acts
        PROVE  auditRows'[w][b] + Busy(w, b)' <= MaxActs
    <3>1. /\ auditRows[w][b] \in Nat /\ Busy(w, b) \in Nat /\ MaxActs \in Nat
          /\ auditRows[w][b] + Busy(w, b) <= MaxActs
      BY <1>1, BusyIs, ModerationSizes DEF ModerationInv, RoomKept
    <3>2. CASE w = who /\ b = act
      <4>0. r \in Doing(w, b) /\ r \notin Doing(w, b)'
        BY <1>5, <1>6, <1>8, <3>2 DEF Doing
      <4>1. Busy(w, b)' = Busy(w, b) - 1
        BY <1>6, <4>0, BusyMoves
      <4>2. QED
        BY <1>10, <3>1, <3>2, <4>1
    <3>3. CASE ~(w = who /\ b = act)
      <4>0. r \notin Doing(w, b) /\ r \notin Doing(w, b)'
        BY <1>2, <1>3, <1>5, <1>6, <3>3 DEF Doing
      <4>1. Busy(w, b)' = Busy(w, b)
        BY <1>6, <4>0, BusyMoves
      <4>2. QED
        BY <1>10, <3>1, <3>3, <4>1
    <3>4. QED
      BY <3>2, <3>3
  <2>2. QED
    BY <2>1 DEF RoomKept
<1>16. Accounted'
  <2>1. \A w \in Moderators, b \in Acts : auditRows[w][b] > 0 => auditRows'[w][b] > 0
    BY <1>1, <1>10
  <2>2. ASSUME NEW g \in Flags \ unnoted, by[g] # None
        PROVE  \/ \E b \in Acts : FlagOf(b) = g /\ auditRows'[by[g]][b] > 0
               \/ \E s \in Reqs : rq'[s] \in Acting /\ rq'[s].pc = "answer" /\ rq'[s].who = by[g] /\ FlagOf(rq'[s].act) = g
    <3>1. by[g] \in Moderators
      BY <1>1, <2>2
    <3>2. CASE \E b \in Acts : FlagOf(b) = g /\ auditRows[by[g]][b] > 0
      BY <2>1, <3>1, <3>2
    <3>3. CASE \E s \in Reqs : rq[s] \in Acting /\ rq[s].pc = "answer" /\ rq[s].who = by[g] /\ FlagOf(rq[s].act) = g
      <4>1. PICK s \in Reqs : rq[s] \in Acting /\ rq[s].pc = "answer" /\ rq[s].who = by[g] /\ FlagOf(rq[s].act) = g
        BY <3>3
      <4>2. CASE s = r
        <5>1. auditRows'[who][act] > 0
          BY <1>1, <1>10
        <5>2. by[g] = who /\ FlagOf(act) = g
          BY <1>3, <4>1, <4>2
        <5>3. QED
          BY <5>1, <5>2
      <4>3. CASE s # r
        <5>1. rq'[s] = rq[s]
          BY <1>6, <4>3
        <5>2. QED
          BY <4>1, <5>1
      <4>4. QED
        BY <4>2, <4>3
    <3>4. QED
      BY <2>2, <3>2, <3>3 DEF ModerationInv, Accounted
  <2>3. QED
    BY <1>4, <2>2 DEF Accounted, FlagOf
<1>17. QED
  BY <1>11, <1>14, <1>15, <1>16 DEF ModerationInv

LEMMA ModerationEnds == ASSUME ModerationInv, NEW r \in Reqs, ActEnds(r) PROVE ModerationInv'
<1>1. /\ ModerationTyped /\ rq \in [Reqs -> ModerationRequest] /\ unnoted \subseteq Flags
      /\ auditRows \in [Moderators -> [Acts -> 0 .. MaxActs]]
  BY DEF ModerationInv, ModerationTyped, ModerationTypeOK
<1>2. rq[r] \in Acting
  BY <1>1, ActingShape DEF ActEnds, GivesUp, ModerationRequest
<1>3. PICK act \in Acts : act = rq[r].act
  BY <1>2, ActingShape
<1>4. /\ rq' = [rq EXCEPT ![r] = Idle] /\ UNCHANGED <<flag, by, wiped, auditRows>>
      /\ unnoted' = IF rq[r].pc = "answer" THEN unnoted \cup {FlagOf(act)} ELSE unnoted
  BY <1>3 DEF ActEnds, GivesUp, Finish
<1>5. Idle \in ModerationRequest /\ Idle.op # "act" /\ Idle.pc # "answer"
  BY ActingShape DEF ModerationRequest
<1>6. rq'[r] = Idle /\ \A s \in Reqs : s # r => rq'[s] = rq[s]
  BY <1>1, <1>4
<1>7. ModerationTyped'
  BY <1>1, <1>4, <1>5, ActsAre DEF ModerationTyped, ModerationTypeOK
<1>8. \A b : Noted(b)' = Noted(b)
  BY <1>4 DEF Noted
<1>9. \A b : r \in HandsOn(b) => b = act /\ rq[r].pc = "answer"
  BY <1>3 DEF HandsOn, At
<1>10. \A b : b # act \/ rq[r].pc # "answer" => InHand(b)' = InHand(b)
  BY <1>1, <1>4, <1>5, <1>9, HandsMove
<1>11. \A b : b # act \/ rq[r].pc # "answer" => Written(b)' = Written(b)
  BY <1>8, <1>10 DEF Written
<1>12. SumsUp'
  <2>1. \A b \in Acts : FlagOf(b) \notin unnoted' => Written(b)' = Written(b) /\ FlagOf(b) \notin unnoted
    BY <1>4, <1>11
  <2>2. /\ "hidden" \notin unnoted' => /\ "hidden" \notin unnoted
                                       /\ Written("hide")' = Written("hide")
                                       /\ Written("unhide")' = Written("unhide")
        /\ "blocked" \notin unnoted' => /\ "blocked" \notin unnoted
                                        /\ Written("block")' = Written("block")
                                        /\ Written("unblock")' = Written("unblock")
        /\ "reviewed" \notin unnoted' => "reviewed" \notin unnoted /\ Written("review")' = Written("review")
    BY <2>1, ActsAre
  <2>3. QED
    BY <1>4, <2>2 DEF ModerationInv, SumsUp
<1>13. RoomKept'
  <2>1. ASSUME NEW w \in Moderators, NEW b \in Acts
        PROVE  auditRows[w][b] + Busy(w, b)' <= MaxActs
    <3>1. /\ auditRows[w][b] \in Nat /\ Busy(w, b) \in Nat /\ MaxActs \in Nat
          /\ auditRows[w][b] + Busy(w, b) <= MaxActs
      BY <1>1, BusyIs, ModerationSizes DEF ModerationInv, RoomKept
    <3>2. Busy(w, b)' \in {Busy(w, b), Busy(w, b) - 1}
      <4>1. r \notin Doing(w, b)'
        BY <1>5, <1>6 DEF Doing
      <4>2. QED
        BY <1>6, <4>1, BusyMoves
    <3>3. QED
      BY <3>1, <3>2
  <2>2. QED
    BY <1>4, <2>1 DEF RoomKept
<1>14. Accounted'
  <2>1. ASSUME NEW g \in Flags \ unnoted', by[g] # None
        PROVE  \/ \E b \in Acts : FlagOf(b) = g /\ auditRows[by[g]][b] > 0
               \/ \E s \in Reqs : rq'[s] \in Acting /\ rq'[s].pc = "answer" /\ rq'[s].who = by[g] /\ FlagOf(rq'[s].act) = g
    <3>1. g \notin unnoted /\ (rq[r].pc = "answer" => FlagOf(rq[r].act) # g)
      BY <1>3, <1>4, <2>1
    <3>2. CASE \E b \in Acts : FlagOf(b) = g /\ auditRows[by[g]][b] > 0
      BY <3>2
    <3>3. CASE \E s \in Reqs : rq[s] \in Acting /\ rq[s].pc = "answer" /\ rq[s].who = by[g] /\ FlagOf(rq[s].act) = g
      <4>1. PICK s \in Reqs : rq[s] \in Acting /\ rq[s].pc = "answer" /\ rq[s].who = by[g] /\ FlagOf(rq[s].act) = g
        BY <3>3
      <4>2. s # r /\ rq'[s] = rq[s]
        BY <1>6, <3>1, <4>1
      <4>3. QED
        BY <4>1, <4>2
    <3>4. QED
      BY <2>1, <3>1, <3>2, <3>3 DEF ModerationInv, Accounted
  <2>2. QED
    BY <1>4, <2>1 DEF Accounted, FlagOf
<1>15. QED
  BY <1>7, <1>12, <1>13, <1>14 DEF ModerationInv

LEMMA ModerationStep == ASSUME ModerationInv, [ModerationNext]_moderationVars PROVE ModerationInv'
<1>1. wiped \in [case : BOOLEAN, medium : BOOLEAN]
  BY DEF ModerationInv, ModerationTyped, ModerationTypeOK
<1>2. CASE WipeCase \/ WipeMedium
  <2>1. wiped' \in [case : BOOLEAN, medium : BOOLEAN]
    BY <1>1, <1>2 DEF WipeCase, WipeMedium
  <2>2. UNCHANGED <<flag, by, auditRows, unnoted, rq>>
    BY <1>2 DEF WipeCase, WipeMedium
  <2>3. QED
    BY <2>1, <2>2, ModerationJobs
<1>3. ASSUME NEW r \in Reqs, NEW who \in Moderators, NEW act \in Acts, ActBegin(r, who, act)
      PROVE  ModerationInv'
  BY <1>3, ModerationBegin
<1>4. ASSUME NEW r \in Reqs, ActUpdate(r) \/ ActAnswer(r) \/ ActEnds(r) PROVE ModerationInv'
  BY <1>4, ModerationUpdate, ModerationAnswer, ModerationEnds
<1>5. CASE UNCHANGED moderationVars
  BY <1>1, <1>5, ModerationJobs DEF moderationVars
<1>6. QED
  BY <1>2, <1>3, <1>4, <1>5 DEF ModerationNext

\* For any number of moderators and overlapping acts, the acts in the trail and those about to
\* be audited add up to the flag of the row, and the person the row names is in the trail
\* (hideReport, unhideReport, markReviewed, blockMedia, unblockMedia).
THEOREM TrailMatchesRow == ModerationSpec => [](ModerationTypeOK /\ TrailAddsUp)
<1>1. ModerationInit => ModerationInv
  BY ModerationStart
<1>2. ModerationInv /\ [ModerationNext]_moderationVars => ModerationInv'
  BY ModerationStep
<1>3. ModerationInv => ModerationTypeOK /\ TrailAddsUp
  BY ModerationMeans
<1>4. QED
  BY <1>1, <1>2, <1>3, PTL DEF ModerationSpec

----------------------------------------------------------------------------
(* ReportViews: nothing shown that was not visible                         *)

\* What a request saw of the case stays in its span, so that what it was once entitled to
\* show it may show to its end. Where it stands, it relies on the row it read first, on the
\* tier and the offer it read after, and on the checks it passed.

Parts == {"timeline", "media", "offers"}
DetailRequest ==
    [op : {"view"}, pc : {"tier", "offer", "access", "chat", "photos", "names", "answered"},
     viewer : Viewers \ {"panel"}, row : Dossier, tier : {"none", "low", "high"}, mine : BOOLEAN,
     span : SUBSET Dossier, answer : SUBSET Fields]
BytesRequest ==
    [op : {"stream"}, pc : {"media", "offer", "tier", "open", "answered"},
     viewer : Viewers \ {"panel"}, row : Dossier, tier : {"none", "low", "high"}, mine : BOOLEAN,
     span : SUBSET Dossier, answer : SUBSET Fields]
PanelRequest ==
    [op : {"panel"}, pc : {"tier", "reads", "answered"}, viewer : {"panel"}, span : SUBSET Dossier,
     answer : SUBSET PanelFields, left : SUBSET Parts]
PositionRequest ==
    [op : {"position"}, pc : {"answered"}, viewer : {"panel"}, span : SUBSET Dossier, answer : SUBSET PanelFields]
EvidenceRequest ==
    [op : {"evidence"}, pc : {"threads", "words", "answered"}, viewer : {"panel"}, span : SUBSET Dossier,
     answer : SUBSET PanelFields]
FeedRequest ==
    [op : {"feed"}, pc : {"tier", "direction", "answered"}, viewer : {"anyone"}, span : SUBSET Dossier,
     answer : SUBSET Fields]
ReadRequest == DetailRequest \cup BytesRequest \cup PanelRequest \cup PositionRequest \cup EvidenceRequest \cup FeedRequest

\* What was so at some moment of a request.
Involved(q)  == q.viewer = "owner" \/ \E d \in q.span : HasOffer(d, q.viewer)
Alive(q)     == \E d \in q.span : ~d.purged
Public(q)    == \E d \in q.span : d.status = "open" /\ ~d.hidden /\ ~d.purged
Summed(q)    == \E d \in q.span : d.status = "resolved" /\ ~d.hidden /\ ~d.purged
Lenient(q)   == \E d \in q.span : d.tier # "high"
Was(q, p)    == \E d \in q.span : d.photo = p
Helped(q)    == \E d \in q.span, h \in ViewHelpers : HasOffer(d, h)
Named(q)     == \E d \in q.span, h \in ViewHelpers : d.offer[h] = "named"
TeamReads(q) == q.viewer = "panel" /\ Alive(q)

\* The fields a request may show.
Allowed(q, x) ==
    /\ x \in {"mark", "chat", "own"} => Involved(q)
    /\ x = "exact" => Involved(q) \/ (TeamReads(q) /\ q.op = "position")
    /\ x = "words" => TeamReads(q) /\ q.op = "evidence"
    /\ x = "helper" => Helped(q)
    /\ x = "trail" => (Involved(q) \/ TeamReads(q)) /\ Alive(q)
    /\ x \in {"degraded", "direction", "photo", "blur", "sharp"} => Involved(q) \/ TeamReads(q) \/ Public(q)
    /\ x = "summary" => Summed(q)
    /\ x \in {"photo", "blur", "sharp"} => Was(q, "available")
    /\ x = "held" => TeamReads(q) /\ Was(q, "blocked")
    /\ x = "sharp" => Involved(q) \/ Lenient(q)
    /\ x = "name" => (TeamReads(q) \/ (q.viewer = "owner" /\ Lenient(q))) /\ Named(q)

\* What a request relies on where it stands.
Stands(q) ==
    /\ q.op \in {"view", "stream"} =>
          /\ q.row \in q.span /\ ~q.row.purged
          /\ q.tier # "none" => \E d \in q.span : d.tier = q.tier
          /\ q.mine = TRUE => Involved(q)
    /\ q.op = "view" =>
          /\ q.pc # "tier" => q.tier # "none"
          /\ q.pc = "chat" => Involved(q)
          /\ q.pc = "photos" => Involved(q) \/ Public(q)
          /\ q.pc = "names" => q.viewer = "owner"
    /\ q.op = "stream" =>
          /\ q.pc \in {"offer", "tier", "open"} => Was(q, "available")
          /\ q.pc = "tier" => Public(q)
          /\ q.pc = "open" => Involved(q) \/ (Public(q) /\ q.tier # "none")
    /\ q.op = "panel" => (q.pc \in {"tier", "reads"} => Alive(q))
    /\ q.op = "feed" => Public(q)

Entitled(q) == q \in ReadRequest /\ Stands(q) /\ \A x \in q.answer : Allowed(q, x)

EntitledReads == {q \in ReadRequest : Entitled(q)}

ViewsInv ==
    /\ dossier \in Dossier /\ (dossier.purged => dossier.status = "resolved")
    /\ DOMAIN rq = Reqs /\ rq = [r \in Reqs |-> rq[r]]
    /\ \A r \in Reqs : rq[r] = Idle \/ (rq[r] \in EntitledReads /\ dossier \in rq[r].span)

LEMMA ReadsAre ==
    ASSUME NEW q, Entitled(q)
    PROVE  /\ q.op \in Looks /\ q.op # "idle" /\ q \in ReadRequest /\ q.span \in SUBSET Dossier /\ q.viewer \in Viewers
           /\ q.answer \subseteq IF q.viewer = "panel" THEN PanelFields ELSE Fields
           /\ q.op = "view" => q \in DetailRequest
           /\ q.op = "stream" => q \in BytesRequest
           /\ q.op = "panel" => q \in PanelRequest
           /\ q.op = "position" => q \in PositionRequest
           /\ q.op = "evidence" => q \in EvidenceRequest
           /\ q.op = "feed" => q \in FeedRequest
<1>1. q \in ReadRequest
  BY DEF Entitled
<1>2. CASE q \in DetailRequest
  BY <1>2 DEF DetailRequest, ReadRequest, Looks, Viewers
<1>3. CASE q \in BytesRequest
  BY <1>3 DEF BytesRequest, ReadRequest, Looks, Viewers
<1>4. CASE q \in PanelRequest
  BY <1>4 DEF PanelRequest, ReadRequest, Looks, Viewers
<1>5. CASE q \in PositionRequest
  BY <1>5 DEF PositionRequest, ReadRequest, Looks, Viewers
<1>6. CASE q \in EvidenceRequest
  BY <1>6 DEF EvidenceRequest, ReadRequest, Looks, Viewers
<1>7. CASE q \in FeedRequest
  BY <1>7 DEF FeedRequest, ReadRequest, Looks, Viewers
<1>8. QED
  BY <1>1, <1>2, <1>3, <1>4, <1>5, <1>6, <1>7 DEF ReadRequest

LEMMA ViewsMean == ASSUME ViewsInv PROVE ViewsTypeOK /\ OnlyWhatWasVisible
<1>1. ASSUME NEW r \in Reqs, rq[r].op # "idle" PROVE Entitled(rq[r])
  BY <1>1 DEF ViewsInv, Idle, EntitledReads
<1>2. ViewsTypeOK
  BY <1>1, ReadsAre DEF ViewsTypeOK, ViewsInv
<1>3. ASSUME NEW r \in Reqs, rq[r].op \in Looks, NEW x \in rq[r].answer PROVE Allowed(rq[r], x)
  BY <1>1, <1>3 DEF Looks, Entitled
<1>4. OnlyWhatWasVisible
  BY <1>3
     DEF OnlyWhatWasVisible, Allowed, Involved, Alive, Public, Summed, Lenient, Was, Helped,
         Named, TeamReads
<1>5. QED
  BY <1>2, <1>4

LEMMA ViewsStart == ASSUME ViewsInit PROVE ViewsInv
BY DEF ViewsInit, HandlersInit, Dossier, ViewsInv

\* A longer span allows more.
LEMMA SpanGrows ==
    ASSUME NEW q, Entitled(q), NEW d \in Dossier, NEW p, p = [q EXCEPT !.span = q.span \cup {d}]
    PROVE  Entitled(p) /\ p.span = q.span \cup {d}
<1>1. /\ p \in ReadRequest /\ p.op = q.op /\ p.pc = q.pc /\ p.viewer = q.viewer
      /\ p.answer = q.answer
      /\ p.span = q.span \cup {d}
      /\ q.op \in {"view", "stream"} => p.row = q.row /\ p.tier = q.tier /\ p.mine = q.mine
  <2>1. CASE q \in DetailRequest
    BY <2>1 DEF DetailRequest, ReadRequest
  <2>2. CASE q \in BytesRequest
    BY <2>2 DEF BytesRequest, ReadRequest
  <2>3. CASE q \in PanelRequest
    BY <2>3 DEF PanelRequest, ReadRequest
  <2>4. CASE q \in PositionRequest
    BY <2>4 DEF PositionRequest, ReadRequest
  <2>5. CASE q \in EvidenceRequest
    BY <2>5 DEF EvidenceRequest, ReadRequest
  <2>6. CASE q \in FeedRequest
    BY <2>6 DEF FeedRequest, ReadRequest
  <2>7. QED
    BY <2>1, <2>2, <2>3, <2>4, <2>5, <2>6 DEF Entitled, ReadRequest
<1>2. /\ Involved(q) => Involved(p)
      /\ Alive(q) => Alive(p)
      /\ Public(q) => Public(p)
      /\ Summed(q) => Summed(p)
      /\ Lenient(q) => Lenient(p)
      /\ \A x : Was(q, x) => Was(p, x)
      /\ Helped(q) => Helped(p)
      /\ Named(q) => Named(p)
      /\ TeamReads(q) => TeamReads(p)
  BY <1>1 DEF Involved, Alive, Public, Summed, Lenient, Was, Helped, Named, TeamReads
<1>3. Stands(p)
  <2>1. Stands(q)
    BY DEF Entitled
  <2>2. QED
    BY <1>1, <1>2, <2>1 DEF Stands
<1>4. ASSUME NEW x \in p.answer PROVE Allowed(p, x)
  <2>1. Allowed(q, x)
    BY <1>1, <1>4 DEF Entitled
  <2>2. QED
    BY <1>1, <1>2, <2>1 DEF Allowed
<1>5. QED
  BY <1>1, <1>3, <1>4 DEF Entitled

LEMMA TurnKeeps ==
    ASSUME ViewsInv, NEW d \in Dossier, Turn(d), d.purged => d.status = "resolved" PROVE ViewsInv'
<1>1. /\ dossier' = d
      /\ rq' = [r \in Reqs |-> IF rq[r].op = "idle" THEN rq[r] ELSE [rq[r] EXCEPT !.span = rq[r].span \cup {d}]]
  BY DEF Turn
<1>2. ASSUME NEW r \in Reqs PROVE rq'[r] = Idle \/ (rq'[r] \in EntitledReads /\ d \in rq'[r].span)
  <2>1. CASE rq[r] = Idle
    BY <1>1, <2>1 DEF Idle
  <2>2. CASE rq[r] # Idle
    <3>1. PICK q : q = rq[r] /\ Entitled(q)
      BY <2>2 DEF ViewsInv, EntitledReads
    <3>2. q.op # "idle"
      BY <3>1, ReadsAre
    <3>3. PICK p : p = [q EXCEPT !.span = q.span \cup {d}]
      OBVIOUS
    <3>4. rq'[r] = p
      BY <1>1, <3>1, <3>2, <3>3
    <3>5. Entitled(p) /\ d \in p.span
      BY <3>1, <3>3, SpanGrows
    <3>6. QED
      BY <3>4, <3>5 DEF EntitledReads, Entitled
  <2>3. QED
    BY <2>1, <2>2
<1>3. QED
  BY <1>1, <1>2 DEF ViewsInv

LEMMA OthersKeep ==
    ASSUME ViewsInv,
           \/ ShowOrHide \/ CloseView \/ PurgeView \/ Retier \/ Hang \/ Withhold \/ GiveBack \/ Destroy
           \/ \E h \in ViewHelpers : Offers(h)
    PROVE  ViewsInv'
<1>1. dossier \in Dossier /\ (dossier.purged => dossier.status = "resolved")
  BY DEF ViewsInv
<1>2. CASE ShowOrHide
  <2>1. PICK d : d = [dossier EXCEPT !.hidden = ~dossier.hidden]
    OBVIOUS
  <2>2. d \in Dossier /\ (d.purged => d.status = "resolved")
    BY <1>1, <2>1 DEF Dossier
  <2>3. QED
    BY <1>2, <2>1, <2>2, TurnKeeps DEF ShowOrHide
<1>3. CASE CloseView
  <2>1. PICK d : d = [dossier EXCEPT !.status = "resolved"]
    OBVIOUS
  <2>2. d \in Dossier /\ d.status = "resolved"
    BY <1>1, <2>1 DEF Dossier
  <2>3. QED
    BY <1>3, <2>1, <2>2, TurnKeeps DEF CloseView
<1>4. CASE PurgeView
  <2>1. PICK d : d = [dossier EXCEPT !.purged = TRUE]
    OBVIOUS
  <2>2. d \in Dossier /\ d.status = "resolved"
    BY <1>1, <1>4, <2>1 DEF Dossier, PurgeView
  <2>3. QED
    BY <1>4, <2>1, <2>2, TurnKeeps DEF PurgeView
<1>5. CASE Retier
  <2>1. PICK t \in {"low", "high"} : Turn([dossier EXCEPT !.tier = t])
    BY <1>5 DEF Retier
  <2>2. PICK d : d = [dossier EXCEPT !.tier = t]
    OBVIOUS
  <2>3. d \in Dossier /\ (d.purged => d.status = "resolved")
    BY <1>1, <2>1, <2>2 DEF Dossier
  <2>4. QED
    BY <2>1, <2>2, <2>3, TurnKeeps
<1>6. CASE Hang \/ Withhold \/ GiveBack \/ Destroy
  <2>1. PICK p \in {"available", "blocked", "deleted"} : Turn([dossier EXCEPT !.photo = p])
    BY <1>6 DEF Hang, Withhold, GiveBack, Destroy
  <2>2. PICK d : d = [dossier EXCEPT !.photo = p]
    OBVIOUS
  <2>3. d \in Dossier /\ (d.purged => d.status = "resolved")
    BY <1>1, <2>1, <2>2 DEF Dossier
  <2>4. QED
    BY <2>1, <2>2, <2>3, TurnKeeps
<1>7. ASSUME NEW h \in ViewHelpers, Offers(h) PROVE ViewsInv'
  <2>1. PICK as \in {"named", "anonymous"} : Turn([dossier EXCEPT !.offer[h] = as])
    BY <1>7 DEF Offers
  <2>2. PICK row : row = [dossier.offer EXCEPT ![h] = as]
    OBVIOUS
  <2>3. PICK d : d = [dossier EXCEPT !.offer = row]
    OBVIOUS
  <2>4. row \in [ViewHelpers -> {"none", "named", "anonymous"}]
    BY <1>1, <2>1, <2>2 DEF Dossier
  <2>5. d \in Dossier /\ (d.purged => d.status = "resolved")
    BY <1>1, <2>3, <2>4 DEF Dossier
  <2>6. Turn(d)
    BY <2>1, <2>2, <2>3
  <2>7. QED
    BY <2>5, <2>6, TurnKeeps
<1>8. QED
  BY <1>2, <1>3, <1>4, <1>5, <1>6, <1>7

LEMMA ReadMoves ==
    ASSUME ViewsInv, NEW r \in Reqs, NEW q, rq' = [rq EXCEPT ![r] = q], UNCHANGED dossier,
           q = Idle \/ (Entitled(q) /\ dossier \in q.span)
    PROVE  ViewsInv'
<1>1. q = Idle \/ (q \in EntitledReads /\ dossier \in q.span)
  BY DEF EntitledReads, Entitled
<1>2. QED
  BY <1>1 DEF ViewsInv

LEMMA ReadEntitled ==
    ASSUME ViewsInv, NEW r \in Reqs, rq[r].op # "idle"
    PROVE  /\ Entitled(rq[r]) /\ Stands(rq[r]) /\ dossier \in rq[r].span /\ dossier \in Dossier
           /\ rq[r].op = "view" => rq[r] \in DetailRequest
           /\ rq[r].op = "stream" => rq[r] \in BytesRequest
           /\ rq[r].op = "panel" => rq[r] \in PanelRequest
           /\ rq[r].op = "evidence" => rq[r] \in EvidenceRequest
           /\ rq[r].op = "feed" => rq[r] \in FeedRequest
<1>1. Entitled(rq[r]) /\ dossier \in rq[r].span /\ dossier \in Dossier
  BY DEF ViewsInv, Idle, EntitledReads
<1>2. QED
  BY <1>1, ReadsAre DEF Entitled

\* A request goes on with nothing in its answer that it may not show.
LEMMA AnswerKeeps ==
    ASSUME NEW p, Entitled(p), NEW q \in ReadRequest, q.op = p.op, q.viewer = p.viewer,
           q.span = p.span,
           \A x \in q.answer : x \in p.answer \/ Allowed(p, x), Stands(q)
    PROVE  Entitled(q)
<1>1. ASSUME NEW x \in q.answer PROVE Allowed(q, x)
  <2>1. Allowed(p, x)
    BY DEF Entitled
  <2>2. QED
    BY <2>1 DEF Allowed, Involved, Alive, Public, Summed, Lenient, Was, Helped, Named, TeamReads
<1>2. QED
  BY <1>1 DEF Entitled

\* What a request relies on does not depend on its answer.
Same(q, p) ==
    /\ q.op = p.op /\ q.viewer = p.viewer /\ q.span = p.span
    /\ q.op \in {"view", "stream"} => q.row = p.row

LEMMA SameMeans ==
    ASSUME NEW p, NEW q, Same(q, p)
    PROVE  /\ Involved(q) <=> Involved(p)
           /\ Alive(q) <=> Alive(p)
           /\ Public(q) <=> Public(p)
           /\ \A x : Was(q, x) <=> Was(p, x)
BY DEF Same, Involved, Alive, Public, Was

LEMMA AddsKeep ==
    ASSUME ViewsInv, NEW r \in Reqs, rq[r].op # "idle", NEW fields, NEW pc, Adds(r, fields, pc),
           \A x \in fields : Allowed(rq[r], x),
           NEW q, q = [rq[r] EXCEPT !.answer = rq[r].answer \cup fields, !.pc = pc],
           q \in ReadRequest, Same(q, rq[r]), q.answer = rq[r].answer \cup fields, Stands(q)
    PROVE  ViewsInv'
<1>1. rq' = [rq EXCEPT ![r] = q] /\ UNCHANGED dossier
  BY DEF Adds
<1>2. Entitled(q)
  <2>1. Entitled(rq[r])
    BY ReadEntitled
  <2>2. q.op = rq[r].op /\ q.viewer = rq[r].viewer /\ q.span = rq[r].span
    BY DEF Same
  <2>3. QED
    BY <2>1, <2>2, AnswerKeeps
<1>3. dossier \in q.span
  BY ReadEntitled DEF Same
<1>4. QED
  BY <1>1, <1>2, <1>3, ReadMoves

LEMMA DetailAdds ==
    ASSUME ViewsInv, NEW r \in Reqs, rq[r].op = "view", rq[r].pc # "tier",
           NEW fields \in SUBSET Fields,
           NEW pc \in {"chat", "photos", "names", "answered"}, Adds(r, fields, pc),
           \A x \in fields : Allowed(rq[r], x),
           pc = "chat" => Involved(rq[r]),
           pc = "photos" => Involved(rq[r]) \/ Public(rq[r]),
           pc = "names" => rq[r].viewer = "owner"
    PROVE  ViewsInv'
<1>1. rq[r] \in DetailRequest /\ Stands(rq[r])
  BY ReadEntitled
<1>2. PICK q : q = [rq[r] EXCEPT !.answer = rq[r].answer \cup fields, !.pc = pc]
  OBVIOUS
<1>3. /\ q \in DetailRequest /\ q.pc = pc /\ q.answer = rq[r].answer \cup fields /\ q.op = "view"
      /\ q.viewer = rq[r].viewer /\ q.span = rq[r].span /\ q.row = rq[r].row
      /\ q.tier = rq[r].tier /\ q.mine = rq[r].mine
  BY <1>1, <1>2 DEF DetailRequest
<1>4. q \in ReadRequest /\ Same(q, rq[r])
  BY <1>3 DEF ReadRequest, Same
<1>5. Stands(q)
  BY <1>1, <1>3, <1>4, SameMeans DEF Stands
<1>6. QED
  BY <1>2, <1>3, <1>4, <1>5, AddsKeep

LEMMA ThirdPartyKeeps == ASSUME ViewsInv, NEW r \in Reqs, ThirdParty(r) PROVE ViewsInv'
<1>1. rq[r].op = "view" /\ rq[r].pc = "access"
  BY DEF ThirdParty, At
<1>2. /\ rq[r] \in DetailRequest /\ rq[r].row \in rq[r].span /\ rq[r].row.purged = FALSE
      /\ rq[r].row \in Dossier
  BY <1>1, ReadEntitled DEF Stands, DetailRequest, Dossier
<1>3. rq[r].row.hidden = FALSE
  BY <1>2 DEF ThirdParty, Dossier
<1>4. CASE rq[r].row.status = "resolved"
  <2>1. Adds(r, {"summary"}, "answered")
    BY <1>4 DEF ThirdParty
  <2>2. Summed(rq[r])
    BY <1>2, <1>3, <1>4 DEF Summed
  <2>3. \A x \in {"summary"} : Allowed(rq[r], x)
    BY <2>2 DEF Allowed
  <2>4. {"summary"} \in SUBSET Fields
    BY DEF Fields
  <2>5. QED
    BY <1>1, <2>1, <2>3, <2>4, DetailAdds
<1>5. CASE rq[r].row.status # "resolved"
  <2>1. Adds(r, {"degraded"}, "photos")
    BY <1>5 DEF ThirdParty
  <2>2. Public(rq[r])
    BY <1>2, <1>3, <1>5 DEF Public, Dossier
  <2>3. \A x \in {"degraded"} : Allowed(rq[r], x)
    BY <2>2 DEF Allowed
  <2>4. {"degraded"} \in SUBSET Fields
    BY DEF Fields
  <2>5. QED
    BY <1>1, <2>1, <2>2, <2>3, <2>4, DetailAdds
<1>6. QED
  BY <1>4, <1>5

LEMMA InsiderKeeps == ASSUME ViewsInv, NEW r \in Reqs, Insider(r) PROVE ViewsInv'
<1>1. rq[r].op = "view" /\ rq[r].pc = "access"
  BY DEF Insider, At
<1>2. Involved(rq[r])
  <2>1. Stands(rq[r]) /\ rq[r] \in DetailRequest
    BY <1>1, ReadEntitled
  <2>2. rq[r].mine \in BOOLEAN
    BY <2>1 DEF DetailRequest
  <2>3. rq[r].viewer = "owner" \/ rq[r].mine = TRUE
    BY <2>2 DEF Insider, Inside
  <2>4. QED
    BY <1>1, <2>1, <2>3 DEF Stands, Involved
<1>3. PICK fields : fields = {"exact", "mark"} \cup (IF dossier.purged THEN {} ELSE {"trail"})
  OBVIOUS
<1>4. Adds(r, fields, "chat")
  BY <1>3 DEF Insider
<1>5. dossier.purged \/ Alive(rq[r])
  BY <1>1, ReadEntitled DEF Alive
<1>6. \A x \in fields : Allowed(rq[r], x)
  BY <1>2, <1>3, <1>5 DEF Allowed
<1>7. fields \in SUBSET Fields
  BY <1>3 DEF Fields
<1>8. QED
  BY <1>1, <1>2, <1>4, <1>6, <1>7, DetailAdds

LEMMA ReadChatKeeps == ASSUME ViewsInv, NEW r \in Reqs, ReadChat(r) PROVE ViewsInv'
<1>1. rq[r].op = "view" /\ rq[r].pc = "chat" /\ Adds(r, {"chat"}, "photos")
  BY DEF ReadChat, At
<1>2. Involved(rq[r])
  BY <1>1, ReadEntitled DEF Stands
<1>3. (\A x \in {"chat"} : Allowed(rq[r], x)) /\ {"chat"} \in SUBSET Fields
  BY <1>2 DEF Allowed, Fields
<1>4. QED
  BY <1>1, <1>2, <1>3, DetailAdds

LEMMA ListPhotosKeeps == ASSUME ViewsInv, NEW r \in Reqs, ListPhotos(r) PROVE ViewsInv'
<1>1. rq[r].op = "view" /\ rq[r].pc = "photos"
  BY DEF ListPhotos, At
<1>2. rq[r] \in DetailRequest /\ Stands(rq[r]) /\ dossier \in rq[r].span
  BY <1>1, ReadEntitled
<1>3. Involved(rq[r]) \/ Public(rq[r])
  BY <1>1, <1>2 DEF Stands
<1>4. rq[r].mine \in BOOLEAN /\ (rq[r].mine = TRUE => Involved(rq[r]))
  BY <1>1, <1>2 DEF Stands, DetailRequest
<1>5. PICK fields : fields = {"direction"} \cup (IF dossier.photo = "available" THEN {"photo"} ELSE {})
                                          \cup (IF rq[r].mine THEN {"own"} ELSE {})
  OBVIOUS
<1>6. PICK pc : pc = (IF rq[r].viewer = "owner" THEN "names" ELSE "answered")
  OBVIOUS
<1>7. Adds(r, fields, pc)
  BY <1>5, <1>6 DEF ListPhotos
<1>8. dossier.photo = "available" => Was(rq[r], "available")
  BY <1>2 DEF Was
<1>9. \A x \in fields : x = "direction" \/ (x = "photo" /\ Was(rq[r], "available")) \/ (x = "own" /\ Involved(rq[r]))
  BY <1>4, <1>5, <1>8
<1>10. \A x \in fields : Allowed(rq[r], x) /\ x \in Fields
  BY <1>3, <1>9 DEF Allowed, Fields
<1>11. /\ fields \in SUBSET Fields /\ pc \in {"names", "answered"}
       /\ (pc = "names" => rq[r].viewer = "owner")
  BY <1>6, <1>10
<1>12. QED
  BY <1>1, <1>7, <1>10, <1>11, DetailAdds

LEMMA ReadNamesKeeps == ASSUME ViewsInv, NEW r \in Reqs, ReadNames(r) PROVE ViewsInv'
<1>1. rq[r].op = "view" /\ rq[r].pc = "names"
  BY DEF ReadNames, At
<1>2. rq[r] \in DetailRequest /\ Stands(rq[r]) /\ dossier \in rq[r].span
  BY <1>1, ReadEntitled
<1>3. PICK fields : fields = (IF SomebodyNamed THEN Unmasked(r) ELSE {})
  OBVIOUS
<1>4. Adds(r, fields, "answered")
  BY <1>3 DEF ReadNames
<1>5. rq[r].viewer = "owner" /\ rq[r].tier # "none" /\ \E d \in rq[r].span : d.tier = rq[r].tier
  BY <1>1, <1>2 DEF Stands
<1>6. \A x \in fields : x = "name" /\ SomebodyNamed /\ rq[r].tier # "high"
  BY <1>3 DEF Unmasked
<1>7. SomebodyNamed => Named(rq[r])
  BY <1>2 DEF SomebodyNamed, Named
<1>8. rq[r].tier # "high" => Lenient(rq[r])
  BY <1>5 DEF Lenient
<1>9. \A x \in fields : Allowed(rq[r], x) /\ x \in Fields
  BY <1>5, <1>6, <1>7, <1>8 DEF Allowed, Fields
<1>10. fields \in SUBSET Fields
  BY <1>9
<1>11. QED
  BY <1>1, <1>4, <1>9, <1>10, DetailAdds

\* A request that begins: its answer is empty and it has seen the dossier of now.
LEMMA BeginKeeps ==
    ASSUME ViewsInv, NEW r \in Reqs, NEW q \in ReadRequest, rq' = [rq EXCEPT ![r] = q],
           UNCHANGED dossier,
           q.span = {dossier}, \A x \in q.answer : Allowed(q, x), Stands(q)
    PROVE  ViewsInv'
<1>1. Entitled(q) /\ dossier \in q.span
  BY DEF Entitled
<1>2. QED
  BY <1>1, ReadMoves

LEMMA ViewBeginKeeps ==
    ASSUME ViewsInv, NEW r \in Reqs, NEW op \in {"view", "stream"},
           NEW v \in Viewers \ {"panel"}, ViewBegin(r, op, v)
    PROVE  ViewsInv'
<1>1. PICK pc : pc = (IF op = "view" THEN "tier" ELSE "media")
  OBVIOUS
<1>2. PICK q : q = [op |-> op, pc |-> pc, viewer |-> v, row |-> dossier, tier |-> "none", mine |-> FALSE,
                    span |-> {dossier}, answer |-> {}]
  OBVIOUS
<1>3. rq' = [rq EXCEPT ![r] = q] /\ UNCHANGED dossier /\ ~dossier.purged
  BY <1>1, <1>2 DEF ViewBegin, Begin
<1>4. dossier \in Dossier
  BY DEF ViewsInv
<1>5. /\ q.op = op /\ q.pc = pc /\ q.row = dossier /\ q.tier = "none" /\ q.mine = FALSE
      /\ q.span = {dossier} /\ q.answer = {}
  BY <1>2
<1>6. q \in ReadRequest
  <2>1. CASE op = "view"
    <3>1. q \in DetailRequest
      BY <1>1, <1>2, <1>4, <2>1 DEF DetailRequest
    <3>2. QED
      BY <3>1 DEF ReadRequest
  <2>2. CASE op = "stream"
    <3>1. q \in BytesRequest
      BY <1>1, <1>2, <1>4, <2>2 DEF BytesRequest
    <3>2. QED
      BY <3>1 DEF ReadRequest
  <2>3. QED
    BY <2>1, <2>2
<1>7. Stands(q)
  BY <1>1, <1>3, <1>5 DEF Stands
<1>8. QED
  BY <1>3, <1>5, <1>6, <1>7, BeginKeeps

\* A request that goes on with what it was told, its answer as it was.
LEMMA GoesOn ==
    ASSUME ViewsInv, NEW r \in Reqs, rq[r].op # "idle", NEW q \in ReadRequest,
           rq' = [rq EXCEPT ![r] = q],
           UNCHANGED dossier, Same(q, rq[r]), \A x \in q.answer : x \in rq[r].answer \/ Allowed(rq[r], x), Stands(q)
    PROVE  ViewsInv'
<1>1. Entitled(q)
  <2>1. Entitled(rq[r])
    BY ReadEntitled
  <2>2. q.op = rq[r].op /\ q.viewer = rq[r].viewer /\ q.span = rq[r].span
    BY DEF Same
  <2>3. QED
    BY <2>1, <2>2, AnswerKeeps
<1>2. dossier \in q.span
  BY ReadEntitled DEF Same
<1>3. QED
  BY <1>1, <1>2, ReadMoves

LEMMA ViewTierKeeps == ASSUME ViewsInv, NEW r \in Reqs, ViewTier(r) PROVE ViewsInv'
<1>1. rq[r].op = "view" /\ UNCHANGED dossier
  BY DEF ViewTier, At
<1>2. rq[r] \in DetailRequest /\ Stands(rq[r]) /\ dossier \in rq[r].span /\ dossier \in Dossier
  BY <1>1, ReadEntitled
<1>3. PICK t \in {"low", "high"} : t = dossier.tier
  BY <1>2 DEF Dossier
<1>4. PICK q : q = [op |-> "view", pc |-> "offer", viewer |-> rq[r].viewer, row |-> rq[r].row, tier |-> t,
                    mine |-> rq[r].mine, span |-> rq[r].span, answer |-> rq[r].answer]
  OBVIOUS
<1>5. rq' = [rq EXCEPT ![r] = q]
  <2>1. With(r, [pc |-> "offer", tier |-> t])
    BY <1>3 DEF ViewTier
  <2>2. [f \in {"pc", "tier"} \cup DOMAIN rq[r] |->
           IF f \in {"pc", "tier"} THEN [pc |-> "offer", tier |-> t][f] ELSE rq[r][f]] = q
    BY <1>2, <1>4 DEF DetailRequest
  <2>3. QED
    BY <2>1, <2>2 DEF With
<1>6. /\ q \in DetailRequest /\ q.op = "view" /\ q.pc = "offer" /\ q.viewer = rq[r].viewer
      /\ q.row = rq[r].row
      /\ q.tier = t /\ q.mine = rq[r].mine /\ q.span = rq[r].span /\ q.answer = rq[r].answer
  BY <1>2, <1>4 DEF DetailRequest
<1>7. q \in ReadRequest /\ Same(q, rq[r])
  BY <1>1, <1>6 DEF ReadRequest, Same
<1>8. Stands(q)
  BY <1>1, <1>2, <1>3, <1>6, <1>7, SameMeans DEF Stands
<1>9. QED
  BY <1>1, <1>5, <1>6, <1>7, <1>8, GoesOn

LEMMA FindMineKeeps == ASSUME ViewsInv, NEW r \in Reqs, FindMine(r) PROVE ViewsInv'
<1>1. rq[r].op = "view" /\ rq[r].pc = "offer" /\ UNCHANGED dossier
  BY DEF FindMine, At
<1>2. rq[r] \in DetailRequest /\ Stands(rq[r]) /\ dossier \in rq[r].span
  BY <1>1, ReadEntitled
<1>3. PICK mine \in BOOLEAN : mine = HasOffer(dossier, rq[r].viewer)
  BY DEF HasOffer
<1>4. PICK q : q = [op |-> "view", pc |-> "access", viewer |-> rq[r].viewer, row |-> rq[r].row,
                    tier |-> rq[r].tier, mine |-> mine, span |-> rq[r].span, answer |-> rq[r].answer]
  OBVIOUS
<1>5. rq' = [rq EXCEPT ![r] = q]
  <2>1. With(r, [pc |-> "access", mine |-> mine])
    BY <1>3 DEF FindMine
  <2>2. [f \in {"pc", "mine"} \cup DOMAIN rq[r] |->
           IF f \in {"pc", "mine"} THEN [pc |-> "access", mine |-> mine][f] ELSE rq[r][f]] = q
    BY <1>2, <1>4 DEF DetailRequest
  <2>3. QED
    BY <2>1, <2>2 DEF With
<1>6. /\ q \in DetailRequest /\ q.op = "view" /\ q.pc = "access" /\ q.viewer = rq[r].viewer
      /\ q.row = rq[r].row
      /\ q.tier = rq[r].tier /\ q.mine = mine /\ q.span = rq[r].span /\ q.answer = rq[r].answer
  BY <1>2, <1>4 DEF DetailRequest
<1>7. q \in ReadRequest /\ Same(q, rq[r])
  BY <1>1, <1>6 DEF ReadRequest, Same
<1>8. mine = TRUE => Involved(q)
  BY <1>2, <1>3, <1>6 DEF Involved
<1>9. Stands(q)
  BY <1>1, <1>2, <1>6, <1>7, <1>8, SameMeans DEF Stands
<1>10. QED
  BY <1>1, <1>5, <1>6, <1>7, <1>9, GoesOn

LEMMA FindMediaKeeps == ASSUME ViewsInv, NEW r \in Reqs, FindMedia(r) PROVE ViewsInv'
<1>1. rq[r].op = "stream" /\ UNCHANGED dossier /\ dossier.photo = "available"
  BY DEF FindMedia, At
<1>2. rq[r] \in BytesRequest /\ Stands(rq[r]) /\ dossier \in rq[r].span
  BY <1>1, ReadEntitled
<1>3. PICK q : q = [rq[r] EXCEPT !.pc = "offer"]
  OBVIOUS
<1>4. rq' = [rq EXCEPT ![r] = q]
  BY <1>3 DEF FindMedia, Goto
<1>5. /\ q \in BytesRequest /\ q.op = "stream" /\ q.pc = "offer" /\ q.viewer = rq[r].viewer
      /\ q.row = rq[r].row
      /\ q.tier = rq[r].tier /\ q.mine = rq[r].mine /\ q.span = rq[r].span
      /\ q.answer = rq[r].answer
  BY <1>2, <1>3 DEF BytesRequest
<1>6. q \in ReadRequest /\ Same(q, rq[r])
  BY <1>1, <1>5 DEF ReadRequest, Same
<1>7. Was(q, "available")
  BY <1>1, <1>2, <1>5 DEF Was
<1>8. Stands(q)
  BY <1>1, <1>2, <1>5, <1>6, <1>7, SameMeans DEF Stands
<1>9. QED
  BY <1>1, <1>4, <1>5, <1>6, <1>8, GoesOn

LEMMA StreamAccessKeeps == ASSUME ViewsInv, NEW r \in Reqs, StreamAccess(r) PROVE ViewsInv'
<1>1. rq[r].op = "stream" /\ rq[r].pc = "offer" /\ UNCHANGED dossier
  BY DEF StreamAccess, At
<1>2. rq[r] \in BytesRequest /\ Stands(rq[r]) /\ dossier \in rq[r].span
  BY <1>1, ReadEntitled
<1>3. PICK mine \in BOOLEAN : mine = HasOffer(dossier, rq[r].viewer)
  BY DEF HasOffer
<1>4. CASE rq[r].viewer = "owner" \/ mine = TRUE
  <2>1. PICK q : q = [op |-> "stream", pc |-> "open", viewer |-> rq[r].viewer, row |-> rq[r].row,
                      tier |-> rq[r].tier, mine |-> mine, span |-> rq[r].span, answer |-> rq[r].answer]
    OBVIOUS
  <2>2. rq' = [rq EXCEPT ![r] = q]
    <3>1. With(r, [mine |-> mine, pc |-> "open"])
      BY <1>3, <1>4 DEF StreamAccess
    <3>2. [f \in {"mine", "pc"} \cup DOMAIN rq[r] |->
             IF f \in {"mine", "pc"} THEN [mine |-> mine, pc |-> "open"][f] ELSE rq[r][f]] = q
      BY <1>2, <2>1 DEF BytesRequest
    <3>3. QED
      BY <3>1, <3>2 DEF With
  <2>3. /\ q \in BytesRequest /\ q.op = "stream" /\ q.pc = "open" /\ q.viewer = rq[r].viewer
        /\ q.row = rq[r].row
        /\ q.tier = rq[r].tier /\ q.mine = mine /\ q.span = rq[r].span /\ q.answer = rq[r].answer
    BY <1>2, <2>1 DEF BytesRequest
  <2>4. q \in ReadRequest /\ Same(q, rq[r])
    BY <1>1, <2>3 DEF ReadRequest, Same
  <2>5. Involved(q)
    BY <1>2, <1>3, <1>4, <2>3 DEF Involved
  <2>6. Stands(q)
    BY <1>1, <1>2, <2>3, <2>4, <2>5, SameMeans DEF Stands
  <2>7. QED
    BY <1>1, <2>2, <2>3, <2>4, <2>6, GoesOn
<1>5. CASE ~ (rq[r].viewer = "owner" \/ mine = TRUE)
  <2>1. PICK q : q = [rq[r] EXCEPT !.pc = "tier"]
    OBVIOUS
  <2>2. rq' = [rq EXCEPT ![r] = q] /\ rq[r].row.status = "open" /\ ~rq[r].row.hidden
    BY <1>3, <1>5, <2>1 DEF StreamAccess, Goto
  <2>3. /\ q \in BytesRequest /\ q.op = "stream" /\ q.pc = "tier" /\ q.viewer = rq[r].viewer
        /\ q.row = rq[r].row
        /\ q.tier = rq[r].tier /\ q.mine = rq[r].mine /\ q.span = rq[r].span
        /\ q.answer = rq[r].answer
    BY <1>2, <2>1 DEF BytesRequest
  <2>4. q \in ReadRequest /\ Same(q, rq[r])
    BY <1>1, <2>3 DEF ReadRequest, Same
  <2>5. Public(q)
    BY <1>1, <1>2, <2>2, <2>3 DEF Public, Stands
  <2>6. Stands(q)
    BY <1>1, <1>2, <2>3, <2>4, <2>5, SameMeans DEF Stands
  <2>7. QED
    BY <1>1, <2>2, <2>3, <2>4, <2>6, GoesOn
<1>6. QED
  BY <1>4, <1>5

LEMMA StreamTierKeeps == ASSUME ViewsInv, NEW r \in Reqs, StreamTier(r) PROVE ViewsInv'
<1>1. rq[r].op = "stream" /\ rq[r].pc = "tier" /\ UNCHANGED dossier
  BY DEF StreamTier, At
<1>2. rq[r] \in BytesRequest /\ Stands(rq[r]) /\ dossier \in rq[r].span /\ dossier \in Dossier
  BY <1>1, ReadEntitled
<1>3. PICK t \in {"low", "high"} : t = dossier.tier
  BY <1>2 DEF Dossier
<1>4. PICK q : q = [op |-> "stream", pc |-> "open", viewer |-> rq[r].viewer, row |-> rq[r].row, tier |-> t,
                    mine |-> rq[r].mine, span |-> rq[r].span, answer |-> rq[r].answer]
  OBVIOUS
<1>5. rq' = [rq EXCEPT ![r] = q]
  <2>1. With(r, [pc |-> "open", tier |-> t])
    BY <1>3 DEF StreamTier
  <2>2. [f \in {"pc", "tier"} \cup DOMAIN rq[r] |->
           IF f \in {"pc", "tier"} THEN [pc |-> "open", tier |-> t][f] ELSE rq[r][f]] = q
    BY <1>2, <1>4 DEF BytesRequest
  <2>3. QED
    BY <2>1, <2>2 DEF With
<1>6. /\ q \in BytesRequest /\ q.op = "stream" /\ q.pc = "open" /\ q.viewer = rq[r].viewer
      /\ q.row = rq[r].row
      /\ q.tier = t /\ q.mine = rq[r].mine /\ q.span = rq[r].span /\ q.answer = rq[r].answer
  BY <1>2, <1>4 DEF BytesRequest
<1>7. q \in ReadRequest /\ Same(q, rq[r])
  BY <1>1, <1>6 DEF ReadRequest, Same
<1>8. Stands(q)
  BY <1>1, <1>2, <1>3, <1>6, <1>7, SameMeans DEF Stands
<1>9. QED
  BY <1>1, <1>5, <1>6, <1>7, <1>8, GoesOn

LEMMA OpenBytesKeeps == ASSUME ViewsInv, NEW r \in Reqs, OpenBytes(r) PROVE ViewsInv'
<1>1. rq[r].op = "stream" /\ rq[r].pc = "open"
  BY DEF OpenBytes, At
<1>2. rq[r] \in BytesRequest /\ Stands(rq[r])
  BY <1>1, ReadEntitled
<1>3. PICK variant \in {"blur", "sharp"} : /\ variant = "sharp" => Inside(r) \/ rq[r].tier # "high"
                                           /\ Adds(r, {variant}, "answered")
  BY DEF OpenBytes
<1>4. /\ Was(rq[r], "available")
      /\ Involved(rq[r]) \/ (Public(rq[r]) /\ rq[r].tier # "none")
      /\ rq[r].tier # "none" => \E d \in rq[r].span : d.tier = rq[r].tier
      /\ rq[r].mine \in BOOLEAN /\ (rq[r].mine = TRUE => Involved(rq[r]))
  BY <1>1, <1>2 DEF Stands, BytesRequest
<1>5. variant = "sharp" => Involved(rq[r]) \/ Lenient(rq[r])
  <2>1. Inside(r) => Involved(rq[r])
    BY <1>4 DEF Inside, Involved
  <2>2. rq[r].tier # "high" /\ rq[r].tier # "none" => Lenient(rq[r])
    BY <1>4 DEF Lenient
  <2>3. QED
    BY <1>3, <1>4, <2>1, <2>2
<1>6. \A x \in {variant} : Allowed(rq[r], x)
  BY <1>3, <1>4, <1>5 DEF Allowed
<1>7. PICK q : q = [rq[r] EXCEPT !.answer = rq[r].answer \cup {variant}, !.pc = "answered"]
  OBVIOUS
<1>8. /\ q \in BytesRequest /\ q.op = "stream" /\ q.pc = "answered" /\ q.viewer = rq[r].viewer
      /\ q.row = rq[r].row
      /\ q.tier = rq[r].tier /\ q.mine = rq[r].mine /\ q.span = rq[r].span
      /\ q.answer = rq[r].answer \cup {variant}
  BY <1>2, <1>3, <1>7 DEF BytesRequest, Fields
<1>9. q \in ReadRequest /\ Same(q, rq[r])
  BY <1>1, <1>8 DEF ReadRequest, Same
<1>10. Stands(q)
  BY <1>1, <1>2, <1>8, <1>9, SameMeans DEF Stands
<1>11. QED
  BY <1>1, <1>3, <1>6, <1>7, <1>8, <1>9, <1>10, AddsKeep

LEMMA PanelBeginKeeps == ASSUME ViewsInv, NEW r \in Reqs, PanelBegin(r) PROVE ViewsInv'
<1>1. PICK pc : pc = (IF dossier.purged THEN "answered" ELSE "tier")
  OBVIOUS
<1>2. PICK q : q = [op |-> "panel", pc |-> pc, viewer |-> "panel", span |-> {dossier}, answer |-> {}, left |-> Parts]
  OBVIOUS
<1>3. rq' = [rq EXCEPT ![r] = q] /\ UNCHANGED dossier
  BY <1>1, <1>2 DEF PanelBegin, Begin, Parts
<1>4. dossier \in Dossier
  BY DEF ViewsInv
<1>5. q \in PanelRequest /\ q.op = "panel" /\ q.pc = pc /\ q.span = {dossier} /\ q.answer = {}
  BY <1>1, <1>2, <1>4 DEF PanelRequest
<1>6. q \in ReadRequest
  BY <1>5 DEF ReadRequest
<1>7. Stands(q)
  BY <1>1, <1>5 DEF Stands, Alive
<1>8. QED
  BY <1>3, <1>5, <1>6, <1>7, BeginKeeps

LEMMA PanelTierKeeps == ASSUME ViewsInv, NEW r \in Reqs, PanelTier(r) PROVE ViewsInv'
<1>1. rq[r].op = "panel" /\ rq[r].pc = "tier" /\ Adds(r, {"degraded"}, "reads")
  BY DEF PanelTier, At
<1>2. rq[r] \in PanelRequest /\ Stands(rq[r]) /\ rq[r].viewer = "panel" /\ Alive(rq[r])
  BY <1>1, ReadEntitled DEF Stands, PanelRequest
<1>3. \A x \in {"degraded"} : Allowed(rq[r], x)
  BY <1>2 DEF Allowed, TeamReads
<1>4. PICK q : q = [rq[r] EXCEPT !.answer = rq[r].answer \cup {"degraded"}, !.pc = "reads"]
  OBVIOUS
<1>5. /\ q \in PanelRequest /\ q.op = "panel" /\ q.pc = "reads" /\ q.viewer = rq[r].viewer
      /\ q.span = rq[r].span /\ q.answer = rq[r].answer \cup {"degraded"}
  BY <1>2, <1>4 DEF PanelRequest, PanelFields
<1>6. q \in ReadRequest /\ Same(q, rq[r])
  BY <1>1, <1>5 DEF ReadRequest, Same
<1>7. Stands(q)
  BY <1>2, <1>5, <1>6, SameMeans DEF Stands
<1>8. QED
  BY <1>1, <1>3, <1>4, <1>5, <1>6, <1>7, AddsKeep

LEMMA PanelReadKeeps ==
    ASSUME ViewsInv, NEW r \in Reqs, NEW part \in {"timeline", "media", "offers"},
           PanelRead(r, part)
    PROVE  ViewsInv'
<1>1. rq[r].op = "panel" /\ rq[r].pc = "reads" /\ UNCHANGED dossier
  BY DEF PanelRead, At
<1>2. /\ rq[r] \in PanelRequest /\ Stands(rq[r]) /\ rq[r].viewer = "panel" /\ Alive(rq[r])
      /\ dossier \in rq[r].span
  BY <1>1, ReadEntitled DEF Stands, PanelRequest
<1>3. PICK fields : fields = PanelShows(part)
  OBVIOUS
<1>4. \A x \in fields :
         \/ x = "trail"
         \/ x = "photo" /\ Was(rq[r], "available")
         \/ x = "held" /\ Was(rq[r], "blocked")
         \/ x = "name" /\ Named(rq[r])
  BY <1>2, <1>3 DEF PanelShows, Was, SomebodyNamed, Named
<1>5. \A x \in fields : Allowed(rq[r], x) /\ x \in PanelFields
  BY <1>2, <1>4 DEF Allowed, TeamReads, PanelFields
<1>6. PICK left \in SUBSET Parts : left = rq[r].left \ {part}
  BY <1>2 DEF PanelRequest
<1>7. PICK pc : pc = (IF rq[r].left = {part} THEN "answered" ELSE "reads")
  OBVIOUS
<1>8. PICK answer \in SUBSET PanelFields : answer = rq[r].answer \cup fields
  BY <1>2, <1>5 DEF PanelRequest
<1>9. PICK q : q = [op |-> "panel", pc |-> pc, viewer |-> "panel", span |-> rq[r].span, answer |-> answer, left |-> left]
  OBVIOUS
<1>10. rq' = [rq EXCEPT ![r] = q]
  <2>1. With(r, [answer |-> answer, left |-> left, pc |-> pc])
    BY <1>3, <1>6, <1>7, <1>8 DEF PanelRead
  <2>2. [f \in {"answer", "left", "pc"} \cup DOMAIN rq[r] |->
           IF f \in {"answer", "left", "pc"} THEN [answer |-> answer, left |-> left, pc |-> pc][f] ELSE rq[r][f]] = q
    BY <1>2, <1>9 DEF PanelRequest
  <2>3. QED
    BY <2>1, <2>2 DEF With
<1>11. /\ q \in PanelRequest /\ q.op = "panel" /\ q.pc = pc /\ q.viewer = "panel"
       /\ q.span = rq[r].span /\ q.answer = answer
  BY <1>2, <1>7, <1>9 DEF PanelRequest
<1>12. q \in ReadRequest /\ Same(q, rq[r])
  BY <1>1, <1>2, <1>11 DEF ReadRequest, Same
<1>13. Stands(q)
  BY <1>2, <1>11, <1>12, SameMeans DEF Stands
<1>14. \A x \in q.answer : x \in rq[r].answer \/ Allowed(rq[r], x)
  BY <1>5, <1>8, <1>11
<1>15. QED
  BY <1>1, <1>10, <1>12, <1>13, <1>14, GoesOn

LEMMA PositionBeginKeeps == ASSUME ViewsInv, NEW r \in Reqs, PositionBegin(r) PROVE ViewsInv'
<1>1. PICK q : q = [op |-> "position", pc |-> "answered", viewer |-> "panel", span |-> {dossier}, answer |-> {"exact"}]
  OBVIOUS
<1>2. rq' = [rq EXCEPT ![r] = q] /\ UNCHANGED dossier /\ ~dossier.purged /\ dossier \in Dossier
  BY <1>1 DEF PositionBegin, Begin, ViewsInv
<1>3. /\ q \in PositionRequest /\ q.op = "position" /\ q.viewer = "panel" /\ q.span = {dossier}
      /\ q.answer = {"exact"}
  BY <1>1, <1>2 DEF PositionRequest, PanelFields
<1>4. q \in ReadRequest /\ Stands(q)
  BY <1>3 DEF ReadRequest, Stands
<1>5. \A x \in q.answer : Allowed(q, x)
  BY <1>2, <1>3 DEF Allowed, TeamReads, Alive
<1>6. QED
  BY <1>2, <1>3, <1>4, <1>5, BeginKeeps

LEMMA EvidenceBeginKeeps == ASSUME ViewsInv, NEW r \in Reqs, EvidenceBegin(r) PROVE ViewsInv'
<1>1. PICK q : q = [op |-> "evidence", pc |-> "threads", viewer |-> "panel", span |-> {dossier}, answer |-> {}]
  OBVIOUS
<1>2. rq' = [rq EXCEPT ![r] = q] /\ UNCHANGED dossier /\ dossier \in Dossier
  BY <1>1 DEF EvidenceBegin, Begin, ViewsInv
<1>3. q \in EvidenceRequest /\ q.op = "evidence" /\ q.span = {dossier} /\ q.answer = {}
  BY <1>1, <1>2 DEF EvidenceRequest
<1>4. q \in ReadRequest /\ Stands(q)
  BY <1>3 DEF ReadRequest, Stands
<1>5. QED
  BY <1>2, <1>3, <1>4, BeginKeeps

LEMMA EvidenceAdds ==
    ASSUME ViewsInv, NEW r \in Reqs, rq[r].op = "evidence", NEW fields \in SUBSET PanelFields,
           NEW pc \in {"words", "answered"}, Adds(r, fields, pc), \A x \in fields : Allowed(rq[r], x)
    PROVE  ViewsInv'
<1>1. rq[r] \in EvidenceRequest
  BY ReadEntitled
<1>2. PICK q : q = [rq[r] EXCEPT !.answer = rq[r].answer \cup fields, !.pc = pc]
  OBVIOUS
<1>3. /\ q \in EvidenceRequest /\ q.op = "evidence" /\ q.viewer = rq[r].viewer
      /\ q.span = rq[r].span
      /\ q.answer = rq[r].answer \cup fields
  BY <1>1, <1>2 DEF EvidenceRequest
<1>4. q \in ReadRequest /\ Same(q, rq[r]) /\ Stands(q)
  BY <1>3 DEF ReadRequest, Same, Stands
<1>5. QED
  BY <1>2, <1>3, <1>4, AddsKeep

LEMMA EvidenceKeeps == ASSUME ViewsInv, NEW r \in Reqs, ReadThreads(r) \/ ReadWords(r) PROVE ViewsInv'
<1>1. rq[r].op = "evidence"
  BY DEF ReadThreads, ReadWords, At
<1>2. rq[r] \in EvidenceRequest /\ dossier \in rq[r].span
  BY <1>1, ReadEntitled
<1>3. \/ (\E h \in ViewHelpers : HasOffer(dossier, h)) /\ Adds(r, {"helper"}, "words")
      \/ Adds(r, {}, "answered")
      \/ ~dossier.purged /\ Adds(r, {"words"}, "answered")
  BY DEF ReadThreads, ReadWords
<1>4. CASE (\E h \in ViewHelpers : HasOffer(dossier, h)) /\ Adds(r, {"helper"}, "words")
  <2>1. \A x \in {"helper"} : Allowed(rq[r], x)
    BY <1>2, <1>4 DEF Allowed, Helped
  <2>2. QED
    BY <1>1, <1>4, <2>1, EvidenceAdds DEF PanelFields
<1>5. CASE Adds(r, {}, "answered")
  BY <1>1, <1>5, EvidenceAdds
<1>6. CASE ~dossier.purged /\ Adds(r, {"words"}, "answered")
  <2>1. \A x \in {"words"} : Allowed(rq[r], x)
    BY <1>1, <1>2, <1>6 DEF Allowed, TeamReads, Alive, EvidenceRequest
  <2>2. QED
    BY <1>1, <1>6, <2>1, EvidenceAdds DEF PanelFields
<1>7. QED
  BY <1>3, <1>4, <1>5, <1>6

LEMMA FeedBeginKeeps == ASSUME ViewsInv, NEW r \in Reqs, FeedBegin(r) PROVE ViewsInv'
<1>1. PICK q : q = [op |-> "feed", pc |-> "tier", viewer |-> "anyone", span |-> {dossier}, answer |-> {}]
  OBVIOUS
<1>2. /\ rq' = [rq EXCEPT ![r] = q] /\ UNCHANGED dossier /\ dossier \in Dossier
      /\ dossier.status = "open" /\ ~dossier.hidden /\ ~dossier.purged
  BY <1>1 DEF FeedBegin, Begin, ViewsInv
<1>3. q \in FeedRequest /\ q.op = "feed" /\ q.span = {dossier} /\ q.answer = {}
  BY <1>1, <1>2 DEF FeedRequest
<1>4. q \in ReadRequest /\ Stands(q)
  BY <1>2, <1>3 DEF ReadRequest, Stands, Public
<1>5. QED
  BY <1>2, <1>3, <1>4, BeginKeeps

LEMMA FeedKeeps == ASSUME ViewsInv, NEW r \in Reqs, FeedTier(r) \/ FeedDirection(r) PROVE ViewsInv'
<1>1. rq[r].op = "feed"
  BY DEF FeedTier, FeedDirection, At
<1>2. PICK x \in {"degraded", "direction"}, pc \in {"direction", "answered"} : Adds(r, {x}, pc)
  BY DEF FeedTier, FeedDirection
<1>3. rq[r] \in FeedRequest /\ Stands(rq[r]) /\ Public(rq[r])
  BY <1>1, ReadEntitled DEF Stands
<1>4. \A y \in {x} : Allowed(rq[r], y)
  BY <1>2, <1>3 DEF Allowed
<1>5. PICK q : q = [rq[r] EXCEPT !.answer = rq[r].answer \cup {x}, !.pc = pc]
  OBVIOUS
<1>6. /\ q \in FeedRequest /\ q.op = "feed" /\ q.viewer = rq[r].viewer /\ q.span = rq[r].span
      /\ q.answer = rq[r].answer \cup {x}
  BY <1>2, <1>3, <1>5 DEF FeedRequest, Fields
<1>7. q \in ReadRequest /\ Same(q, rq[r])
  BY <1>1, <1>6 DEF ReadRequest, Same
<1>8. Stands(q)
  BY <1>3, <1>6, <1>7, SameMeans DEF Stands
<1>9. QED
  BY <1>1, <1>2, <1>4, <1>5, <1>6, <1>7, <1>8, AddsKeep

LEMMA ReadEnds ==
    ASSUME ViewsInv, NEW r \in Reqs, Answered(r) \/ (GivesUp(r) /\ UNCHANGED dossier)
    PROVE  ViewsInv'
<1>1. rq' = [rq EXCEPT ![r] = Idle] /\ UNCHANGED dossier
  BY DEF Answered, GivesUp, Finish
<1>2. QED
  BY <1>1, ReadMoves

LEMMA ViewsStep == ASSUME ViewsInv, [ViewsNext]_viewVars PROVE ViewsInv'
<1>1. CASE UNCHANGED viewVars
  BY <1>1 DEF viewVars, ViewsInv
<1>2. CASE \/ ShowOrHide \/ CloseView \/ PurgeView \/ Retier \/ Hang \/ Withhold \/ GiveBack \/ Destroy
           \/ \E h \in ViewHelpers : Offers(h)
  BY <1>2, OthersKeep
<1>3. ASSUME NEW r \in Reqs,
             \/ \E op \in {"view", "stream"}, v \in Viewers \ {"panel"} : ViewBegin(r, op, v)
             \/ ViewTier(r) \/ FindMine(r) \/ ThirdParty(r) \/ Insider(r) \/ ReadChat(r)
             \/ ListPhotos(r) \/ ReadNames(r)
             \/ FindMedia(r) \/ StreamAccess(r) \/ StreamTier(r) \/ OpenBytes(r)
      PROVE  ViewsInv'
  BY <1>3, ViewBeginKeeps, ViewTierKeeps, FindMineKeeps, ThirdPartyKeeps, InsiderKeeps,
     ReadChatKeeps,
     ListPhotosKeeps, ReadNamesKeeps, FindMediaKeeps, StreamAccessKeeps, StreamTierKeeps, OpenBytesKeeps
<1>4. ASSUME NEW r \in Reqs,
             \/ PanelBegin(r) \/ PanelTier(r) \/ \E part \in {"timeline", "media", "offers"} : PanelRead(r, part)
             \/ PositionBegin(r) \/ EvidenceBegin(r) \/ ReadThreads(r) \/ ReadWords(r)
             \/ FeedBegin(r) \/ FeedTier(r) \/ FeedDirection(r)
             \/ Answered(r)
             \/ GivesUp(r) /\ UNCHANGED dossier
      PROVE  ViewsInv'
  BY <1>4, PanelBeginKeeps, PanelTierKeeps, PanelReadKeeps, PositionBeginKeeps,
     EvidenceBeginKeeps, EvidenceKeeps,
     FeedBeginKeeps, FeedKeeps, ReadEnds
<1>5. QED
  BY <1>1, <1>2, <1>3, <1>4 DEF ViewsNext

\* Whatever happens to a case while a view of it is put together, the view shows nothing that
\* its reader was not entitled to at some moment of the request (getReportView,
\* getReportMediaVariant and the panel detail, position and evidence, and the feed).
THEOREM ShownWhatWasVisible == ViewsSpec => [](ViewsTypeOK /\ OnlyWhatWasVisible)
<1>1. ViewsInit => ViewsInv
  BY ViewsStart
<1>2. ViewsInv /\ [ViewsNext]_viewVars => ViewsInv'
  BY ViewsStep
<1>3. ViewsInv => ViewsTypeOK /\ OnlyWhatWasVisible
  BY ViewsMean
<1>4. QED
  BY <1>1, <1>2, <1>3, PTL DEF ViewsSpec

----------------------------------------------------------------------------
(* ReportLists: the desk misses nothing                                    *)

\* A row's rank is the number of rows ahead of it, so that at most k rows have a rank below
\* k, and after a page that is not full comes nobody. A ranking is what the tiers are, but
\* for those that moved since; a count is right as long as no case moved, and the tiers
\* read so far hold the cases of the categories sorted so far.

\* A total order on the rows of a list, and who stands ahead of a row.
Orders(R, M) ==
    /\ \A i \in M : <<i, i>> \notin R
    /\ \A i, j, k \in M : <<i, j>> \in R /\ <<j, k>> \in R => <<i, k>> \in R
    /\ \A i, j \in M : i = j \/ <<i, j>> \in R \/ <<j, i>> \in R

Ahead(M, R, i) == {j \in M : <<j, i>> \in R}
Rank(M, R, i) == Cardinality(Ahead(M, R, i))
OnPage(M, R, first, n) == {i \in M : Rank(M, R, i) \in first .. first + n - 1}

LEMMA SmallestOf ==
    ASSUME NEW T \in SUBSET Nat, T # {}
    PROVE  \E n \in T : \A m \in T : n <= m
<1>1. \E n \in T : \A m \in T : ~ (<<m, n>> \in OpToRel(<, Nat))
  BY WFMin, NatLessThanWellFounded
<1>2. ASSUME NEW m \in Nat, NEW n \in Nat, m < n PROVE <<m, n>> \in OpToRel(<, Nat)
  BY <1>2 DEF OpToRel
<1>3. PICK n \in T : \A m \in T : ~ (<<m, n>> \in OpToRel(<, Nat))
  BY <1>1
<1>4. ASSUME NEW m \in T PROVE n <= m
  <2>1. ~ (m < n)
    BY <1>2, <1>3
  <2>2. n \in Nat /\ m \in Nat
    OBVIOUS
  <2>3. QED
    BY <2>1, <2>2
<1>5. QED
  BY <1>4

LEMMA RanksAreNumbers ==
    ASSUME NEW M, IsFiniteSet(M), NEW R, NEW i
    PROVE  IsFiniteSet(Ahead(M, R, i)) /\ Rank(M, R, i) \in Nat
<1>1. Ahead(M, R, i) \in SUBSET M
  BY DEF Ahead
<1>2. IsFiniteSet(Ahead(M, R, i))
  BY <1>1, FS_Subset
<1>3. QED
  BY <1>2, FS_CardinalityType DEF Rank

\* Whoever stands behind has more ahead.
LEMMA BehindHasMoreAhead ==
    ASSUME NEW M, IsFiniteSet(M), NEW R, Orders(R, M), NEW i \in M, NEW j \in M, <<i, j>> \in R
    PROVE  Rank(M, R, i) < Rank(M, R, j)
<1>1. Ahead(M, R, i) \in SUBSET Ahead(M, R, j)
  BY DEF Ahead, Orders
<1>2. i \in Ahead(M, R, j) /\ i \notin Ahead(M, R, i)
  BY DEF Ahead, Orders
<1>3. IsFiniteSet(Ahead(M, R, j)) /\ Rank(M, R, i) \in Nat /\ Rank(M, R, j) \in Nat
  BY RanksAreNumbers
<1>4. /\ Cardinality(Ahead(M, R, i)) <= Cardinality(Ahead(M, R, j))
      /\ Cardinality(Ahead(M, R, i)) # Cardinality(Ahead(M, R, j))
  BY <1>1, <1>2, <1>3, FS_Subset
<1>5. QED
  BY <1>3, <1>4 DEF Rank

\* So that ranks are places: at most k rows have less than k ahead.
LEMMA PlacesAreFew ==
    ASSUME NEW M, IsFiniteSet(M), NEW R, Orders(R, M), NEW k \in Nat
    PROVE  LET H == {i \in M : Rank(M, R, i) < k} IN
           IsFiniteSet(H) /\ Cardinality(H) \in Nat /\ Cardinality(H) <= k
<1> DEFINE H == {i \in M : Rank(M, R, i) < k}
           place == [i \in H |-> Rank(M, R, i)]
<1>1. \A i \in M : Rank(M, R, i) \in Nat
  BY RanksAreNumbers
<1>2. IsFiniteSet(H)
  BY FS_Subset
<1>3. IsFiniteSet(0 .. k - 1) /\ Cardinality(0 .. k - 1) = k
  BY FS_Interval
<1>4. place \in [H -> 0 .. k - 1]
  BY <1>1
<1>5. ASSUME NEW i \in H, NEW j \in H, place[i] = place[j] PROVE i = j
  <2>1. Rank(M, R, i) = Rank(M, R, j)
    BY <1>5
  <2>2. <<i, j>> \notin R /\ <<j, i>> \notin R
    BY <2>1, <1>1, BehindHasMoreAhead
  <2>3. QED
    BY <2>2 DEF Orders
<1>6. place \in Injection(H, 0 .. k - 1)
  <2>1. IsInjective(place)
    BY <1>5 DEF IsInjective
  <2>2. QED
    BY <1>4, <2>1 DEF Injection
<1>7. Cardinality(H) <= k
  BY <1>3, <1>6, FS_Injection
<1>8. QED
  BY <1>2, <1>7, FS_CardinalityType

\* And after a page that is not full comes nobody.
LEMMA AfterAShortPage ==
    ASSUME NEW M, IsFiniteSet(M), NEW R, Orders(R, M), NEW first \in Nat, NEW n \in Nat,
           Cardinality(OnPage(M, R, first, n)) < n
    PROVE  \A i \in M : Rank(M, R, i) < first + n
<1> DEFINE T == {Rank(M, R, i) : i \in {j \in M : Rank(M, R, j) >= first + n}}
           H == {i \in M : Rank(M, R, i) < first}
           P == OnPage(M, R, first, n)
<1>1. \A i \in M : Rank(M, R, i) \in Nat
  BY RanksAreNumbers
<1>2. SUFFICES ASSUME T # {} PROVE FALSE
  BY <1>1
<1>3. T \in SUBSET Nat
  BY <1>1
<1>4. PICK least \in T : \A m \in T : least <= m
  BY <1>2, <1>3, SmallestOf
<1>5. PICK i \in M : Rank(M, R, i) = least /\ least >= first + n
  BY <1>4
<1>6. Ahead(M, R, i) \in SUBSET (H \cup P)
  <2>1. SUFFICES ASSUME NEW j \in Ahead(M, R, i) PROVE j \in H \cup P
    OBVIOUS
  <2>2. j \in M /\ <<j, i>> \in R
    BY <2>1 DEF Ahead
  <2>3. Rank(M, R, j) < least
    BY <2>2, <1>5, BehindHasMoreAhead
  <2>4. Rank(M, R, j) < first + n
    <3>1. Rank(M, R, j) \notin T
      BY <2>2, <2>3, <1>1, <1>3, <1>4
    <3>2. QED
      BY <3>1, <2>2, <1>1
  <2>5. QED
    BY <2>2, <2>4, <1>1 DEF OnPage
<1>7. IsFiniteSet(H) /\ Cardinality(H) \in Nat /\ Cardinality(H) <= first
  BY PlacesAreFew
<1>8. IsFiniteSet(P) /\ Cardinality(P) \in Nat
  <2>1. P \in SUBSET M
    BY DEF OnPage
  <2>2. QED
    BY <2>1, FS_Subset, FS_CardinalityType
<1>9. IsFiniteSet(H \cup P) /\ Cardinality(H \cup P) \in Nat /\ Cardinality(H \cup P) < first + n
  <2>1. IsFiniteSet(H \cap P)
    BY <1>7, FS_Intersection
  <2>2. Cardinality(H \cap P) \in Nat
    BY <2>1, FS_CardinalityType
  <2>3. /\ IsFiniteSet(H \cup P)
        /\ Cardinality(H \cup P) = Cardinality(H) + Cardinality(P) - Cardinality(H \cap P)
    BY <1>7, <1>8, FS_Union
  <2>4. QED
    BY <2>2, <2>3, <1>7, <1>8, FS_CardinalityType
<1>10. Rank(M, R, i) <= Cardinality(H \cup P)
  BY <1>6, <1>9, FS_Subset DEF Rank
<1>11. QED
  BY <1>1, <1>5, <1>9, <1>10

\* The invariant.

Rankings == UNION {[D -> ListTiers] : D \in SUBSET Categories}
Counts   == Nat \cup [Categories -> Nat] \cup [{"open", "resolved"} -> Nat]
GroupCounts  == UNION {[D -> Counts] : D \in SUBSET Groups}
Moved    == SUBSET (Nat \cup Categories)

Listings == [op : {"list"}, pc : {"tiers", "count", "rows", "listed"}, filter : Filters, page : Pages,
             ranked : Rankings, stirred : Moved, shown : SUBSET Nat]
Summing  == [op : {"stats"}, pc : {"counts", "tiers", "counted"}, left : SUBSET Groups, stirred : Moved,
             counted : GroupCounts, byTier : [ListTiers -> Nat], untiered : SUBSET Categories]

\* PagesPassNobodyOver, of one page.
Still(q, i) == {i, reports[i].category} \cap q.stirred = {}
PassedOver(q) == {i \in DOMAIN reports : Still(q, i) /\ i \notin q.shown /\ Matches(q.filter, tiers, i)}
Room(q) == (q.page - 1) * PageSize

PageOK(q) ==
    /\ Cardinality(q.shown) < PageSize => Cardinality(PassedOver(q)) <= Room(q)
    /\ \A j \in q.shown : Still(q, j) =>
          Cardinality({i \in PassedOver(q) : ComesFirst(q.filter, i, j)}) <= Room(q)

\* A ranking is what the tiers are, but for those that moved.
ListOK(q) ==
    /\ q.shown \subseteq DOMAIN reports
    /\ \A c \in DOMAIN q.ranked \ q.stirred : q.ranked[c] = tiers[c]
    /\ q.pc # "listed" => q.shown = {}
    /\ q.pc \in {"count", "rows"} /\ q.filter # "hidden" => DOMAIN q.ranked = Categories
    /\ q.pc = "listed" => PageOK(q)

\* What was counted and what was sorted into tiers, if nothing moved.
InTiers(D)   == {i \in DOMAIN reports : reports[i].category \in D}
InTier(D, t) == {i \in DOMAIN reports : reports[i].category \in D /\ tiers[reports[i].category] = t}
Sorted(q)    == Categories \ q.untiered

SumsOK(q) ==
    /\ DOMAIN q.counted = Groups \ q.left
    /\ "totals" \in DOMAIN q.counted => q.counted["totals"] \in Nat
    /\ "category" \in DOMAIN q.counted => q.counted["category"] \in [Categories -> Nat]
    /\ q.pc = "counts" => q.untiered = Categories
    /\ q.pc # "counts" => q.left = {}
    /\ q.pc = "counted" => q.untiered = {}

TrueOK(q) ==
    q.stirred \subseteq Categories =>
        /\ "totals" \in DOMAIN q.counted => q.counted["totals"] = Len(reports)
        /\ "category" \in DOMAIN q.counted =>
              \A c \in Categories : q.counted["category"][c] = Cardinality(InTiers({c}))
        /\ q.byTier["high"] + q.byTier["medium"] + q.byTier["low"] = Cardinality(InTiers(Sorted(q)))
        /\ q.stirred = {} => \A t \in ListTiers : q.byTier[t] = Cardinality(InTier(Sorted(q), t))

Sound == {Idle} \cup {q \in Listings : ListOK(q)} \cup {q \in Summing : SumsOK(q) /\ TrueOK(q)}

ListsTyped == reports \in Seq(SearchRow) /\ Len(reports) <= Listed /\ tiers \in [Categories -> ListTiers]

ListsInv == ListsTyped /\ rq \in [Reqs -> Sound]

LEMMA ListsSizes ==
    /\ Listed \in Nat /\ PageSize \in Nat /\ PageSize > 0 /\ IsFiniteSet(Categories)
    /\ \A c \in Categories : c \notin Nat
    /\ \A page \in Pages : (page - 1) * PageSize \in Nat
<1>1. /\ {Listed, PageSize, CountFloor, MaxStirs} \subseteq Nat \ {0} /\ Pages \subseteq Nat \ {0}
      /\ IsFiniteSet(Categories) /\ \A c \in Categories : c \notin Nat
  BY ListsAssumption
<1>2. \A a, b \in Nat : a * b \in Nat
  OBVIOUS
<1>3. \A page \in Pages : page - 1 \in Nat
  BY <1>1
<1>4. QED
  BY <1>1, <1>2, <1>3

LEMMA RankingIs ==
    ASSUME NEW f
    PROVE  f \in Rankings <=> DOMAIN f \subseteq Categories /\ f \in [DOMAIN f -> ListTiers]
BY DEF Rankings

LEMMA CountedIs ==
    ASSUME NEW f
    PROVE  f \in GroupCounts <=> DOMAIN f \subseteq Groups /\ f \in [DOMAIN f -> Counts]
BY DEF GroupCounts

LEMMA SoundIs ==
    ASSUME NEW q
    PROVE  /\ q \in Sound /\ q.op = "idle" => q = Idle
           /\ q \in Sound /\ q.op = "list" => q \in Listings /\ ListOK(q)
           /\ q \in Sound /\ q.op = "stats" => q \in Summing /\ SumsOK(q) /\ TrueOK(q)
           /\ q \in Sound => q.op \in {"idle", "list", "stats"}
           /\ Idle \in Sound
BY DEF Sound, Idle, Listings, Summing

LEMMA RowsAre ==
    ASSUME ListsTyped
    PROVE  /\ Len(reports) \in Nat /\ DOMAIN reports = 1 .. Len(reports)
           /\ \A i \in DOMAIN reports : i \in Nat /\ reports[i] \in SearchRow /\ reports[i].category \in Categories
           /\ IsFiniteSet(DOMAIN reports) /\ Cardinality(DOMAIN reports) = Len(reports)
<1>1. PICK n \in Nat : n = Len(reports) /\ DOMAIN reports = 1 .. n
  BY DEF ListsTyped
<1>2. IsFiniteSet(1 .. n) /\ Cardinality(1 .. n) = n
  BY FS_Interval
<1>3. ASSUME NEW i \in DOMAIN reports PROVE reports[i] \in SearchRow
  BY <1>3 DEF ListsTyped
<1>4. \A i \in DOMAIN reports : i \in Nat /\ reports[i] \in SearchRow /\ reports[i].category \in Categories
  BY <1>1, <1>3 DEF SearchRow
<1>5. QED
  BY <1>1, <1>2, <1>4

LEMMA ListsMean == ASSUME ListsInv PROVE ListsTypeOK /\ DeskMissesNothing
<1>1. ListsTypeOK
  <2>1. ASSUME NEW r \in Reqs, rq[r].op = "list" PROVE rq[r].shown \subseteq DOMAIN reports
    BY <2>1, SoundIs DEF ListsInv, ListOK
  <2>2. QED
    BY <2>1 DEF ListsInv, ListsTyped, ListsTypeOK
<1>2. PagesPassNobodyOver
  <2>1. ASSUME NEW r \in Reqs, At(r, "list", "listed") PROVE PageOK(rq[r])
    BY <2>1, SoundIs DEF ListsInv, ListOK, At
  <2>2. QED
    BY <2>1 DEF PagesPassNobodyOver, PageOK, PassedOver, Still, Room
<1>3. StatsAddUp
  <2>1. ASSUME NEW r \in Reqs, At(r, "stats", "counted")
        PROVE  /\ rq[r].stirred \subseteq Categories =>
                    rq[r].byTier["high"] + rq[r].byTier["medium"] + rq[r].byTier["low"] = rq[r].counted["totals"]
               /\ rq[r].stirred = {} =>
                    \A t \in ListTiers : rq[r].byTier[t] = Cardinality({i \in DOMAIN reports :
                                                                        tiers[reports[i].category] = t})
    <3>1. PICK q : q = rq[r]
      OBVIOUS
    <3>2. q \in Summing /\ SumsOK(q) /\ TrueOK(q) /\ q.pc = "counted"
      BY <2>1, <3>1, SoundIs DEF ListsInv, At
    <3>3. q.untiered = {} /\ "totals" \in DOMAIN q.counted
      BY <3>2 DEF SumsOK, Groups
    <3>4. \A i \in DOMAIN reports : reports[i].category \in Categories
      BY RowsAre DEF ListsInv
    <3>5. InTiers(Sorted(q)) = DOMAIN reports /\ Cardinality(DOMAIN reports) = Len(reports)
      BY <3>3, <3>4, RowsAre DEF Sorted, InTiers, ListsInv
    <3>6. \A t : InTier(Sorted(q), t) = {i \in DOMAIN reports : tiers[reports[i].category] = t}
      BY <3>3, <3>4 DEF Sorted, InTier
    <3>7. q.stirred \subseteq Categories =>
             q.byTier["high"] + q.byTier["medium"] + q.byTier["low"] = q.counted["totals"]
      BY <3>2, <3>3, <3>5 DEF TrueOK
    <3>8. q.stirred = {} =>
             \A t \in ListTiers : q.byTier[t] = Cardinality({i \in DOMAIN reports : tiers[reports[i].category] = t})
      BY <3>2, <3>6 DEF TrueOK
    <3>9. QED
      BY <3>1, <3>7, <3>8
  <2>2. QED
    BY <2>1 DEF StatsAddUp, StatsSent
<1>4. QED
  BY <1>1, <1>2, <1>3 DEF DeskMissesNothing

LEMMA ListsInitially == ListsInit => ListsInv
BY SoundIs, ListsSizes DEF ListsInit, HandlersInit, ListsInv, ListsTyped

\* Something moves while a list is made.

OnlyMoves(x) ==
    /\ DOMAIN reports \subseteq DOMAIN reports'
    /\ \A i \in DOMAIN reports' : i # x => i \in DOMAIN reports /\ reports'[i] = reports[i]
    /\ \A c \in Categories : c # x => tiers'[c] = tiers[c]
    /\ x \in Categories => reports' = reports

LEMMA StillSame ==
    ASSUME ListsTyped, ListsTyped', NEW x, OnlyMoves(x), NEW q, NEW p,
           p.stirred = q.stirred \cup {x},
           NEW i \in DOMAIN reports', Still(p, i)'
    PROVE  /\ i \in DOMAIN reports /\ reports'[i] = reports[i] /\ Still(q, i)
           /\ tiers'[reports[i].category] = tiers[reports[i].category]
           /\ \A filter : Matches(filter, tiers, i)' <=> Matches(filter, tiers, i)
<1>1. i # x /\ i \notin q.stirred
  BY DEF Still
<1>2. i \in DOMAIN reports /\ reports'[i] = reports[i]
  BY <1>1 DEF OnlyMoves
<1>3. reports[i].category \in Categories
  BY <1>2, RowsAre
<1>4. reports[i].category # x /\ reports[i].category \notin q.stirred
  BY <1>2 DEF Still
<1>5. tiers'[reports[i].category] = tiers[reports[i].category]
  BY <1>3, <1>4 DEF OnlyMoves
<1>6. \A filter : Matches(filter, tiers, i)' <=> Matches(filter, tiers, i)
  BY <1>2, <1>5 DEF Matches, Waits
<1>7. QED
  BY <1>1, <1>2, <1>4, <1>5, <1>6 DEF Still

LEMMA PageStays ==
    ASSUME ListsTyped, ListsTyped', NEW x, OnlyMoves(x), NEW q, NEW p, PageOK(q), Room(q) \in Nat,
           p.stirred = q.stirred \cup {x}, p.shown = q.shown, p.filter = q.filter, p.page = q.page,
           p.shown \subseteq DOMAIN reports
    PROVE  PageOK(p)'
<1>1. IsFiniteSet(DOMAIN reports)
  BY RowsAre
<1>2. PassedOver(p)' \subseteq PassedOver(q)
  BY StillSame DEF PassedOver
<1>3. \A T \in SUBSET PassedOver(q) : IsFiniteSet(T) /\ Cardinality(T) \in Nat
  <2>1. ASSUME NEW T \in SUBSET PassedOver(q) PROVE T \in SUBSET DOMAIN reports
    BY DEF PassedOver
  <2>2. QED
    BY <1>1, <2>1, FS_Subset, FS_CardinalityType
<1>4. Room(p)' = Room(q)
  BY DEF Room
<1>5. Cardinality(p.shown) < PageSize => Cardinality(PassedOver(p)') <= Room(q)
  <2>1. Cardinality(PassedOver(p)') <= Cardinality(PassedOver(q))
    BY <1>2, <1>3, FS_Subset
  <2>2. QED
    BY <1>2, <1>3, <2>1 DEF PageOK
<1>6. ASSUME NEW j \in p.shown, Still(p, j)'
      PROVE  Cardinality({i \in PassedOver(p) : ComesFirst(p.filter, i, j)}') <= Room(q)
  <2> DEFINE B == {i \in PassedOver(q) : ComesFirst(q.filter, i, j)}
             A == {i \in PassedOver(p) : ComesFirst(p.filter, i, j)}'
  <2>1. j \in DOMAIN reports'
    BY DEF OnlyMoves
  <2>2. /\ Still(q, j) /\ reports'[j] = reports[j]
        /\ tiers'[reports[j].category] = tiers[reports[j].category]
    BY <1>6, <2>1, StillSame
  <2>3. Cardinality(B) <= Room(q)
    BY <1>6, <2>2 DEF PageOK
  <2>4. A \subseteq B
    <3>1. SUFFICES ASSUME NEW i \in PassedOver(p)', ComesFirst(p.filter, i, j)'
                   PROVE  ComesFirst(q.filter, i, j)
      BY <1>2
    <3>2. i \in DOMAIN reports' /\ Still(p, i)'
      BY DEF PassedOver
    <3>3. reports'[i] = reports[i] /\ tiers'[reports[i].category] = tiers[reports[i].category]
      BY <3>2, StillSame
    <3>4. QED
      BY <2>2, <3>1, <3>3 DEF ComesFirst
  <2>5. /\ IsFiniteSet(B) /\ Cardinality(A) <= Cardinality(B) /\ Cardinality(A) \in Nat
        /\ Cardinality(B) \in Nat
    BY <1>3, <2>4, FS_Subset
  <2>6. QED
    BY <2>3, <2>5
<1>7. QED
  BY <1>4, <1>5, <1>6 DEF PageOK

LEMMA ListStays ==
    ASSUME ListsTyped, ListsTyped', NEW x \in Nat \cup Categories, OnlyMoves(x),
           NEW q \in Listings, ListOK(q),
           NEW p, p = [q EXCEPT !.stirred = q.stirred \cup {x}]
    PROVE  p \in Sound'
<1>1. /\ p \in Listings /\ p.op = "list" /\ p.pc = q.pc /\ p.filter = q.filter /\ p.page = q.page
      /\ p.ranked = q.ranked /\ p.stirred = q.stirred \cup {x} /\ p.shown = q.shown
  BY DEF Listings, Moved
<1>2. p.shown \subseteq DOMAIN reports /\ p.shown \subseteq DOMAIN reports'
  BY <1>1 DEF ListOK, OnlyMoves
<1>3. \A c \in DOMAIN p.ranked \ p.stirred : p.ranked[c] = tiers'[c]
  <2>1. DOMAIN q.ranked \subseteq Categories
    BY RankingIs DEF Listings
  <2>2. QED
    BY <1>1, <2>1 DEF ListOK, OnlyMoves
<1>4. p.pc = "listed" => PageOK(p)'
  <2>1. Room(q) \in Nat
    BY ListsSizes DEF Room, Listings
  <2>2. QED
    BY <1>1, <1>2, <2>1, PageStays DEF ListOK
<1>5. ListOK(p)'
  BY <1>1, <1>2, <1>3, <1>4 DEF ListOK
<1>6. QED
  BY <1>1, <1>5 DEF Sound

LEMMA SumsStay ==
    ASSUME ListsTyped, ListsTyped', NEW x \in Nat \cup Categories, OnlyMoves(x),
           NEW q \in Summing,
           SumsOK(q), TrueOK(q), NEW p, p = [q EXCEPT !.stirred = q.stirred \cup {x}]
    PROVE  p \in Sound'
<1>1. /\ p \in Summing /\ p.pc = q.pc /\ p.left = q.left /\ p.stirred = q.stirred \cup {x}
      /\ p.counted = q.counted /\ p.byTier = q.byTier /\ p.untiered = q.untiered
  BY DEF Summing, Moved
<1>2. SumsOK(p)'
  BY <1>1 DEF SumsOK
<1>3. p.stirred # {}
  BY <1>1
<1>4. p.stirred \subseteq Categories => q.stirred \subseteq Categories /\ reports' = reports
  BY <1>1 DEF OnlyMoves
<1>5. TrueOK(p)'
  BY <1>1, <1>3, <1>4 DEF TrueOK, InTiers, Sorted
<1>6. QED
  BY <1>1, <1>2, <1>5 DEF Sound

LEMMA StirKeeps ==
    ASSUME ListsInv, ListsTyped', NEW x \in Nat \cup Categories, OnlyMoves(x), Stir(x)
    PROVE  ListsInv'
<1>1. rq' = [r \in Reqs |-> IF rq[r].op = "idle" THEN rq[r] ELSE [rq[r] EXCEPT !.stirred = rq[r].stirred \cup {x}]]
  BY DEF Stir
<1>2. ASSUME NEW r \in Reqs PROVE rq'[r] \in Sound'
  <2>1. PICK q : q = rq[r] /\ q \in Sound
    BY DEF ListsInv
  <2>2. CASE q.op = "idle"
    <3>1. rq'[r] = Idle
      BY <1>1, <2>1, <2>2, SoundIs
    <3>2. QED
      BY <3>1 DEF Sound
  <2>3. CASE q.op # "idle"
    <3>1. PICK p : p = [q EXCEPT !.stirred = q.stirred \cup {x}]
      OBVIOUS
    <3>2. rq'[r] = p
      BY <1>1, <2>1, <2>3, <3>1
    <3>3. CASE q.op = "list"
      BY <2>1, <3>1, <3>2, <3>3, SoundIs, ListStays DEF ListsInv
    <3>4. CASE q.op = "stats"
      BY <2>1, <3>1, <3>2, <3>4, SoundIs, SumsStay DEF ListsInv
    <3>5. QED
      BY <2>1, <2>3, <3>3, <3>4, SoundIs
  <2>4. QED
    BY <2>2, <2>3
<1>3. QED
  BY <1>1, <1>2 DEF ListsInv

LEMMA DeskMovesKeep ==
    ASSUME ListsInv,
           \/ \E c \in Categories : Arrives(c) \/ Retiers(c)
           \/ \E i \in DOMAIN reports : Hides(i) \/ Reviews(i) \/ Resolves(i) \/ Pictures(i)
    PROVE  ListsInv'
<1>1. /\ Len(reports) \in Nat /\ DOMAIN reports = 1 .. Len(reports) /\ reports \in Seq(SearchRow)
      /\ \A i \in DOMAIN reports : reports[i] \in SearchRow
  BY RowsAre DEF ListsInv, ListsTyped
<1>2. ASSUME NEW c \in Categories, Arrives(c) PROVE ListsInv'
  <2>1. PICK row \in SearchRow : reports' = Append(reports, row)
    <3>1. [category |-> c, status |-> "open", hidden |-> FALSE, reviewed |-> FALSE, pictured |-> FALSE] \in SearchRow
      BY DEF SearchRow
    <3>2. QED
      BY <1>2, <3>1 DEF Arrives
  <2>2. PICK n \in Nat : n = Len(reports)
    BY <1>1
  <2>3. /\ reports' \in Seq(SearchRow) /\ Len(reports') = n + 1 /\ DOMAIN reports' = 1 .. n + 1
        /\ \A i \in 1 .. n : reports'[i] = reports[i]
    BY <1>1, <2>1, <2>2
  <2>4. ListsTyped'
    <3>1. n < Listed /\ tiers' = tiers
      BY <1>2, <2>2 DEF Arrives
    <3>2. n + 1 <= Listed
      BY <3>1, ListsSizes
    <3>3. QED
      BY <2>3, <3>1, <3>2 DEF ListsInv, ListsTyped
  <2>5. OnlyMoves(n + 1)
    <3>1. n + 1 \notin Categories /\ tiers' = tiers
      BY <1>2, ListsSizes DEF Arrives
    <3>2. DOMAIN reports \subseteq DOMAIN reports'
      BY <1>1, <2>2, <2>3
    <3>3. \A i \in DOMAIN reports' : i # n + 1 => i \in DOMAIN reports /\ reports'[i] = reports[i]
      BY <1>1, <2>2, <2>3
    <3>4. QED
      BY <3>1, <3>2, <3>3 DEF OnlyMoves
  <2>6. Stir(n + 1)
    BY <1>2, <2>2 DEF Arrives
  <2>7. QED
    BY <2>4, <2>5, <2>6, StirKeeps
<1>3. ASSUME NEW c \in Categories, Retiers(c) PROVE ListsInv'
  <2>1. PICK t \in ListTiers : tiers' = [tiers EXCEPT ![c] = t] /\ Stir(c) /\ UNCHANGED reports
    BY <1>3 DEF Retiers
  <2>2. ListsTyped' /\ OnlyMoves(c)
    BY <2>1 DEF ListsInv, ListsTyped, OnlyMoves
  <2>3. QED
    BY <2>1, <2>2, StirKeeps
<1>4. ASSUME NEW i \in DOMAIN reports, NEW row \in SearchRow, Becomes(i, row) PROVE ListsInv'
  <2>1. reports' = [reports EXCEPT ![i] = row] /\ Stir(i) /\ UNCHANGED tiers /\ i \in Nat
    BY <1>1, <1>4 DEF Becomes
  <2>2. /\ reports' \in Seq(SearchRow) /\ Len(reports') = Len(reports)
        /\ DOMAIN reports' = DOMAIN reports
    BY <1>1, <2>1
  <2>3. ListsTyped' /\ OnlyMoves(i)
    BY <2>1, <2>2, ListsSizes DEF ListsInv, ListsTyped, OnlyMoves
  <2>4. QED
    BY <2>1, <2>3, StirKeeps
<1>5. ASSUME NEW i \in DOMAIN reports, Hides(i) \/ Reviews(i) \/ Resolves(i) \/ Pictures(i)
      PROVE  ListsInv'
  <2>1. reports[i] \in SearchRow
    BY <1>1
  <2>2. CASE Hides(i)
    BY <1>4, <2>1, <2>2 DEF Hides, SearchRow
  <2>3. CASE Reviews(i)
    BY <1>4, <2>1, <2>3 DEF Reviews, SearchRow
  <2>4. CASE Resolves(i)
    BY <1>4, <2>1, <2>4 DEF Resolves, SearchRow
  <2>5. CASE Pictures(i)
    BY <1>4, <2>1, <2>5 DEF Pictures, SearchRow
  <2>6. QED
    BY <1>5, <2>2, <2>3, <2>4, <2>5
<1>6. QED
  BY <1>2, <1>3, <1>5

\* A list is made.

LEMMA MakingKeeps ==
    ASSUME ListsInv, UNCHANGED <<reports, tiers>>, NEW r \in Reqs, NEW q \in Sound,
           rq' = [rq EXCEPT ![r] = q]
    PROVE  ListsInv'
<1>1. Sound' = Sound
  BY DEF Sound, ListOK, SumsOK, TrueOK, PageOK, PassedOver, Still, Room, ComesFirst, Matches,
         Waits, InTiers, InTier, Sorted
<1>2. ListsTyped'
  BY DEF ListsInv, ListsTyped
<1>3. rq' \in [Reqs -> Sound]
  BY DEF ListsInv
<1>4. QED
  BY <1>1, <1>2, <1>3 DEF ListsInv

LEMMA InHandOf ==
    ASSUME ListsInv, NEW r \in Reqs
    PROVE  /\ rq[r].op = "list" => rq[r] \in Listings /\ ListOK(rq[r])
           /\ rq[r].op = "stats" => rq[r] \in Summing /\ SumsOK(rq[r]) /\ TrueOK(rq[r])
BY SoundIs DEF ListsInv

LEMMA EndKeeps == ASSUME ListsInv, UNCHANGED <<reports, tiers>>, NEW r \in Reqs, Finish(r) PROVE ListsInv'
BY MakingKeeps, SoundIs DEF Finish

LEMMA ListBeginKeeps ==
    ASSUME ListsInv, NEW r \in Reqs, NEW filter \in Filters, NEW page \in Pages,
           ListBegin(r, filter, page)
    PROVE  ListsInv'
<1>1. PICK pc \in {"count", "tiers"} : pc = IF filter = "hidden" THEN "count" ELSE "tiers"
  OBVIOUS
<1>2. PICK q : q = [op |-> "list", pc |-> pc, filter |-> filter, page |-> page, ranked |-> << >>,
                    stirred |-> {}, shown |-> {}]
  OBVIOUS
<1>3. rq' = [rq EXCEPT ![r] = q] /\ UNCHANGED <<reports, tiers>>
  BY <1>1, <1>2 DEF ListBegin, Begin
<1>4. << >> \in Rankings /\ DOMAIN << >> = {}
  <2>1. << >> \in Seq(ListTiers) /\ Len(<< >>) = 0
    OBVIOUS
  <2>2. DOMAIN << >> = {}
    BY <2>1
  <2>3. << >> \in [{} -> ListTiers]
    BY <2>1, <2>2
  <2>4. QED
    BY <2>2, <2>3, RankingIs
<1>5. q \in Listings
  BY <1>1, <1>2, <1>4 DEF Listings, Moved
<1>6. ListOK(q)
  BY <1>1, <1>2, <1>4 DEF ListOK
<1>7. QED
  BY <1>3, <1>5, <1>6, MakingKeeps DEF Sound

LEMMA RankingKeeps ==
    ASSUME ListsInv, NEW r \in Reqs, NEW c \in Categories, RankCategory(r, c) PROVE ListsInv'
<1>1. /\ rq[r].op = "list" /\ rq[r].pc = "tiers" /\ UNCHANGED <<reports, tiers>>
      /\ rq[r] \in Listings /\ ListOK(rq[r])
  BY InHandOf DEF RankCategory, At
<1>2. PICK ranked : ranked = Extend(rq[r].ranked, c, tiers[c])
  OBVIOUS
<1>3. PICK pc \in {"count", "tiers"} : pc = IF DOMAIN ranked = Categories THEN "count" ELSE "tiers"
  OBVIOUS
<1>4. PICK q : q = [op |-> "list", pc |-> pc, filter |-> rq[r].filter, page |-> rq[r].page, ranked |-> ranked,
                    stirred |-> rq[r].stirred, shown |-> rq[r].shown]
  OBVIOUS
<1>5. rq' = [rq EXCEPT ![r] = q]
  <2>1. With(r, [ranked |-> ranked, pc |-> pc])
    BY <1>2, <1>3 DEF RankCategory
  <2>2. [f \in {"ranked", "pc"} \cup DOMAIN rq[r] |->
           IF f \in {"ranked", "pc"} THEN [ranked |-> ranked, pc |-> pc][f] ELSE rq[r][f]] = q
    BY <1>1, <1>4 DEF Listings
  <2>3. QED
    BY <2>1, <2>2 DEF With
<1>6. /\ DOMAIN ranked = DOMAIN rq[r].ranked \cup {c} /\ ranked[c] = tiers[c]
      /\ \A d \in DOMAIN rq[r].ranked \ {c} : ranked[d] = rq[r].ranked[d]
  BY <1>2 DEF Extend
<1>7. ranked \in Rankings
  <2>1. tiers[c] \in ListTiers
    BY DEF ListsInv, ListsTyped
  <2>2. /\ DOMAIN rq[r].ranked \subseteq Categories
        /\ rq[r].ranked \in [DOMAIN rq[r].ranked -> ListTiers]
    BY <1>1, RankingIs DEF Listings
  <2>3. ranked \in [DOMAIN rq[r].ranked \cup {c} -> ListTiers]
    BY <1>2, <2>1, <2>2 DEF Extend
  <2>4. QED
    BY <1>6, <2>2, <2>3, RankingIs
<1>8. q \in Listings
  BY <1>1, <1>3, <1>4, <1>7 DEF Listings
<1>9. ListOK(q)
  BY <1>1, <1>3, <1>4, <1>6 DEF ListOK
<1>10. QED
  BY <1>1, <1>5, <1>8, <1>9, MakingKeeps DEF Sound

LEMMA RowsAreFew == ASSUME ListsInv, NEW T, T \subseteq DOMAIN reports PROVE IsFiniteSet(T) /\ Cardinality(T) \in Nat
BY RowsAre, FS_Subset, FS_CardinalityType DEF ListsInv

\* A case that did not move matches by the ranking if it matches by the tiers.
LEMMA MatchesStill ==
    ASSUME ListsInv, NEW q \in Listings, ListOK(q), q.pc \in {"count", "rows"},
           NEW i \in DOMAIN reports, Still(q, i)
    PROVE  /\ Matches(q.filter, tiers, i) <=> Matches(q.filter, q.ranked, i)
           /\ q.filter # "hidden" => q.ranked[reports[i].category] = tiers[reports[i].category]
<1>1. reports[i].category \in Categories
  BY RowsAre DEF ListsInv
<1>2. q.filter # "hidden" => q.ranked[reports[i].category] = tiers[reports[i].category]
  BY <1>1 DEF ListOK, Still
<1>3. QED
  BY <1>2 DEF Matches

LEMMA CountKeeps == ASSUME ListsInv, NEW r \in Reqs, CountRows(r) PROVE ListsInv'
<1>1. /\ rq[r].op = "list" /\ rq[r].pc = "count" /\ UNCHANGED <<reports, tiers>>
      /\ rq[r] \in Listings /\ ListOK(rq[r])
  BY InHandOf DEF CountRows, At
<1>2. PICK pc \in {"listed", "rows"} : pc = IF Matching(r) = {} THEN "listed" ELSE "rows"
  OBVIOUS
<1>3. PICK q : q = [rq[r] EXCEPT !.pc = pc]
  OBVIOUS
<1>4. rq' = [rq EXCEPT ![r] = q]
  BY <1>2, <1>3 DEF CountRows, Goto
<1>5. /\ q \in Listings /\ q.pc = pc /\ q.filter = rq[r].filter /\ q.page = rq[r].page
      /\ q.ranked = rq[r].ranked
      /\ q.stirred = rq[r].stirred /\ q.shown = {}
  BY <1>1, <1>3 DEF Listings, ListOK
<1>6. pc = "listed" => PageOK(q)
  <2>1. SUFFICES ASSUME Matching(r) = {} PROVE PageOK(q)
    BY <1>2
  <2>2. PassedOver(q) = {}
    <3>1. SUFFICES ASSUME NEW i \in PassedOver(q) PROVE FALSE
      OBVIOUS
    <3>2. i \in DOMAIN reports /\ Still(rq[r], i) /\ Matches(rq[r].filter, tiers, i)
      BY <1>5 DEF PassedOver, Still
    <3>3. Matches(rq[r].filter, rq[r].ranked, i)
      BY <1>1, <3>2, MatchesStill
    <3>4. QED
      BY <2>1, <3>2, <3>3 DEF Matching
  <2>3. Cardinality({}) = 0 /\ Room(q) \in Nat
    BY <1>5, FS_EmptySet, ListsSizes DEF Room, Listings
  <2>4. QED
    BY <1>5, <2>2, <2>3 DEF PageOK
<1>7. ListOK(q)
  BY <1>1, <1>5, <1>6 DEF ListOK
<1>8. QED
  BY <1>1, <1>4, <1>5, <1>7, MakingKeeps DEF Sound

\* The ORDER BY, as a relation on the rows that match.
Ordering(r) == {p \in Matching(r) \X Matching(r) : Before(rq[r].filter, rq[r].ranked, p[1], p[2])}

UrgencyOf(ranked, i) == 2 * TierRank[ranked[reports[i].category]] + (IF reports[i].pictured THEN 0 ELSE 1)

LEMMA OrderingIs ==
    ASSUME NEW r, NEW i \in Matching(r), NEW j \in Matching(r)
    PROVE  <<i, j>> \in Ordering(r) <=>
             IF rq[r].filter = "queue"
             THEN \/ UrgencyOf(rq[r].ranked, i) < UrgencyOf(rq[r].ranked, j)
                  \/ UrgencyOf(rq[r].ranked, i) = UrgencyOf(rq[r].ranked, j) /\ i < j
             ELSE i > j
BY DEF Ordering, Before, UrgencyOf

LEMMA UrgencyIsNumber ==
    ASSUME NEW t \in ListTiers
    PROVE  TierRank[t] \in Nat
BY DEF ListTiers, TierRank

LEMMA RowsAreOrdered ==
    ASSUME ListsInv, NEW r \in Reqs, At(r, "list", "rows") PROVE Orders(Ordering(r), Matching(r))
<1>1. rq[r] \in Listings /\ ListOK(rq[r]) /\ rq[r].pc = "rows"
  BY InHandOf DEF At
<1>2. \A i \in Matching(r) : i \in Nat /\ i \in DOMAIN reports
  BY RowsAre DEF Matching, ListsInv
<1>3. rq[r].filter = "queue" => \A i \in Matching(r) : UrgencyOf(rq[r].ranked, i) \in Int
  <2>1. SUFFICES ASSUME rq[r].filter = "queue", NEW i \in Matching(r)
                 PROVE  UrgencyOf(rq[r].ranked, i) \in Int
    OBVIOUS
  <2>2. reports[i].category \in Categories
    BY <1>2, RowsAre DEF ListsInv
  <2>3. DOMAIN rq[r].ranked = Categories /\ rq[r].ranked \in [DOMAIN rq[r].ranked -> ListTiers]
    BY <1>1, <2>1, RankingIs DEF ListOK, Listings
  <2>4. TierRank[rq[r].ranked[reports[i].category]] \in Nat
    BY <2>2, <2>3, UrgencyIsNumber
  <2>5. QED
    BY <2>4 DEF UrgencyOf
<1>4. CASE rq[r].filter = "queue"
  <2>1. \A i, j \in Matching(r) : <<i, j>> \in Ordering(r) <=>
             \/ UrgencyOf(rq[r].ranked, i) < UrgencyOf(rq[r].ranked, j)
             \/ UrgencyOf(rq[r].ranked, i) = UrgencyOf(rq[r].ranked, j) /\ i < j
    BY <1>4, OrderingIs
  <2>2. QED
    BY <1>2, <1>3, <1>4, <2>1 DEF Orders
<1>5. CASE rq[r].filter # "queue"
  <2>1. \A i, j \in Matching(r) : <<i, j>> \in Ordering(r) <=> i > j
    BY <1>5, OrderingIs
  <2>2. QED
    BY <1>2, <2>1 DEF Orders
<1>6. QED
  BY <1>4, <1>5

LEMMA PageIsMade ==
    ASSUME ListsInv, NEW r \in Reqs, At(r, "list", "rows"), NEW q, q.filter = rq[r].filter,
           q.page = rq[r].page,
           q.stirred = rq[r].stirred, q.shown = OnPage(Matching(r), Ordering(r), Room(rq[r]), PageSize)
    PROVE  PageOK(q)
<1> DEFINE M == Matching(r)
           R == Ordering(r)
           H == {i \in M : Rank(M, R, i) < Room(q)}
<1>1. rq[r] \in Listings /\ ListOK(rq[r]) /\ rq[r].pc = "rows"
  BY InHandOf DEF At
<1>2. Room(q) \in Nat /\ Room(q) = Room(rq[r]) /\ PageSize \in Nat
  BY <1>1, ListsSizes DEF Room, Listings
<1>3. M \subseteq DOMAIN reports /\ IsFiniteSet(M) /\ Orders(R, M)
  BY RowsAreFew, RowsAreOrdered DEF Matching
<1>4. \A i \in M : Rank(M, R, i) \in Nat
  BY <1>3, RanksAreNumbers
<1>5. IsFiniteSet(H) /\ Cardinality(H) \in Nat /\ Cardinality(H) <= Room(q)
  BY <1>2, <1>3, PlacesAreFew
<1>6. PassedOver(q) \subseteq M
  <2>1. SUFFICES ASSUME NEW i \in PassedOver(q) PROVE i \in M
    OBVIOUS
  <2>2. i \in DOMAIN reports /\ Still(rq[r], i) /\ Matches(rq[r].filter, tiers, i)
    BY DEF PassedOver, Still
  <2>3. Matches(rq[r].filter, rq[r].ranked, i)
    BY <1>1, <2>2, MatchesStill
  <2>4. QED
    BY <2>2, <2>3 DEF Matching
<1>7. \A i \in PassedOver(q) : Rank(M, R, i) < Room(q) + PageSize => i \in H
  <2>1. SUFFICES ASSUME NEW i \in PassedOver(q), Rank(M, R, i) < Room(q) + PageSize PROVE i \in H
    OBVIOUS
  <2>2. i \in M /\ i \notin OnPage(M, R, Room(q), PageSize)
    BY <1>2, <1>6 DEF PassedOver
  <2>3. QED
    BY <1>2, <1>4, <2>1, <2>2 DEF OnPage
<1>8. \A T : T \subseteq H => Cardinality(T) <= Room(q)
  <2>1. SUFFICES ASSUME NEW T, T \subseteq H PROVE Cardinality(T) <= Room(q)
    OBVIOUS
  <2>2. IsFiniteSet(T) /\ Cardinality(T) <= Cardinality(H)
    BY <1>5, <2>1, FS_Subset
  <2>3. Cardinality(T) \in Nat
    BY <2>2, FS_CardinalityType
  <2>4. QED
    BY <1>2, <1>5, <2>2, <2>3
<1>9. Cardinality(q.shown) < PageSize => Cardinality(PassedOver(q)) <= Room(q)
  <2>1. SUFFICES ASSUME Cardinality(q.shown) < PageSize PROVE PassedOver(q) \subseteq H
    BY <1>8
  <2>2. \A i \in M : Rank(M, R, i) < Room(q) + PageSize
    BY <1>2, <1>3, <2>1, AfterAShortPage
  <2>3. QED
    BY <1>6, <1>7, <2>2
<1>10. ASSUME NEW j \in q.shown, Still(q, j)
       PROVE  {i \in PassedOver(q) : ComesFirst(q.filter, i, j)} \subseteq H
  <2>1. SUFFICES ASSUME NEW i \in PassedOver(q), ComesFirst(q.filter, i, j) PROVE i \in H
    OBVIOUS
  <2>2. j \in M /\ Rank(M, R, j) < Room(q) + PageSize
    BY <1>2, <1>4 DEF OnPage
  <2>3. i \in M /\ Still(rq[r], i) /\ Still(rq[r], j)
    BY <1>6, <1>10 DEF PassedOver, Still
  <2>4. <<i, j>> \in R
    <3>1. i \in DOMAIN reports /\ j \in DOMAIN reports
      BY <1>3, <2>2, <2>3
    <3>2. CASE q.filter # "queue"
      <4>1. j < i
        BY <2>1, <3>2 DEF ComesFirst
      <4>2. i \in Nat /\ j \in Nat
        BY <3>1, RowsAre DEF ListsInv
      <4>3. QED
        BY <2>2, <2>3, <3>2, <4>1, <4>2, OrderingIs
    <3>3. CASE q.filter = "queue"
      <4>1. /\ rq[r].ranked[reports[i].category] = tiers[reports[i].category]
            /\ rq[r].ranked[reports[j].category] = tiers[reports[j].category]
        BY <1>1, <2>3, <3>1, <3>3, MatchesStill
      <4>2. /\ TierRank[tiers[reports[i].category]] \in Nat
            /\ TierRank[tiers[reports[j].category]] \in Nat
        BY <3>1, RowsAre, UrgencyIsNumber DEF ListsInv, ListsTyped
      <4>3. \/ UrgencyOf(rq[r].ranked, i) < UrgencyOf(rq[r].ranked, j)
            \/ UrgencyOf(rq[r].ranked, i) = UrgencyOf(rq[r].ranked, j) /\ i < j
        BY <2>1, <3>3, <4>1, <4>2 DEF ComesFirst, UrgencyOf
      <4>4. QED
        BY <2>2, <2>3, <3>3, <4>3, OrderingIs
    <3>4. QED
      BY <3>2, <3>3
  <2>5. Rank(M, R, i) < Rank(M, R, j)
    BY <1>3, <2>2, <2>3, <2>4, BehindHasMoreAhead
  <2>6. QED
    BY <1>2, <1>4, <1>7, <2>2, <2>3, <2>5
<1>11. QED
  BY <1>8, <1>9, <1>10 DEF PageOK

LEMMA SelectKeeps == ASSUME ListsInv, NEW r \in Reqs, SelectRows(r) PROVE ListsInv'
<1>1. /\ At(r, "list", "rows") /\ rq[r].op = "list" /\ UNCHANGED <<reports, tiers>>
      /\ rq[r] \in Listings /\ ListOK(rq[r])
  BY InHandOf DEF SelectRows, At
<1>2. PICK page : page = OnPage(Matching(r), Ordering(r), Room(rq[r]), PageSize)
  OBVIOUS
<1>3. With(r, [pc |-> "listed", shown |-> page])
  <2>1. \A i \in Matching(r) :
          {j \in Matching(r) : Before(rq[r].filter, rq[r].ranked, j, i)} = Ahead(Matching(r), Ordering(r), i)
    BY DEF Ahead, Ordering
  <2>2. {i \in Matching(r) : Cardinality({j \in Matching(r) : Before(rq[r].filter, rq[r].ranked, j, i)})
                                \in Room(rq[r]) .. Room(rq[r]) + PageSize - 1} = page
    BY <1>2, <2>1 DEF OnPage, Rank
  <2>3. QED
    BY <2>2 DEF SelectRows, Room
<1>4. PICK q : q = [op |-> "list", pc |-> "listed", filter |-> rq[r].filter, page |-> rq[r].page,
                    ranked |-> rq[r].ranked, stirred |-> rq[r].stirred, shown |-> page]
  OBVIOUS
<1>5. rq' = [rq EXCEPT ![r] = q]
  <2>1. [f \in {"pc", "shown"} \cup DOMAIN rq[r] |->
           IF f \in {"pc", "shown"} THEN [pc |-> "listed", shown |-> page][f] ELSE rq[r][f]] = q
    BY <1>1, <1>4 DEF Listings
  <2>2. QED
    BY <1>3, <2>1 DEF With
<1>6. page \subseteq DOMAIN reports /\ page \subseteq Nat
  BY <1>2, RowsAre DEF OnPage, Matching, ListsInv
<1>7. q \in Listings
  BY <1>1, <1>4, <1>6 DEF Listings
<1>8. PageOK(q)
  BY <1>1, <1>2, <1>4, PageIsMade
<1>9. ListOK(q)
  BY <1>1, <1>4, <1>6, <1>8 DEF ListOK
<1>10. QED
  BY <1>1, <1>5, <1>7, <1>9, MakingKeeps DEF Sound

\* Statistics are made.

LEMMA NothingSorted == Cardinality(InTiers({})) = 0 /\ \A t : Cardinality(InTier({}, t)) = 0
<1>1. InTiers({}) = {} /\ \A t : InTier({}, t) = {}
  BY DEF InTiers, InTier
<1>2. QED
  BY <1>1, FS_EmptySet

LEMMA StatsBeginKeeps == ASSUME ListsInv, NEW r \in Reqs, StatsBegin(r) PROVE ListsInv'
<1>1. PICK q : q = [op |-> "stats", pc |-> "counts", left |-> Groups, stirred |-> {}, counted |-> << >>,
                    byTier |-> [t \in ListTiers |-> 0], untiered |-> Categories]
  OBVIOUS
<1>2. rq' = [rq EXCEPT ![r] = q] /\ UNCHANGED <<reports, tiers>>
  BY <1>1 DEF StatsBegin, Begin
<1>3. DOMAIN << >> = {} /\ << >> \in GroupCounts
  <2>1. << >> \in Seq(Counts) /\ Len(<< >>) = 0
    OBVIOUS
  <2>2. DOMAIN << >> = {}
    BY <2>1
  <2>3. << >> \in [{} -> Counts]
    BY <2>1, <2>2
  <2>4. QED
    BY <2>2, <2>3, CountedIs
<1>4. q \in Summing
  BY <1>1, <1>3 DEF Summing, Moved
<1>5. SumsOK(q)
  BY <1>1, <1>3 DEF SumsOK
<1>6. Sorted(q) = {} /\ \A t \in ListTiers : q.byTier[t] = 0
  BY <1>1 DEF Sorted
<1>7. TrueOK(q)
  <2>1. q.byTier["high"] = 0 /\ q.byTier["medium"] = 0 /\ q.byTier["low"] = 0
    BY <1>6 DEF ListTiers
  <2>2. DOMAIN q.counted = {}
    BY <1>1, <1>3
  <2>3. Cardinality(InTiers(Sorted(q))) = 0 /\ \A t \in ListTiers : Cardinality(InTier(Sorted(q), t)) = 0
    BY <1>6, NothingSorted
  <2>4. QED
    BY <1>6, <2>1, <2>2, <2>3 DEF TrueOK
<1>8. QED
  BY <1>2, <1>4, <1>5, <1>7, MakingKeeps DEF Sound

LEMMA KeepsCount ==
    ASSUME ListsInv, NEW r \in Reqs, NEW group \in Groups, NEW count \in Counts,
           Keeps(r, group, count),
           group = "totals" => count = Len(reports),
           group = "category" => count \in [Categories -> Nat] /\
              \A c \in Categories : count[c] = Cardinality(InTiers({c}))
    PROVE  ListsInv'
<1>1. /\ rq[r].op = "stats" /\ rq[r].pc = "counts" /\ group \in rq[r].left
      /\ UNCHANGED <<reports, tiers>>
      /\ rq[r] \in Summing /\ SumsOK(rq[r]) /\ TrueOK(rq[r])
  BY InHandOf DEF Keeps, At
<1>2. PICK counted : counted = Extend(rq[r].counted, group, count)
  OBVIOUS
<1>3. PICK pc \in {"tiers", "counts"} : pc = IF rq[r].left = {group} THEN "tiers" ELSE "counts"
  OBVIOUS
<1>4. PICK left : left = rq[r].left \ {group}
  OBVIOUS
<1>5. PICK q : q = [op |-> "stats", pc |-> pc, left |-> left, stirred |-> rq[r].stirred, counted |-> counted,
                    byTier |-> rq[r].byTier, untiered |-> rq[r].untiered]
  OBVIOUS
<1>6. rq' = [rq EXCEPT ![r] = q]
  <2>1. With(r, [left |-> left, counted |-> counted, pc |-> pc])
    BY <1>2, <1>3, <1>4 DEF Keeps
  <2>2. [f \in {"left", "counted", "pc"} \cup DOMAIN rq[r] |->
           IF f \in {"left", "counted", "pc"} THEN [left |-> left, counted |-> counted, pc |-> pc][f]
           ELSE rq[r][f]] = q
    <3>1. /\ DOMAIN rq[r] = {"op", "pc", "left", "stirred", "counted", "byTier", "untiered"}
          /\ rq[r].op = "stats"
      BY <1>1 DEF Summing
    <3>2. QED
      BY <1>5, <3>1
  <2>3. QED
    BY <2>1, <2>2 DEF With
<1>7. /\ DOMAIN counted = DOMAIN rq[r].counted \cup {group} /\ counted[group] = count
      /\ \A g \in DOMAIN rq[r].counted \ {group} : counted[g] = rq[r].counted[g]
  BY <1>2 DEF Extend
<1>8. counted \in GroupCounts
  <2>1. /\ DOMAIN rq[r].counted \subseteq Groups
        /\ rq[r].counted \in [DOMAIN rq[r].counted -> Counts]
    BY <1>1, CountedIs DEF Summing
  <2>2. counted \in [DOMAIN rq[r].counted \cup {group} -> Counts]
    BY <1>2, <2>1 DEF Extend
  <2>3. QED
    BY <1>7, <2>1, <2>2, CountedIs
<1>9. q \in Summing
  BY <1>1, <1>3, <1>4, <1>5, <1>8 DEF Summing
<1>10. SumsOK(q)
  <2>1. DOMAIN counted = Groups \ left
    BY <1>1, <1>4, <1>7 DEF SumsOK
  <2>2. "totals" \in DOMAIN counted => counted["totals"] \in Nat
    BY <1>1, <1>7, RowsAre DEF SumsOK, ListsInv
  <2>3. "category" \in DOMAIN counted => counted["category"] \in [Categories -> Nat]
    BY <1>1, <1>7 DEF SumsOK
  <2>4. rq[r].untiered = Categories /\ (pc # "counts" => left = {}) /\ pc # "counted"
    BY <1>1, <1>3, <1>4 DEF SumsOK
  <2>5. QED
    BY <1>5, <2>1, <2>2, <2>3, <2>4 DEF SumsOK
<1>11. TrueOK(q)
  <2>1. SUFFICES ASSUME q.stirred \subseteq Categories
                 PROVE  /\ "totals" \in DOMAIN counted => counted["totals"] = Len(reports)
                        /\ "category" \in DOMAIN counted =>
                              \A c \in Categories : counted["category"][c] = Cardinality(InTiers({c}))
    BY <1>1, <1>5 DEF TrueOK, Sorted
  <2>2. rq[r].stirred \subseteq Categories
    BY <1>5, <2>1
  <2>3. "totals" \in DOMAIN counted => counted["totals"] = Len(reports)
    BY <1>1, <1>7, <2>2 DEF TrueOK
  <2>4. "category" \in DOMAIN counted =>
           \A c \in Categories : counted["category"][c] = Cardinality(InTiers({c}))
    BY <1>1, <1>7, <2>2 DEF TrueOK
  <2>5. QED
    BY <2>3, <2>4
<1>12. QED
  BY <1>1, <1>6, <1>9, <1>10, <1>11, MakingKeeps DEF Sound

LEMMA CountingKeeps ==
    ASSUME ListsInv, NEW r \in Reqs,
           CountTotals(r) \/ CountByCategory(r) \/ CountByStatus(r) \/ CountHidden(r)
    PROVE  ListsInv'
<1>1. CASE CountTotals(r)
  <2>1. Len(reports) \in Counts
    BY RowsAre DEF ListsInv, Counts
  <2>2. QED
    BY <1>1, <2>1, KeepsCount DEF CountTotals, Groups
<1>2. CASE CountByCategory(r)
  <2>1. PICK count : count = [c \in Categories |-> Cardinality({i \in DOMAIN reports : reports[i].category = c})]
    OBVIOUS
  <2>2. ASSUME NEW c \in Categories PROVE count[c] = Cardinality(InTiers({c})) /\ count[c] \in Nat
    <3>1. InTiers({c}) = {i \in DOMAIN reports : reports[i].category = c}
      BY DEF InTiers
    <3>2. QED
      BY <2>1, <3>1, RowsAreFew
  <2>3. count \in [Categories -> Nat]
    BY <2>1, <2>2
  <2>4. count \in Counts
    BY <2>3 DEF Counts
  <2>5. Keeps(r, "category", count)
    BY <1>2, <2>1 DEF CountByCategory
  <2>6. QED
    BY <2>2, <2>3, <2>4, <2>5, KeepsCount DEF Groups
<1>3. CASE CountByStatus(r)
  <2>1. PICK count : count = [s \in {"open", "resolved"} |-> Cardinality({i \in DOMAIN reports : reports[i].status = s})]
    OBVIOUS
  <2>2. \A s \in {"open", "resolved"} : count[s] \in Nat
    BY <2>1, RowsAreFew
  <2>3. count \in Counts
    BY <2>1, <2>2 DEF Counts
  <2>4. Keeps(r, "status", count)
    BY <1>3, <2>1 DEF CountByStatus
  <2>5. QED
    BY <2>3, <2>4, KeepsCount DEF Groups
<1>4. CASE CountHidden(r)
  <2>1. PICK count : count = Cardinality({i \in DOMAIN reports : reports[i].hidden})
    OBVIOUS
  <2>2. count \in Counts
    BY <2>1, RowsAreFew DEF Counts
  <2>3. Keeps(r, "hidden", count)
    BY <1>4, <2>1 DEF CountHidden
  <2>4. QED
    BY <2>2, <2>3, KeepsCount DEF Groups
<1>5. QED
  BY <1>1, <1>2, <1>3, <1>4

LEMMA DisjointSum ==
    ASSUME NEW A, NEW B, IsFiniteSet(A), IsFiniteSet(B), A \cap B = {}
    PROVE  Cardinality(A \cup B) = Cardinality(A) + Cardinality(B)
<1>1. Cardinality(A \cup B) = Cardinality(A) + Cardinality(B) - Cardinality(A \cap B)
  BY FS_Union
<1>2. Cardinality(A \cap B) = 0 /\ Cardinality(A) \in Nat /\ Cardinality(B) \in Nat
  BY FS_EmptySet, FS_CardinalityType
<1>3. QED
  BY <1>1, <1>2

\* The rows of one more category, of tier tiers[c].
LEMMA OneMoreSorted ==
    ASSUME ListsInv, NEW D, NEW c, c \notin D
    PROVE  /\ Cardinality(InTiers(D \cup {c})) = Cardinality(InTiers(D)) + Cardinality(InTiers({c}))
           /\ Cardinality(InTier(D \cup {c}, tiers[c])) = Cardinality(InTier(D, tiers[c])) + Cardinality(InTiers({c}))
           /\ \A t : t # tiers[c] => InTier(D \cup {c}, t) = InTier(D, t)
<1>1. /\ InTiers(D \cup {c}) = InTiers(D) \cup InTiers({c}) /\ InTiers(D) \cap InTiers({c}) = {}
      /\ InTier(D \cup {c}, tiers[c]) = InTier(D, tiers[c]) \cup InTiers({c})
      /\ InTier(D, tiers[c]) \cap InTiers({c}) = {}
  BY DEF InTiers, InTier
<1>2. /\ IsFiniteSet(InTiers(D)) /\ Cardinality(InTiers(D)) \in Nat
      /\ IsFiniteSet(InTiers({c})) /\ Cardinality(InTiers({c})) \in Nat
      /\ IsFiniteSet(InTier(D, tiers[c])) /\ Cardinality(InTier(D, tiers[c])) \in Nat
  BY RowsAreFew DEF InTiers, InTier
<1>3. Cardinality(InTiers(D \cup {c})) = Cardinality(InTiers(D)) + Cardinality(InTiers({c}))
  BY <1>1, <1>2, DisjointSum
<1>4. Cardinality(InTier(D \cup {c}, tiers[c])) = Cardinality(InTier(D, tiers[c])) + Cardinality(InTiers({c}))
  BY <1>1, <1>2, DisjointSum
<1>5. \A t : t # tiers[c] => InTier(D \cup {c}, t) = InTier(D, t)
  BY DEF InTier
<1>6. QED
  BY <1>3, <1>4, <1>5

LEMMA AddKeeps == ASSUME ListsInv, NEW r \in Reqs, NEW c \in Categories, AddToTier(r, c) PROVE ListsInv'
<1>1. /\ rq[r].op = "stats" /\ rq[r].pc = "tiers" /\ c \in rq[r].untiered
      /\ UNCHANGED <<reports, tiers>>
      /\ rq[r] \in Summing /\ SumsOK(rq[r]) /\ TrueOK(rq[r])
  BY InHandOf DEF AddToTier, At
<1>2. PICK t \in ListTiers : t = tiers[c]
  BY DEF ListsInv, ListsTyped
<1>3. PICK n \in Nat : n = rq[r].counted["category"][c]
  <2>1. "category" \in DOMAIN rq[r].counted
    BY <1>1 DEF SumsOK, Groups
  <2>2. QED
    BY <1>1, <2>1 DEF SumsOK
<1>4. PICK byTier : byTier = [rq[r].byTier EXCEPT ![t] = rq[r].byTier[t] + n]
  OBVIOUS
<1>5. PICK untiered : untiered = rq[r].untiered \ {c}
  OBVIOUS
<1>6. PICK pc \in {"counted", "tiers"} : pc = IF rq[r].untiered = {c} THEN "counted" ELSE "tiers"
  OBVIOUS
<1>7. PICK q : q = [op |-> "stats", pc |-> pc, left |-> rq[r].left, stirred |-> rq[r].stirred,
                    counted |-> rq[r].counted, byTier |-> byTier, untiered |-> untiered]
  OBVIOUS
<1>8. rq' = [rq EXCEPT ![r] = q]
  <2>1. With(r, [byTier |-> byTier, untiered |-> untiered, pc |-> pc])
    BY <1>2, <1>3, <1>4, <1>5, <1>6 DEF AddToTier
  <2>2. [f \in {"byTier", "untiered", "pc"} \cup DOMAIN rq[r] |->
           IF f \in {"byTier", "untiered", "pc"} THEN [byTier |-> byTier, untiered |-> untiered, pc |-> pc][f]
           ELSE rq[r][f]] = q
    BY <1>1, <1>7 DEF Summing
  <2>3. QED
    BY <2>1, <2>2 DEF With
<1>9. rq[r].byTier \in [ListTiers -> Nat]
  BY <1>1 DEF Summing
<1>10. byTier \in [ListTiers -> Nat]
  BY <1>2, <1>4, <1>9
<1>11. q \in Summing
  BY <1>1, <1>5, <1>6, <1>7, <1>10 DEF Summing
<1>12. SumsOK(q)
  BY <1>1, <1>5, <1>6, <1>7 DEF SumsOK
<1>13. Sorted(q) = Sorted(rq[r]) \cup {c} /\ c \notin Sorted(rq[r])
  BY <1>1, <1>5, <1>7 DEF Sorted
<1>14. TrueOK(q)
  <2>1. SUFFICES ASSUME rq[r].stirred \subseteq Categories
                 PROVE  /\ byTier["high"] + byTier["medium"] + byTier["low"] = Cardinality(InTiers(Sorted(q)))
                        /\ rq[r].stirred = {} =>
                             \A u \in ListTiers : byTier[u] = Cardinality(InTier(Sorted(q), u))
    BY <1>1, <1>7 DEF TrueOK
  <2>2. n = Cardinality(InTiers({c}))
    <3>1. "category" \in DOMAIN rq[r].counted
      BY <1>1 DEF SumsOK, Groups
    <3>2. QED
      BY <1>1, <1>3, <2>1, <3>1 DEF TrueOK
  <2>3. byTier["high"] + byTier["medium"] + byTier["low"] = Cardinality(InTiers(Sorted(q)))
    <3>1. byTier["high"] + byTier["medium"] + byTier["low"] =
             rq[r].byTier["high"] + rq[r].byTier["medium"] + rq[r].byTier["low"] + n
      BY <1>2, <1>4, <1>9 DEF ListTiers
    <3>2. rq[r].byTier["high"] + rq[r].byTier["medium"] + rq[r].byTier["low"] =
             Cardinality(InTiers(Sorted(rq[r])))
      BY <1>1, <2>1 DEF TrueOK
    <3>3. Cardinality(InTiers(Sorted(q))) = Cardinality(InTiers(Sorted(rq[r]))) + Cardinality(InTiers({c}))
      BY <1>13, OneMoreSorted
    <3>4. QED
      BY <2>2, <3>1, <3>2, <3>3
  <2>4. rq[r].stirred = {} => \A u \in ListTiers : byTier[u] = Cardinality(InTier(Sorted(q), u))
    <3>1. SUFFICES ASSUME rq[r].stirred = {}, NEW u \in ListTiers
                   PROVE  byTier[u] = Cardinality(InTier(Sorted(q), u))
      OBVIOUS
    <3>2. rq[r].byTier[u] = Cardinality(InTier(Sorted(rq[r]), u))
      BY <1>1, <3>1 DEF TrueOK
    <3>3. CASE u = t
      <4>1. Cardinality(InTier(Sorted(q), t)) = Cardinality(InTier(Sorted(rq[r]), t)) + Cardinality(InTiers({c}))
        BY <1>2, <1>13, OneMoreSorted
      <4>2. byTier[t] = rq[r].byTier[t] + n
        BY <1>2, <1>4, <1>9
      <4>3. QED
        BY <2>2, <3>2, <3>3, <4>1, <4>2
    <3>4. CASE u # t
      <4>1. InTier(Sorted(q), u) = InTier(Sorted(rq[r]), u)
        <5>1. InTier(Sorted(rq[r]) \cup {c}, u) = InTier(Sorted(rq[r]), u)
          BY <1>2, <1>13, <3>4, OneMoreSorted
        <5>2. QED
          BY <1>13, <5>1
      <4>2. byTier[u] = rq[r].byTier[u]
        BY <1>2, <1>4, <1>9, <3>4
      <4>3. QED
        BY <3>2, <4>1, <4>2
    <3>5. QED
      BY <3>3, <3>4
  <2>5. QED
    BY <2>3, <2>4
<1>15. QED
  BY <1>1, <1>8, <1>11, <1>12, <1>14, MakingKeeps DEF Sound

LEMMA ListsStep == ListsInv /\ [ListsNext]_listVars => ListsInv'
<1> SUFFICES ASSUME ListsInv, [ListsNext]_listVars PROVE ListsInv'
  OBVIOUS
<1>1. CASE UNCHANGED listVars
  <2>1. UNCHANGED <<reports, tiers, rq>>
    BY <1>1 DEF listVars
  <2>2. Sound' = Sound
    BY <2>1
       DEF Sound, ListOK, SumsOK, TrueOK, PageOK, PassedOver, Still, Room, ComesFirst, Matches,
           Waits, InTiers, InTier, Sorted
  <2>3. QED
    BY <2>1, <2>2 DEF ListsInv, ListsTyped
<1>2. CASE \/ \E c \in Categories : Arrives(c) \/ Retiers(c)
           \/ \E i \in DOMAIN reports : Hides(i) \/ Reviews(i) \/ Resolves(i) \/ Pictures(i)
  BY <1>2, DeskMovesKeep
<1>3. ASSUME NEW r \in Reqs,
             \/ \E filter \in Filters, page \in Pages : ListBegin(r, filter, page)
             \/ \E c \in Categories : RankCategory(r, c)
             \/ CountRows(r) \/ SelectRows(r)
      PROVE  ListsInv'
  BY <1>3, ListBeginKeeps, RankingKeeps, CountKeeps, SelectKeeps
<1>4. ASSUME NEW r \in Reqs,
             \/ StatsBegin(r) \/ CountTotals(r) \/ CountByCategory(r) \/ CountByStatus(r) \/ CountHidden(r)
             \/ \E c \in Categories : AddToTier(r, c)
      PROVE  ListsInv'
  BY <1>4, StatsBeginKeeps, CountingKeeps, AddKeeps
<1>5. ASSUME NEW r \in Reqs,
             Listing(r) \/ SendStats(r) \/ (GivesUp(r) /\ UNCHANGED <<reports, tiers>>)
      PROVE  ListsInv'
  <2>1. Finish(r) /\ UNCHANGED <<reports, tiers>>
    BY <1>5 DEF Listing, SendStats, GivesUp
  <2>2. QED
    BY <2>1, EndKeeps
<1>6. QED
  BY <1>1, <1>2, <1>3, <1>4, <1>5 DEF ListsNext

\* Whatever arrives, moves or changes tier while a page or the statistics are put together,
\* a case that did not move is not passed over, and the sums are those of the cases
\* (queueReports, searchReports, getReportStats).
THEOREM NobodyPassedOver == ListsSpec => [](ListsTypeOK /\ DeskMissesNothing)
<1>1. ListsInit => ListsInv
  BY ListsInitially
<1>2. ListsInv /\ [ListsNext]_listVars => ListsInv'
  BY ListsStep
<1>3. ListsInv => ListsTypeOK /\ DeskMissesNothing
  BY ListsMean
<1>4. QED
  BY <1>1, <1>2, <1>3, PTL DEF ListsSpec

----------------------------------------------------------------------------
(* DirectionSightings: the sums are the log's                              *)

\* FoldSet unfolds a sum in some order; by a minimal counterexample over the finite subsets
\* of a set, any element may be taken first, so that a sum grows by what is added. The row
\* of a direction then holds the weight of its part of the log, and a second between the
\* stamp of one of its sightings and the commit of all of them.

\* Sums over finite sets, as FoldSet computes them.

\* The element the fold takes next.
NextOf(s) == CHOOSE x \in s : TRUE
Unfolds(f, D, iter) == iter = [s \in D |-> IF s = {} THEN 0 ELSE f[NextOf(s)] + iter[s \ {NextOf(s)}]]
Sums(f, S, iter) == Unfolds(f, SUBSET S, iter)
AddsUp(f, S, v) == \E iter : Sums(f, S, iter) /\ v = iter[S]
AgreeOn(S, f, g) == \A x \in S : f[x] = g[x]
NumbersOn(S, f) == \A x \in S : f[x] \in Int
UpTo(S, n) == {s \in SUBSET S : Cardinality(s) <= n}

LEMMA NextIsIn == ASSUME NEW s, s # {} PROVE NextOf(s) \in s
BY DEF NextOf

\* A set of finite sets has one of the fewest elements.
LEMMA FewestOf ==
    ASSUME NEW S, IsFiniteSet(S), NEW B, B \subseteq SUBSET S, B # {}
    PROVE  \E s \in B : \A t \in B : t \subseteq s => t = s
<1> DEFINE T == {Cardinality(s) : s \in B}
<1>1. \A s \in SUBSET S : IsFiniteSet(s) /\ Cardinality(s) \in Nat
  BY FS_Subset, FS_CardinalityType
<1>2. T \in SUBSET Nat /\ T # {}
  BY <1>1
<1>3. PICK n \in T : \A m \in T : n <= m
  BY <1>2, SmallestOf
<1>4. PICK s \in B : Cardinality(s) = n
  OBVIOUS
<1>5. ASSUME NEW t \in B, t \subseteq s, t # s PROVE FALSE
  <2>1. Cardinality(t) <= Cardinality(s) /\ Cardinality(t) # Cardinality(s)
    BY <1>1, <1>5, FS_Subset
  <2>2. Cardinality(t) \in T
    BY <1>5
  <2>3. QED
    BY <1>1, <1>2, <1>3, <1>4, <1>5, <2>1, <2>2
<1>6. QED
  BY <1>5

LEMMA UnfoldsLevel ==
    ASSUME NEW S, IsFiniteSet(S), NEW f, NEW n \in Nat, NEW g, Unfolds(f, UpTo(S, n), g)
    PROVE  \E h : Unfolds(f, UpTo(S, n + 1), h)
<1>1. \A s \in SUBSET S : IsFiniteSet(s) /\ Cardinality(s) \in Nat
  BY FS_Subset, FS_CardinalityType
<1>2. PICK h : h = [s \in UpTo(S, n + 1) |-> IF s = {} THEN 0 ELSE f[NextOf(s)] + g[s \ {NextOf(s)}]]
  OBVIOUS
<1>3. ASSUME NEW s \in UpTo(S, n) PROVE h[s] = g[s]
  <2>1. s \in UpTo(S, n + 1)
    BY <1>1 DEF UpTo
  <2>2. g[s] = IF s = {} THEN 0 ELSE f[NextOf(s)] + g[s \ {NextOf(s)}]
    BY DEF Sums, Unfolds
  <2>3. QED
    BY <1>2, <2>1, <2>2
<1>4. ASSUME NEW s \in UpTo(S, n + 1), s # {} PROVE s \ {NextOf(s)} \in UpTo(S, n)
  <2>1. NextOf(s) \in s /\ IsFiniteSet(s) /\ Cardinality(s) <= n + 1 /\ Cardinality(s) \in Nat
    BY <1>1, <1>4, NextIsIn DEF UpTo
  <2>2. Cardinality(s \ {NextOf(s)}) = Cardinality(s) - 1
    BY <2>1, FS_RemoveElement
  <2>3. QED
    BY <2>1, <2>2 DEF UpTo
<1>5. \A s \in UpTo(S, n + 1) : (IF s = {} THEN 0 ELSE f[NextOf(s)] + g[s \ {NextOf(s)}])
                                = IF s = {} THEN 0 ELSE f[NextOf(s)] + h[s \ {NextOf(s)}]
  BY <1>3, <1>4
<1>6. h = [s \in UpTo(S, n + 1) |-> IF s = {} THEN 0 ELSE f[NextOf(s)] + h[s \ {NextOf(s)}]]
  BY <1>2, <1>5
<1>7. QED
  BY <1>6 DEF Sums, Unfolds

LEMMA UnfoldingExists == ASSUME NEW S, IsFiniteSet(S), NEW f PROVE \E iter : Sums(f, S, iter)
<1> DEFINE T == {n \in Nat : ~ \E iter : Unfolds(f, UpTo(S, n), iter)}
<1>1. \A s \in SUBSET S : IsFiniteSet(s) /\ Cardinality(s) \in Nat /\ Cardinality(s) <= Cardinality(S)
  BY FS_Subset, FS_CardinalityType
<1>2. 0 \notin T
  <2>1. UpTo(S, 0) = {{}}
    BY <1>1, FS_EmptySet DEF UpTo
  <2>2. PICK iter : iter = [s \in {{}} |-> 0]
    OBVIOUS
  <2>3. iter = [s \in {{}} |-> IF s = {} THEN 0 ELSE f[NextOf(s)] + iter[s \ {NextOf(s)}]]
    BY <2>2
  <2>4. Unfolds(f, UpTo(S, 0), iter)
    BY <2>1, <2>3 DEF Sums, Unfolds
  <2>5. QED
    BY <2>4
<1>3. ASSUME NEW n \in Nat, n \notin T PROVE n + 1 \notin T
  BY <1>3, UnfoldsLevel
<1>4. T = {}
  <2>1. SUFFICES ASSUME T # {} PROVE FALSE
    OBVIOUS
  <2>2. PICK n \in T : \A m \in T : n <= m
    BY <2>1, SmallestOf
  <2>3. n \in Nat /\ n # 0
    BY <1>2
  <2>4. PICK m \in Nat : n = m + 1
    BY <2>3
  <2>5. m \notin T
    BY <2>2, <2>3, <2>4
  <2>6. QED
    BY <1>3, <2>4, <2>5
<1>5. UpTo(S, Cardinality(S)) = SUBSET S /\ Cardinality(S) \in Nat
  BY <1>1 DEF UpTo
<1>6. \E iter : Unfolds(f, UpTo(S, Cardinality(S)), iter)
  BY <1>4, <1>5
<1>7. QED
  BY <1>5, <1>6 DEF Sums

\* A sum does not depend on the order: any element may be taken first.
LEMMA AnyFirst ==
    ASSUME NEW S, IsFiniteSet(S), NEW f, NumbersOn(S, f), NEW iter, Sums(f, S, iter)
    PROVE  /\ \A s \in SUBSET S : iter[s] \in Int
           /\ \A s \in SUBSET S : \A x \in s : iter[s] = f[x] + iter[s \ {x}]
<1> DEFINE B == {s \in SUBSET S : iter[s] \notin Int}
           C == {s \in SUBSET S : \E x \in s : iter[s] # f[x] + iter[s \ {x}]}
<1>1. \A s \in SUBSET S : iter[s] = IF s = {} THEN 0 ELSE f[NextOf(s)] + iter[s \ {NextOf(s)}]
  BY DEF Sums, Unfolds
<1>2. B = {}
  <2>1. SUFFICES ASSUME B # {} PROVE FALSE
    OBVIOUS
  <2>2. PICK s \in B : \A t \in B : t \subseteq s => t = s
    <3>1. B \subseteq SUBSET S
      OBVIOUS
    <3>2. HIDE DEF B
    <3>3. QED
      BY <2>1, <3>1, FewestOf
  <2>3. s # {}
    <3>1. {} \in SUBSET S
      OBVIOUS
    <3>2. iter[{}] = 0
      BY <1>1, <3>1
    <3>3. iter[s] \notin Int
      OBVIOUS
    <3>4. 0 \in Int
      OBVIOUS
    <3>5. QED
      BY <3>2, <3>3, <3>4
  <2>4. NextOf(s) \in s /\ s \ {NextOf(s)} \in SUBSET S
    BY <2>3, NextIsIn
  <2>5. iter[s \ {NextOf(s)}] \in Int
    BY <2>2, <2>4
  <2>6. iter[s] = f[NextOf(s)] + iter[s \ {NextOf(s)}] /\ f[NextOf(s)] \in Int
    BY <1>1, <2>3, <2>4 DEF NumbersOn
  <2>7. QED
    BY <2>5, <2>6
<1>3. \A s \in SUBSET S : iter[s] \in Int
  BY <1>2
<1>4. C = {}
  <2>1. SUFFICES ASSUME C # {} PROVE FALSE
    OBVIOUS
  <2>2. PICK s \in C : \A t \in C : t \subseteq s => t = s
    <3>1. C \subseteq SUBSET S
      OBVIOUS
    <3>2. HIDE DEF C
    <3>3. QED
      BY <2>1, <3>1, FewestOf
  <2>3. PICK x \in s : iter[s] # f[x] + iter[s \ {x}]
    OBVIOUS
  <2>4. PICK c \in s : c = NextOf(s)
    BY <2>3, NextIsIn
  <2>5. iter[s] = f[c] + iter[s \ {c}]
    BY <1>1, <2>3, <2>4
  <2>6. c # x
    BY <2>3, <2>5
  <2>7. s \ {c} \notin C /\ s \ {x} \notin C
    BY <2>2
  <2>8. iter[s \ {c}] = f[x] + iter[(s \ {c}) \ {x}]
    BY <2>6, <2>7
  <2>9. iter[s \ {x}] = f[c] + iter[(s \ {x}) \ {c}]
    BY <2>6, <2>7
  <2>10. iter[(s \ {c}) \ {x}] = iter[(s \ {x}) \ {c}]
    <3>1. (s \ {c}) \ {x} = (s \ {x}) \ {c}
      OBVIOUS
    <3>2. QED
      BY <3>1
  <2>11. f[c] \in Int /\ f[x] \in Int /\ iter[(s \ {x}) \ {c}] \in Int
    BY <1>3 DEF NumbersOn
  <2>12. QED
    BY <2>3, <2>5, <2>8, <2>9, <2>10, <2>11
<1>5. QED
  BY <1>3, <1>4

\* And is the same whatever else the set may hold.
LEMMA SameUnfolding ==
    ASSUME NEW S, IsFiniteSet(S), NEW f, NEW g, AgreeOn(S, f, g),
           NEW U, S \subseteq U, NEW iter, Sums(f, U, iter),
           NEW V, S \subseteq V, NEW jter, Sums(g, V, jter)
    PROVE  iter[S] = jter[S]
<1> DEFINE B == {s \in SUBSET S : iter[s] # jter[s]}
<1>1. SUFFICES ASSUME B # {} PROVE FALSE
  OBVIOUS
<1>2. PICK s \in B : \A t \in B : t \subseteq s => t = s
  <2>1. B \subseteq SUBSET S
    OBVIOUS
  <2>2. HIDE DEF B
  <2>3. QED
    BY <1>1, <2>1, FewestOf
<1>3. iter[s] = IF s = {} THEN 0 ELSE f[NextOf(s)] + iter[s \ {NextOf(s)}]
  BY DEF Sums, Unfolds
<1>4. jter[s] = IF s = {} THEN 0 ELSE g[NextOf(s)] + jter[s \ {NextOf(s)}]
  BY DEF Sums, Unfolds
<1>5. s # {}
  BY <1>3, <1>4
<1>6. NextOf(s) \in s /\ s \ {NextOf(s)} \in SUBSET S
  BY <1>5, NextIsIn
<1>7. iter[s \ {NextOf(s)}] = jter[s \ {NextOf(s)}] /\ f[NextOf(s)] = g[NextOf(s)]
  BY <1>2, <1>6 DEF AgreeOn
<1>8. QED
  BY <1>3, <1>4, <1>5, <1>7

LEMMA SumMore ==
    ASSUME NEW S, IsFiniteSet(S), NEW x, x \notin S, NEW f, NEW g, NumbersOn(S, f),
           AgreeOn(S, f, g),
           g[x] \in Int, NEW v, AddsUp(f, S, v)
    PROVE  AddsUp(g, S \cup {x}, v + g[x])
<1>1. PICK iter : Sums(f, S, iter) /\ v = iter[S]
  BY DEF AddsUp
<1>2. IsFiniteSet(S \cup {x})
  BY FS_AddElement
<1>3. PICK jter : Sums(g, S \cup {x}, jter)
  BY <1>2, UnfoldingExists
<1>4. iter[S] = jter[S]
  <2>1. S \subseteq S /\ S \subseteq S \cup {x}
    OBVIOUS
  <2>2. Sums(f, S, iter)
    BY <1>1
  <2>3. QED
    BY <1>3, <2>1, <2>2, SameUnfolding
<1>5. NumbersOn(S \cup {x}, g)
  BY DEF NumbersOn, AgreeOn
<1>6. /\ jter[S] \in Int
      /\ jter[S \cup {x}] = g[x] + jter[(S \cup {x}) \ {x}]
  BY <1>2, <1>3, <1>5, AnyFirst
<1>7. jter[(S \cup {x}) \ {x}] = jter[S]
  <2>1. (S \cup {x}) \ {x} = S
    OBVIOUS
  <2>2. QED
    BY <2>1
<1>8. v + g[x] = jter[S \cup {x}]
  BY <1>1, <1>4, <1>6, <1>7
<1>9. QED
  BY <1>3, <1>8 DEF AddsUp

LEMMA SumOther ==
    ASSUME NEW S, IsFiniteSet(S), NEW x \in S, NEW f, NEW g, NumbersOn(S, f), NumbersOn(S, g),
           AgreeOn(S \ {x}, f, g), NEW v, AddsUp(f, S, v)
    PROVE  AddsUp(g, S, v - f[x] + g[x])
<1>1. PICK iter : Sums(f, S, iter) /\ v = iter[S]
  BY DEF AddsUp
<1>2. PICK jter : Sums(g, S, jter)
  BY UnfoldingExists
<1>3. iter[S] = f[x] + iter[S \ {x}] /\ iter[S \ {x}] \in Int /\ f[x] \in Int
  BY <1>1, AnyFirst DEF NumbersOn
<1>4. jter[S] = g[x] + jter[S \ {x}] /\ jter[S \ {x}] \in Int /\ g[x] \in Int
  BY <1>2, AnyFirst DEF NumbersOn
<1>5. iter[S \ {x}] = jter[S \ {x}]
  <2>1. IsFiniteSet(S \ {x}) /\ S \ {x} \subseteq S
    BY FS_RemoveElement
  <2>2. QED
    BY <1>1, <1>2, <2>1, SameUnfolding
<1>6. v - f[x] + g[x] = jter[S]
  BY <1>1, <1>3, <1>4, <1>5
<1>7. QED
  BY <1>2, <1>6 DEF AddsUp

LEMMA SumUnique ==
    ASSUME NEW S, IsFiniteSet(S), NEW f, NEW g, AgreeOn(S, f, g),
           NEW v, AddsUp(f, S, v), NEW w, AddsUp(g, S, w)
    PROVE  v = w
<1>1. PICK iter : Sums(f, S, iter) /\ v = iter[S]
  BY DEF AddsUp
<1>2. PICK jter : Sums(g, S, jter) /\ w = jter[S]
  BY DEF AddsUp
<1>3. QED
  BY <1>1, <1>2, SameUnfolding

LEMMA SumOfNone == ASSUME NEW f, NEW v, AddsUp(f, {}, v) PROVE v = 0
BY DEF AddsUp, Sums, Unfolds

LEMMA NoneAddsUp == ASSUME NEW f PROVE AddsUp(f, {}, 0)
<1>1. PICK iter : Sums(f, {}, iter)
  BY FS_EmptySet, UnfoldingExists
<1>2. iter[{}] = 0
  BY <1>1 DEF Sums, Unfolds
<1>3. QED
  BY <1>1, <1>2 DEF AddsUp

\* What the model's folds add up to.

Weighed == [i \in DOMAIN sightings |-> sightings[i].weight]
CountsOf(rows) == [d \in DOMAIN rows |-> rows[d].count]

LEMMA HeftAddsUp ==
    ASSUME NEW d, IsFiniteSet(SeenIn(d)) PROVE AddsUp(Weighed, SeenIn(d), Heft(d))
<1> DEFINE S == SeenIn(d)
           Chosen(iter) == iter = [s \in SUBSET S |-> IF s = {} THEN 0
                                     ELSE sightings[NextOf(s)].weight + iter[s \ {NextOf(s)}]]
<1>1. Heft(d) = (CHOOSE iter : Chosen(iter))[S]
  BY DEF Heft, FoldSet, MapThenFoldSet, NextOf
<1>2. \A s \in SUBSET S : s # {} => NextOf(s) \in DOMAIN sightings
  BY NextIsIn DEF SeenIn
<1>3. \A iter : \A s \in SUBSET S :
         (IF s = {} THEN 0 ELSE sightings[NextOf(s)].weight + iter[s \ {NextOf(s)}])
         = IF s = {} THEN 0 ELSE Weighed[NextOf(s)] + iter[s \ {NextOf(s)}]
  BY <1>2 DEF Weighed
<1>4. \A iter : Chosen(iter) <=> Sums(Weighed, S, iter)
  BY <1>3 DEF Sums, Unfolds
<1>5. \E iter : Chosen(iter)
  BY <1>4, UnfoldingExists
<1>6. Chosen(CHOOSE iter : Chosen(iter))
  <2>1. HIDE DEF Chosen
  <2>2. QED
    BY <1>5
<1>7. QED
  BY <1>1, <1>4, <1>6 DEF AddsUp

LEMMA TotalAddsUp ==
    ASSUME NEW rows, IsFiniteSet(DOMAIN rows)
    PROVE  AddsUp(CountsOf(rows), DOMAIN rows, TotalCount(rows))
<1> DEFINE S == DOMAIN rows
           Chosen(iter) == iter = [s \in SUBSET S |-> IF s = {} THEN 0
                                     ELSE rows[NextOf(s)].count + iter[s \ {NextOf(s)}]]
<1>1. TotalCount(rows) = (CHOOSE iter : Chosen(iter))[S]
  BY DEF TotalCount, FoldSet, MapThenFoldSet, NextOf
<1>2. \A s \in SUBSET S : s # {} => NextOf(s) \in DOMAIN rows
  BY NextIsIn
<1>3. \A iter : \A s \in SUBSET S :
         (IF s = {} THEN 0 ELSE rows[NextOf(s)].count + iter[s \ {NextOf(s)}])
         = IF s = {} THEN 0 ELSE CountsOf(rows)[NextOf(s)] + iter[s \ {NextOf(s)}]
  BY <1>2 DEF CountsOf
<1>4. \A iter : Chosen(iter) <=> Sums(CountsOf(rows), S, iter)
  BY <1>3 DEF Sums, Unfolds
<1>5. \E iter : Chosen(iter)
  BY <1>4, UnfoldingExists
<1>6. Chosen(CHOOSE iter : Chosen(iter))
  <2>1. HIDE DEF Chosen
  <2>2. QED
    BY <1>5
<1>7. QED
  BY <1>1, <1>4, <1>6 DEF AddsUp

LEMMA SumSame ==
    ASSUME NEW S, IsFiniteSet(S), NEW f, NEW g, AgreeOn(S, f, g), NEW v, AddsUp(f, S, v)
    PROVE  AddsUp(g, S, v)
<1>1. PICK iter : Sums(f, S, iter) /\ v = iter[S]
  BY DEF AddsUp
<1>2. PICK jter : Sums(g, S, jter)
  BY UnfoldingExists
<1>3. iter[S] = jter[S]
  BY <1>1, <1>2, SameUnfolding
<1>4. QED
  BY <1>1, <1>2, <1>3 DEF AddsUp

\* The invariant.

AskedSighting  == [op : {"sight"}, pc : {"insert"}, key : SightingKeys, direction : Directions,
                   weight : Weights]
StoredSighting == [op : {"sight"}, pc : {"sum"}, key : SightingKeys, direction : Directions,
                   weight : Weights, at : 0 .. MaxSeconds]
SummedSighting == [op : {"sight"}, pc : {"commit"}, key : SightingKeys, direction : Directions,
                   weight : Weights, at : 0 .. MaxSeconds, now : 0 .. MaxSeconds]

SightRequest == AskedSighting \cup StoredSighting \cup SummedSighting

SightTyped == SightTypeOK /\ rq \in [Reqs -> {Idle} \cup SightRequest]

\* A transaction under way has its key to itself, and stamped its rows in order.
HoldsKey(q) == q.pc \in {"sum", "commit"}
StampsInOrder(q) ==
    /\ HoldsKey(q) => q.at <= second /\ ~Logged(q.key)
    /\ q.pc = "commit" => q.at <= q.now /\ q.now <= second
KeysApart ==
    \A r, s \in Reqs : HoldsKey(rq[r]) /\ HoldsKey(rq[s]) /\ rq[r].key = rq[s].key => r = s

TransactionsSound == KeysApart /\ \A r \in Reqs : StampsInOrder(rq[r])

\* The row of a direction is what the log says of it: the weight, and a first report after
\* one of its sightings was stored and before any was committed.
RowIsTheLogs(d) ==
    /\ AddsUp(Weighed, SeenIn(d), sums[d].weight) /\ sums[d].weight > 0
    /\ \E i \in SeenIn(d) : sightings[i].at <= sums[d].first
    /\ \A j \in SeenIn(d) : sums[d].first <= sightings[j].done

SumCounts == [d \in DOMAIN sums |-> sums[d].count]

SightInv ==
    /\ SightTyped /\ TransactionsSound
    /\ \A i \in DOMAIN sightings : sightings[i].done <= second
    /\ IsFiniteSet(DOMAIN sums)
    /\ \A d \in Directions : d \in DOMAIN sums <=> SeenIn(d) # {}
    /\ \A d \in DOMAIN sums : RowIsTheLogs(d)
    /\ AddsUp(SumCounts, DOMAIN sums, Len(sightings))

LEMMA SightingsAre ==
    ASSUME SightInv
    PROVE  /\ Len(sightings) \in Nat /\ DOMAIN sightings = 1 .. Len(sightings) /\ sightings \in Seq(Sighting)
           /\ \A i \in DOMAIN sightings : sightings[i] \in Sighting
           /\ \A d : IsFiniteSet(SeenIn(d)) /\ SeenIn(d) \subseteq DOMAIN sightings
           /\ MaxSeconds \in Nat /\ Weights \subseteq Nat \ {0}
<1>1. sightings \in Seq(Sighting)
  BY DEF SightInv, SightTyped, SightTypeOK
<1>2. PICK n \in Nat : n = Len(sightings) /\ DOMAIN sightings = 1 .. n
  BY <1>1
<1>3. IsFiniteSet(1 .. n)
  BY FS_Interval
<1>4. \A d : SeenIn(d) \in SUBSET DOMAIN sightings
  BY DEF SeenIn
<1>5. \A d : IsFiniteSet(SeenIn(d))
  BY <1>2, <1>3, <1>4, FS_Subset
<1>6. QED
  BY <1>1, <1>2, <1>4, <1>5, SightingsAssumption

LEMMA SightMeans == ASSUME SightInv PROVE SightTypeOK /\ EstimateIsTheLogs
<1>1. SightTypeOK
  BY DEF SightInv, SightTyped
<1>2. \A d \in DOMAIN sums : sums[d] \in Sum /\ d \in Directions
  BY <1>1 DEF SightTypeOK
<1>3. ASSUME NEW d \in DOMAIN sums PROVE Heft(d) = sums[d].weight
  <2>1. IsFiniteSet(SeenIn(d)) /\ AddsUp(Weighed, SeenIn(d), sums[d].weight)
    BY SightingsAre DEF SightInv, RowIsTheLogs
  <2>2. AddsUp(Weighed, SeenIn(d), Heft(d))
    BY <2>1, HeftAddsUp
  <2>3. AgreeOn(SeenIn(d), Weighed, Weighed)
    BY DEF AgreeOn
  <2>4. QED
    BY <2>1, <2>2, <2>3, SumUnique
<1>4. ASSUME NEW d \in Directions \ DOMAIN sums PROVE Heft(d) = 0
  <2>1. SeenIn(d) = {}
    BY DEF SightInv
  <2>2. AddsUp(Weighed, SeenIn(d), Heft(d))
    BY <2>1, HeftAddsUp, FS_EmptySet
  <2>3. QED
    BY <2>1, <2>2, SumOfNone
<1>5. ASSUME NEW d \in Winners(sums), NEW e \in Directions
      PROVE  Heft(d) > Heft(e) \/ (Heft(d) = Heft(e) /\ BegunBefore(d, e))
  <2>1. d \in DOMAIN sums /\ sums[d].weight > 0 /\ Heft(d) = sums[d].weight
    BY <1>3 DEF Winners, SightInv, RowIsTheLogs
  <2>2. CASE e \notin DOMAIN sums
    BY <1>4, <2>1, <2>2
  <2>3. CASE e \in DOMAIN sums
    <3>1. Heft(e) = sums[e].weight
      BY <1>3, <2>3
    <3>2. CASE sums[d].weight > sums[e].weight
      BY <2>1, <3>1, <3>2
    <3>3. CASE sums[d].weight = sums[e].weight /\ sums[d].first <= sums[e].first
      <4>1. PICK i \in SeenIn(d) : sightings[i].at <= sums[d].first
        BY <2>1 DEF SightInv, RowIsTheLogs
      <4>2. sightings[i].at \in Int
        BY SightingsAre DEF Sighting
      <4>3. \A j \in SeenIn(e) : sums[e].first <= sightings[j].done /\ sightings[j].done \in Int
        BY <2>3, SightingsAre DEF SightInv, RowIsTheLogs, Sighting
      <4>4. sums[d].first \in Int /\ sums[e].first \in Int
        BY <1>2, <2>1, <2>3 DEF Sum
      <4>5. \A j \in SeenIn(e) : sightings[i].at <= sightings[j].done
        BY <3>3, <4>1, <4>2, <4>3, <4>4
      <4>6. QED
        BY <2>1, <3>1, <3>3, <4>5 DEF BegunBefore
    <3>4. QED
      BY <2>3, <3>2, <3>3 DEF Winners
  <2>4. QED
    BY <2>2, <2>3
<1>6. TotalCount(sums) = Len(sightings)
  <2>1. IsFiniteSet(DOMAIN sums) /\ AddsUp(SumCounts, DOMAIN sums, Len(sightings))
    BY DEF SightInv
  <2>2. AddsUp(CountsOf(sums), DOMAIN sums, TotalCount(sums))
    BY <2>1, TotalAddsUp
  <2>3. AgreeOn(DOMAIN sums, CountsOf(sums), SumCounts)
    BY DEF AgreeOn, CountsOf, SumCounts
  <2>4. QED
    BY <2>1, <2>2, <2>3, SumUnique
<1>7. QED
  BY <1>1, <1>5, <1>6 DEF EstimateIsTheLogs

LEMMA SightInitially == SightInit => SightInv
<1> SUFFICES ASSUME SightInit PROVE SightInv
  OBVIOUS
<1>1. DOMAIN sums = {} /\ DOMAIN sightings = {} /\ Len(sightings) = 0
  <2>1. << >> \in Seq(Nat) /\ Len(<< >>) = 0
    OBVIOUS
  <2>2. DOMAIN << >> = {}
    BY <2>1
  <2>3. QED
    BY <2>1, <2>2 DEF SightInit
<1>2. SightTyped
  BY <1>1, SightingsAssumption DEF SightInit, HandlersInit, SightTyped, SightTypeOK
<1>3. AddsUp(SumCounts, DOMAIN sums, Len(sightings))
  BY <1>1, NoneAddsUp
<1>4. TransactionsSound
  <2>1. \A r \in Reqs : rq[r] = Idle
    BY DEF SightInit, HandlersInit
  <2>2. QED
    BY <2>1 DEF TransactionsSound, KeysApart, StampsInOrder, HoldsKey, Idle
<1>5. QED
  BY <1>1, <1>2, <1>3, <1>4, FS_EmptySet DEF SightInv, SeenIn

\* Steps.

LEMMA SightRequestIs ==
    ASSUME SightInv, NEW r \in Reqs
    PROVE  /\ rq[r].op = "sight" /\ rq[r].pc = "insert" => rq[r] \in AskedSighting
           /\ rq[r].op = "sight" /\ rq[r].pc = "sum" => rq[r] \in StoredSighting
           /\ rq[r].op = "sight" /\ rq[r].pc = "commit" => rq[r] \in SummedSighting
           /\ HoldsKey(rq[r]) => rq[r].at \in Int
           /\ rq[r].pc = "commit" => rq[r].now \in Int
<1>1. rq[r] \in {Idle} \cup SightRequest
  BY DEF SightInv, SightTyped
<1>2. MaxSeconds \in Nat
  BY SightingsAssumption
<1>3. CASE rq[r] = Idle
  BY <1>3 DEF Idle, HoldsKey
<1>4. CASE rq[r] \in AskedSighting
  BY <1>4 DEF AskedSighting, HoldsKey
<1>5. CASE rq[r] \in StoredSighting
  BY <1>2, <1>5 DEF StoredSighting, HoldsKey
<1>6. CASE rq[r] \in SummedSighting
  BY <1>2, <1>6 DEF SummedSighting, HoldsKey
<1>7. QED
  BY <1>1, <1>3, <1>4, <1>5, <1>6 DEF SightRequest

\* A step that leaves log and sums alone.
LEMMA LogStays ==
    ASSUME SightInv, UNCHANGED <<sightings, sums>>, SightTyped', TransactionsSound',
           second <= second', second \in Int, second' \in Int
    PROVE  SightInv'
<1>1. \A i \in DOMAIN sightings : sightings[i].done \in Int
  BY SightingsAre DEF Sighting
<1>2. \A i \in DOMAIN sightings' : sightings'[i].done <= second'
  BY <1>1 DEF SightInv
<1>3. SumCounts' = SumCounts /\ Weighed' = Weighed /\ \A d : SeenIn(d)' = SeenIn(d)
  BY DEF SumCounts, Weighed, SeenIn
<1>4. \A d \in DOMAIN sums : RowIsTheLogs(d)'
  BY <1>3 DEF RowIsTheLogs, SightInv
<1>5. QED
  BY <1>2, <1>3, <1>4 DEF SightInv

\* A step of one request, which leaves the tables and the clock alone.
LEMMA SightMoves ==
    ASSUME SightInv, UNCHANGED <<caseOpen, sightings, sums, second>>, NEW r \in Reqs,
           NEW q \in {Idle} \cup SightRequest, rq' = [rq EXCEPT ![r] = q], StampsInOrder(q),
           HoldsKey(q) => \A s \in Reqs \ {r} : HoldsKey(rq[s]) => rq[s].key # q.key
    PROVE  SightInv'
<1>1. rq'[r] = q /\ \A s \in Reqs \ {r} : rq'[s] = rq[s]
  BY DEF SightInv, SightTyped
<1>2. SightTyped'
  BY DEF SightInv, SightTyped, SightTypeOK
<1>3. KeysApart'
  BY <1>1 DEF SightInv, TransactionsSound, KeysApart, HoldsKey
<1>4. ASSUME NEW s \in Reqs PROVE StampsInOrder(rq[s])'
  <2>1. StampsInOrder(rq'[s])
    BY <1>1 DEF SightInv, TransactionsSound
  <2>2. QED
    BY <2>1 DEF StampsInOrder, HoldsKey, Logged
<1>5. second \in Int /\ second <= second'
  BY SightingsAssumption DEF SightInv, SightTyped, SightTypeOK
<1>6. QED
  BY <1>2, <1>3, <1>4, <1>5, LogStays DEF TransactionsSound

LEMMA InsertKeeps == ASSUME SightInv, NEW r \in Reqs, InsertSighting(r) PROVE SightInv'
<1>1. rq[r] \in AskedSighting /\ rq[r].op = "sight"
  BY SightRequestIs DEF InsertSighting, At
<1>2. second \in 0 .. MaxSeconds /\ second \in Int
  BY SightingsAssumption DEF SightInv, SightTyped, SightTypeOK
<1>3. PICK q : q = [op |-> "sight", pc |-> "sum", key |-> rq[r].key, direction |-> rq[r].direction,
                    weight |-> rq[r].weight, at |-> second]
  OBVIOUS
<1>4. rq' = [rq EXCEPT ![r] = q]
  <2>1. [f \in {"pc", "at"} \cup DOMAIN rq[r] |->
           IF f \in {"pc", "at"} THEN [pc |-> "sum", at |-> second][f] ELSE rq[r][f]] = q
    BY <1>1, <1>3 DEF AskedSighting
  <2>2. QED
    BY <2>1 DEF InsertSighting, With
<1>5. q \in SightRequest
  BY <1>1, <1>2, <1>3 DEF SightRequest, AskedSighting, StoredSighting
<1>6. StampsInOrder(q)
  BY <1>2, <1>3 DEF InsertSighting, StampsInOrder
<1>7. \A s \in Reqs : HoldsKey(rq[s]) => rq[s].key # q.key
  BY <1>3 DEF InsertSighting, Logging, HoldsKey
<1>8. UNCHANGED <<caseOpen, sightings, sums, second>>
  BY DEF InsertSighting
<1>9. QED
  BY <1>4, <1>5, <1>6, <1>7, <1>8, SightMoves

LEMMA SumKeeps == ASSUME SightInv, NEW r \in Reqs, SumSighting(r) PROVE SightInv'
<1>1. rq[r] \in StoredSighting /\ rq[r].op = "sight" /\ rq[r].pc = "sum" /\ rq[r].at \in Int
  BY SightRequestIs DEF SumSighting, At, HoldsKey
<1>2. second \in 0 .. MaxSeconds /\ second \in Int
  BY SightingsAssumption DEF SightInv, SightTyped, SightTypeOK
<1>3. PICK q : q = [op |-> "sight", pc |-> "commit", key |-> rq[r].key,
                    direction |-> rq[r].direction, weight |-> rq[r].weight, at |-> rq[r].at,
                    now |-> second]
  OBVIOUS
<1>4. rq' = [rq EXCEPT ![r] = q]
  <2>1. [f \in {"pc", "now"} \cup DOMAIN rq[r] |->
           IF f \in {"pc", "now"} THEN [pc |-> "commit", now |-> second][f] ELSE rq[r][f]] = q
    BY <1>1, <1>3 DEF StoredSighting
  <2>2. QED
    BY <2>1 DEF SumSighting, With
<1>5. q \in SightRequest
  BY <1>1, <1>2, <1>3 DEF SightRequest, StoredSighting, SummedSighting
<1>6. /\ rq[r].at <= second /\ ~Logged(rq[r].key)
      /\ \A s \in Reqs \ {r} : HoldsKey(rq[s]) => rq[s].key # rq[r].key
  BY <1>1 DEF SightInv, TransactionsSound, KeysApart, StampsInOrder, HoldsKey
<1>7. StampsInOrder(q)
  BY <1>2, <1>3, <1>6 DEF StampsInOrder
<1>8. UNCHANGED <<caseOpen, sightings, sums, second>>
  BY DEF SumSighting
<1>9. QED
  BY <1>3, <1>4, <1>5, <1>6, <1>7, <1>8, SightMoves

LEMMA CommitKeeps == ASSUME SightInv, NEW r \in Reqs, CommitSighting(r) PROVE SightInv'
<1>1. PICK q \in SummedSighting : q = rq[r]
  BY SightRequestIs DEF CommitSighting, At
<1>2. PICK d \in Directions, w \in Weights, key \in SightingKeys,
           at \in 0 .. MaxSeconds, now \in 0 .. MaxSeconds :
         q.direction = d /\ q.weight = w /\ q.key = key /\ q.at = at /\ q.now = now
  BY DEF SummedSighting
<1>3. PICK n \in Nat : n = Len(sightings) /\ n < MaxSightings /\ DOMAIN sightings = 1 .. n
  BY SightingsAre DEF CommitSighting
<1>4. /\ second \in 0 .. MaxSeconds /\ second \in Int /\ second' = second
      /\ caseOpen' = caseOpen /\ caseOpen \in BOOLEAN
      /\ w \in Nat /\ w > 0 /\ at \in Int /\ now \in Int
  BY SightingsAre DEF CommitSighting, SightInv, SightTyped, SightTypeOK
<1>5. PICK new \in Sighting : new = [key |-> key, direction |-> d, weight |-> w, at |-> at,
                                     done |-> second]
  BY <1>4, SightingsAre DEF Sighting
<1>6. sightings' = Append(sightings, new)
  BY <1>1, <1>2, <1>5 DEF CommitSighting
<1>7. /\ sightings' \in Seq(Sighting) /\ Len(sightings') = n + 1 /\ DOMAIN sightings' = 1 .. n + 1
      /\ sightings'[n + 1] = new /\ \A i \in 1 .. n : sightings'[i] = sightings[i]
  BY <1>3, <1>6, SightingsAre
<1>8. PICK row : row = IF d \in DOMAIN sums
                       THEN [sums[d] EXCEPT !.weight = sums[d].weight + w, !.count = sums[d].count + 1]
                       ELSE [weight |-> w, count |-> 1, first |-> now]
  OBVIOUS
<1>9. /\ DOMAIN sums' = DOMAIN sums \cup {d} /\ sums'[d] = row
      /\ \A e \in DOMAIN sums \ {d} : sums'[e] = sums[e]
  <2>1. sums' = Extend(sums, d, row)
    BY <1>1, <1>2, <1>8 DEF CommitSighting, SumUp
  <2>2. QED
    BY <2>1 DEF Extend
<1>10. DOMAIN sums \subseteq Directions /\ \A e \in DOMAIN sums : sums[e] \in Sum
  BY DEF SightInv, SightTyped, SightTypeOK
<1>11. /\ d \in DOMAIN sums => /\ sums[d].weight \in Nat /\ sums[d].count \in Nat /\ sums[d].first \in 0 .. MaxSeconds
                               /\ row.weight = sums[d].weight + w /\ row.count = sums[d].count + 1
                               /\ row.first = sums[d].first
       /\ d \notin DOMAIN sums => row.weight = w /\ row.count = 1 /\ row.first = now
       /\ row \in Sum
  <2>1. CASE d \in DOMAIN sums
    <3>1. PICK old \in Sum : old = sums[d]
      BY <1>10, <2>1
    <3>2. row = [old EXCEPT !.weight = old.weight + w, !.count = old.count + 1]
      BY <1>8, <2>1, <3>1
    <3>3. /\ old.weight \in Nat /\ old.count \in Nat /\ old.first \in 0 .. MaxSeconds
          /\ row.weight = old.weight + w /\ row.count = old.count + 1 /\ row.first = old.first
          /\ row = [weight |-> row.weight, count |-> row.count, first |-> row.first]
      BY <3>2 DEF Sum
    <3>4. row.weight \in Nat /\ row.count \in Nat
      BY <1>4, <3>3
    <3>5. row \in Sum
      BY <3>3, <3>4 DEF Sum
    <3>6. QED
      BY <2>1, <3>1, <3>3, <3>5
  <2>2. CASE d \notin DOMAIN sums
    <3>1. row = [weight |-> w, count |-> 1, first |-> now]
      BY <1>8, <2>2
    <3>2. QED
      BY <1>2, <1>4, <2>2, <3>1 DEF Sum
  <2>3. QED
    BY <2>1, <2>2
<1>12. SightTyped'
  <2>1. Len(sightings') <= MaxSightings
    BY <1>3, <1>7, SightingsAssumption
  <2>2. \A e \in DOMAIN sums' : sums'[e] \in Sum /\ e \in Directions
    BY <1>9, <1>10, <1>11
  <2>3. rq' \in [Reqs -> {Idle} \cup SightRequest]
    BY DEF CommitSighting, Finish, SightInv, SightTyped
  <2>4. QED
    BY <1>4, <1>7, <2>1, <2>2, <2>3 DEF SightTyped, SightTypeOK
<1>13. \A i \in DOMAIN sightings' : sightings'[i].done <= second' /\ sightings'[i].done \in Int
  <2>1. \A i \in 1 .. n : sightings'[i].done <= second /\ sightings'[i].done \in Int
    <3>1. SUFFICES ASSUME NEW i \in 1 .. n
                   PROVE  sightings'[i].done <= second /\ sightings'[i].done \in Int
      OBVIOUS
    <3>2. sightings[i] \in Sighting /\ sightings[i].done <= second /\ sightings'[i] = sightings[i]
      BY <1>3, <1>7, SightingsAre DEF SightInv
    <3>3. sightings[i].done \in Int
      BY <3>2, SightingsAre DEF Sighting
    <3>4. QED
      BY <3>2, <3>3
  <2>2. new.done = second
    BY <1>5
  <2>3. QED
    BY <1>3, <1>4, <1>7, <2>1, <2>2
<1>14. SeenIn(d)' = SeenIn(d) \cup {n + 1} /\ n + 1 \notin SeenIn(d)
  <2>1. new.direction = d
    BY <1>5
  <2>2. QED
    BY <1>3, <1>7, <2>1 DEF SeenIn
<1>15. \A e : e # d => SeenIn(e)' = SeenIn(e)
  <2>1. new.direction = d
    BY <1>5
  <2>2. QED
    BY <1>3, <1>7, <2>1 DEF SeenIn
<1>16. /\ \A e : AgreeOn(SeenIn(e), Weighed, Weighed') /\ NumbersOn(SeenIn(e), Weighed)
       /\ Weighed'[n + 1] = w
  <2>1. \A i \in 1 .. n : Weighed[i] = sightings[i].weight /\ Weighed'[i] = sightings'[i].weight
    BY <1>3, <1>7 DEF Weighed
  <2>2. \A i \in 1 .. n : sightings[i].weight \in Int
    <3>1. SUFFICES ASSUME NEW i \in 1 .. n PROVE sightings[i].weight \in Int
      OBVIOUS
    <3>2. sightings[i] \in Sighting
      BY <1>3, SightingsAre
    <3>3. sightings[i].weight \in Weights
      BY <3>2 DEF Sighting
    <3>4. QED
      BY <3>3, SightingsAre
  <2>3. \A e : SeenIn(e) \subseteq 1 .. n
    BY <1>3 DEF SeenIn
  <2>4. Weighed'[n + 1] = w
    BY <1>3, <1>5, <1>7 DEF Weighed
  <2>5. QED
    BY <1>7, <2>1, <2>2, <2>3, <2>4 DEF AgreeOn, NumbersOn
<1>17. AddsUp(Weighed', SeenIn(d)', row.weight) /\ row.weight > 0
  <2>1. CASE d \in DOMAIN sums
    <3>1. AddsUp(Weighed, SeenIn(d), sums[d].weight) /\ IsFiniteSet(SeenIn(d))
      BY <2>1, SightingsAre DEF SightInv, RowIsTheLogs
    <3>2. w \in Int
      BY <1>4
    <3>3. AddsUp(Weighed', SeenIn(d) \cup {n + 1}, sums[d].weight + Weighed'[n + 1])
      BY <1>14, <1>16, <3>1, <3>2, SumMore
    <3>4. QED
      BY <1>4, <1>11, <1>14, <1>16, <2>1, <3>3
  <2>2. CASE d \notin DOMAIN sums
    <3>1. SeenIn(d) = {}
      BY <2>2 DEF SightInv
    <3>2. AddsUp(Weighed, SeenIn(d), 0) /\ IsFiniteSet(SeenIn(d))
      BY <3>1, NoneAddsUp, FS_EmptySet
    <3>3. w \in Int
      BY <1>4
    <3>4. AddsUp(Weighed', SeenIn(d) \cup {n + 1}, 0 + Weighed'[n + 1])
      BY <1>14, <1>16, <3>2, <3>3, SumMore
    <3>5. 0 + w = w
      BY <1>4
    <3>6. QED
      BY <1>4, <1>11, <1>14, <1>16, <2>2, <3>4, <3>5
  <2>3. QED
    BY <2>1, <2>2
<1>18. ASSUME NEW e \in DOMAIN sums \ {d} PROVE RowIsTheLogs(e)'
  <2>1. SeenIn(e)' = SeenIn(e) /\ sums'[e] = sums[e] /\ RowIsTheLogs(e) /\ IsFiniteSet(SeenIn(e))
    BY <1>9, <1>15, SightingsAre DEF SightInv
  <2>2. AddsUp(Weighed', SeenIn(e), sums[e].weight)
    BY <1>16, <2>1, SumSame DEF RowIsTheLogs
  <2>3. \A i \in SeenIn(e) : sightings'[i] = sightings[i]
    BY <1>3, <1>7 DEF SeenIn
  <2>4. QED
    BY <2>1, <2>2, <2>3 DEF RowIsTheLogs
<1>19. RowIsTheLogs(d)'
  <2>1. /\ sightings'[n + 1].at = at /\ sightings'[n + 1].done = second /\ n + 1 \in SeenIn(d)'
        /\ at <= now /\ now <= second
    <3>1. rq[r].pc = "commit" /\ StampsInOrder(rq[r])
      BY <1>1 DEF SightInv, TransactionsSound, SummedSighting
    <3>2. QED
      BY <1>1, <1>2, <1>5, <1>7, <1>14, <3>1 DEF StampsInOrder
  <2>2. \A i \in SeenIn(d) : /\ sightings'[i] = sightings[i] /\ sightings[i].done <= second
                            /\ sightings[i].done \in Int
    BY <1>3, <1>7, SightingsAre DEF SeenIn, SightInv, Sighting
  <2>3. CASE d \in DOMAIN sums
    <3>1. PICK i \in SeenIn(d) : sightings[i].at <= sums[d].first
      BY <2>3 DEF SightInv, RowIsTheLogs
    <3>2. \A j \in SeenIn(d) : sums[d].first <= sightings[j].done
      BY <2>3 DEF SightInv, RowIsTheLogs
    <3>3. sums[d].first \in Int
      BY <1>11, <2>3, SightingsAre
    <3>4. row.first = sums[d].first /\ sums[d].first <= second
      BY <1>4, <1>11, <2>2, <2>3, <3>1, <3>2, <3>3
    <3>5. \A j \in SeenIn(d)' : row.first <= sightings'[j].done
      BY <1>14, <2>1, <2>2, <3>2, <3>4
    <3>6. \E j \in SeenIn(d)' : sightings'[j].at <= row.first
      BY <1>14, <2>2, <3>1, <3>4
    <3>7. QED
      BY <1>9, <1>17, <3>5, <3>6 DEF RowIsTheLogs
  <2>4. CASE d \notin DOMAIN sums
    <3>1. SeenIn(d)' = {n + 1}
      BY <1>14, <2>4 DEF SightInv
    <3>2. row.first = now
      BY <1>11, <2>4
    <3>3. QED
      BY <1>9, <1>17, <2>1, <3>1, <3>2 DEF RowIsTheLogs
  <2>5. QED
    BY <2>3, <2>4
<1>20. IsFiniteSet(DOMAIN sums')
  BY <1>9, FS_AddElement DEF SightInv
<1>21. \A e \in Directions : e \in DOMAIN sums' <=> SeenIn(e)' # {}
  BY <1>9, <1>14, <1>15 DEF SightInv
<1>22. AddsUp(SumCounts', DOMAIN sums', n + 1)
  <2>1. /\ IsFiniteSet(DOMAIN sums) /\ AddsUp(SumCounts, DOMAIN sums, n)
        /\ NumbersOn(DOMAIN sums, SumCounts)
    BY <1>3, <1>10 DEF SightInv, NumbersOn, SumCounts, Sum
  <2>2. \A e \in DOMAIN sums \ {d} : SumCounts'[e] = SumCounts[e]
    BY <1>9 DEF SumCounts
  <2>3. SumCounts'[d] = row.count
    BY <1>9 DEF SumCounts
  <2>4. CASE d \in DOMAIN sums
    <3>1. AgreeOn(DOMAIN sums \ {d}, SumCounts, SumCounts')
      BY <2>2 DEF AgreeOn
    <3>2. /\ SumCounts[d] = sums[d].count /\ SumCounts'[d] = sums[d].count + 1
          /\ sums[d].count \in Nat
      BY <1>11, <2>3, <2>4 DEF SumCounts
    <3>3. NumbersOn(DOMAIN sums, SumCounts')
      BY <2>1, <2>2, <3>2 DEF NumbersOn
    <3>4. AddsUp(SumCounts', DOMAIN sums, n - SumCounts[d] + SumCounts'[d])
      BY <2>1, <2>4, <3>1, <3>3, SumOther
    <3>5. n - SumCounts[d] + SumCounts'[d] = n + 1
      BY <3>2
    <3>6. DOMAIN sums' = DOMAIN sums
      BY <1>9, <2>4
    <3>7. QED
      BY <3>4, <3>5, <3>6
  <2>5. CASE d \notin DOMAIN sums
    <3>1. AgreeOn(DOMAIN sums, SumCounts, SumCounts')
      BY <2>2, <2>5 DEF AgreeOn
    <3>2. SumCounts'[d] = 1 /\ 1 \in Int
      BY <1>11, <2>3, <2>5
    <3>3. AddsUp(SumCounts', DOMAIN sums \cup {d}, n + SumCounts'[d])
      BY <2>1, <2>5, <3>1, <3>2, SumMore
    <3>4. QED
      BY <1>9, <3>2, <3>3
  <2>6. QED
    BY <2>4, <2>5
<1>23. TransactionsSound'
  <2>1. rq[r].pc = "commit" /\ rq[r].key = key
    BY <1>1, <1>2 DEF SummedSighting
  <2>2. rq' = [rq EXCEPT ![r] = Idle] /\ rq \in [Reqs -> {Idle} \cup SightRequest]
    BY DEF CommitSighting, Finish, SightInv, SightTyped
  <2>3. rq'[r] = Idle /\ \A s \in Reqs \ {r} : rq'[s] = rq[s]
    BY <2>2
  <2>4. ~HoldsKey(Idle)' /\ StampsInOrder(Idle)'
    BY DEF StampsInOrder, HoldsKey, Idle
  <2>5. KeysApart'
    BY <2>3 DEF SightInv, TransactionsSound, KeysApart, HoldsKey, Idle
  <2>6. ASSUME NEW s \in Reqs \ {r} PROVE StampsInOrder(rq[s])'
    <3>1. StampsInOrder(rq[s])
      BY DEF SightInv, TransactionsSound
    <3>2. ASSUME HoldsKey(rq[s]) PROVE ~Logged(rq[s].key)'
      <4>1. rq[s].key # key /\ ~Logged(rq[s].key)
        BY <2>1, <3>1, <3>2 DEF SightInv, TransactionsSound, KeysApart, HoldsKey, StampsInOrder
      <4>2. new.key = key
        BY <1>5
      <4>3. QED
        BY <1>3, <1>7, <2>3, <4>1, <4>2 DEF Logged
    <3>3. QED
      BY <1>4, <2>3, <3>1, <3>2 DEF StampsInOrder, HoldsKey
  <2>7. QED
    BY <2>3, <2>4, <2>5, <2>6 DEF TransactionsSound
<1>24. QED
  BY <1>7, <1>9, <1>12, <1>13, <1>18, <1>19, <1>20, <1>21, <1>22, <1>23 DEF SightInv

LEMMA SightStep == SightInv /\ [SightNext]_sightVars => SightInv'
<1> SUFFICES ASSUME SightInv, [SightNext]_sightVars PROVE SightInv'
  OBVIOUS
<1>1. second \in 0 .. MaxSeconds /\ MaxSeconds \in Nat /\ SightTyped
  BY SightingsAre DEF SightInv, SightTyped, SightTypeOK
<1>2. ASSUME UNCHANGED <<sightings, sums, rq>>, second' \in 0 .. MaxSeconds, second <= second',
             caseOpen' \in BOOLEAN
      PROVE  SightInv'
  <2>1. SightTyped'
    BY <1>1, <1>2 DEF SightTyped, SightTypeOK
  <2>2. \A r \in Reqs : /\ HoldsKey(rq[r]) => rq[r].at \in Int
                        /\ rq[r].pc = "commit" => rq[r].now \in Int
    BY SightRequestIs
  <2>3. \A r \in Reqs : StampsInOrder(rq[r])'
    <3>1. \A r \in Reqs : StampsInOrder(rq[r])
      BY DEF SightInv, TransactionsSound
    <3>2. QED
      BY <1>1, <1>2, <2>2, <3>1 DEF StampsInOrder, HoldsKey, Logged
  <2>4. TransactionsSound'
    BY <1>2, <2>3 DEF SightInv, TransactionsSound, KeysApart, HoldsKey
  <2>5. second \in Int /\ second' \in Int
    BY <1>1, <1>2
  <2>6. QED
    BY <1>2, <2>1, <2>4, <2>5, LogStays
<1>3. CASE UNCHANGED sightVars
  <2>1. UNCHANGED <<caseOpen, sightings, sums, second, rq>>
    BY <1>3 DEF sightVars
  <2>2. second' \in 0 .. MaxSeconds /\ second <= second' /\ caseOpen' \in BOOLEAN
    BY <1>1, <2>1 DEF SightTyped, SightTypeOK
  <2>3. QED
    BY <1>2, <2>1, <2>2
<1>4. CASE CloseSightings
  <2>1. UNCHANGED <<sightings, sums, second, rq>> /\ caseOpen' \in BOOLEAN
    BY <1>4 DEF CloseSightings
  <2>2. second' \in 0 .. MaxSeconds /\ second <= second'
    BY <1>1, <2>1
  <2>3. QED
    BY <1>2, <2>1, <2>2
<1>5. CASE SecondPasses
  <2>1. /\ second' = second + 1 /\ second < MaxSeconds /\ UNCHANGED <<caseOpen, sightings, sums, rq>>
        /\ caseOpen \in BOOLEAN
    BY <1>1, <1>5 DEF SecondPasses, SightTyped, SightTypeOK
  <2>2. second' \in 0 .. MaxSeconds /\ second <= second'
    BY <1>1, <2>1
  <2>3. QED
    BY <1>2, <2>1, <2>2
<1>6. ASSUME NEW r \in Reqs, NEW key \in SightingKeys, NEW d \in Directions, NEW w \in Weights,
             SightBegin(r, key, d, w)
      PROVE  SightInv'
  <2>1. PICK q \in SightRequest : q = [op |-> "sight", pc |-> "insert", key |-> key,
                                      direction |-> d, weight |-> w]
    BY DEF SightRequest, AskedSighting
  <2>2. rq' = [rq EXCEPT ![r] = q] /\ UNCHANGED <<caseOpen, sightings, sums, second>>
    BY <1>6, <2>1 DEF SightBegin, Begin
  <2>3. ~HoldsKey(q) /\ StampsInOrder(q)
    BY <2>1 DEF HoldsKey, StampsInOrder
  <2>4. QED
    BY <2>2, <2>3, SightMoves
<1>7. ASSUME NEW r \in Reqs, GivesUp(r), UNCHANGED <<caseOpen, sightings, sums, second>>
      PROVE  SightInv'
  <2>1. ~HoldsKey(Idle) /\ StampsInOrder(Idle)
    BY DEF HoldsKey, StampsInOrder, Idle
  <2>2. QED
    BY <1>7, <2>1, SightMoves DEF GivesUp, Finish
<1>8. QED
  BY <1>3, <1>4, <1>5, <1>6, <1>7, InsertKeeps, SumKeeps, CommitKeeps DEF SightNext

\* The sums kept beside the log of sightings never drift from it: what may be picked from them
\* is a heaviest direction of the log and, of equally heavy ones, none whose every sighting
\* was stored after all of another were committed; and every sighting is counted once
\* (insertSighting, pickWinningDirection, meetsDisclosureFloor).
THEOREM SumsAreTheLogs == SightSpec => [](SightTypeOK /\ EstimateIsTheLogs)
<1>1. SightInit => SightInv
  BY SightInitially
<1>2. SightInv /\ [SightNext]_sightVars => SightInv'
  BY SightStep
<1>3. SightInv => SightTypeOK /\ EstimateIsTheLogs
  BY SightMeans
<1>4. QED
  BY <1>1, <1>2, <1>3, PTL DEF SightSpec

SightingFiling(i) == <<sightings[i].key, <<i, sightings[i]>>>>

LEMMA SightImplements ==
    ASSUME SightInv, [SightNext]_sightVars
    PROVE  [SightingKeyed!Next]_(SightingKeyed!keyedVars)
<1> DEFINE stored == {SightingFiling(i) : i \in DOMAIN sightings}
<1>1. UNCHANGED sightings => UNCHANGED SightingKeyed!keyedVars
  BY DEF SightingKeyed!keyedVars
<1>2. ASSUME NEW r \in Reqs, CommitSighting(r) PROVE SightingKeyed!Write
  <2>1. PICK n : n = Len(sightings) + 1
    OBVIOUS
  <2>2. PICK new : /\ sightings' = Append(sightings, new)
                   /\ new.key = rq[r].key /\ ~Logged(rq[r].key)
    BY <1>2 DEF CommitSighting, At, SightInv, TransactionsSound, StampsInOrder, HoldsKey
  <2>3. /\ DOMAIN sightings' = DOMAIN sightings \cup {n} /\ sightings'[n] = new
        /\ \A i \in DOMAIN sightings : sightings'[i] = sightings[i]
    BY <2>1, <2>2, SightingsAre
  <2>4. stored' = {SightingFiling(i)' : i \in DOMAIN sightings'}
    OBVIOUS
  <2>5. \A i \in DOMAIN sightings : SightingFiling(i)' = SightingFiling(i)
    BY <2>3 DEF SightingFiling
  <2>6. stored' = stored \cup {SightingFiling(n)'}
    BY <2>3, <2>4, <2>5
  <2>7. \A old \in stored : old[1] # (SightingFiling(n)')[1]
    BY <2>2, <2>3 DEF Logged, SightingFiling
  <2>8. \E entry \in stored' : /\ \A old \in stored : old[1] # entry[1]
                               /\ stored' = stored \cup {entry}
    BY <2>6, <2>7
  <2>9. QED
    BY <2>8 DEF SightingKeyed!Write, SightingFiling
<1>3. UNCHANGED sightings \/ \E r \in Reqs : CommitSighting(r)
  BY DEF SightNext, SightBegin, InsertSighting, SumSighting, CloseSightings, SecondPasses, sightVars
<1>4. QED
  BY <1>1, <1>2, <1>3 DEF SightingKeyed!Next

\* A key logs one sighting, which stays as it was logged (insertSighting).
THEOREM SightingKeysKept == SightSpec => SightingsKeepKeys
<1>1. SightInit => SightingKeyed!Init
  BY DEF SightInit, SightingKeyed!Init
<1>2. QED
  BY <1>1, SightImplements, SightInitially, SightStep, PTL
     DEF SightSpec, SightingsKeepKeys, SightingKeyed!Spec

=============================================================================
