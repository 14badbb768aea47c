---------------------------- MODULE ReportViews ----------------------------
(***************************************************************************)
(* Who is shown what of a case.  A view is put together from half a dozen  *)
(* reads, each at its own moment, while moderation hides the case and      *)
(* blocks its media, its owner resolves it and the jobs wipe it.           *)
(*                                                                         *)
(* One case with one medium.  A view is the set of its fields that differ  *)
(* between viewers.  A request reads only, so that what matters of the     *)
(* others is how they change what it reads, the dossier of the case; each  *)
(* change is one statement, and span keeps, as history, the dossier as it  *)
(* was at each moment of a request.  The tier is what the process's cache  *)
(* answers (FeePolicy).                                                    *)
(***************************************************************************)
EXTENDS Handlers

CONSTANTS
    ViewHelpers, \* app accounts other than the owner's
    MaxTurns     \* bound: changes of the dossier while a request is under way

ASSUME ViewAssumption == MaxTurns \in Nat

VARIABLE
    dossier      \* what a view is read from: tb_report, tb_media, tb_help_offer

viewVars == <<dossier, rq>>

----------------------------------------------------------------------------

\* offer: an anonymous offer keeps its account.
Dossier == [status : {"open", "resolved"}, hidden : BOOLEAN, purged : BOOLEAN,
         tier : {"low", "high"}, photo : {"none", "available", "blocked", "deleted"},
         offer : [ViewHelpers -> {"none", "named", "anonymous"}]]

\* ViewerContext: the owner's account or client key, another account, or neither; and a
\* team user, from the panel.
Viewers == {"owner", "anyone", "panel"} \cup ViewHelpers
HasOffer(d, v) == v \in ViewHelpers /\ d.offer[v] # "none"

Fields == {"summary", "degraded", "exact", "mark", "trail", "chat", "direction", "photo",
           "own", "name", "blur", "sharp"}
PanelFields == {"degraded", "trail", "photo", "held", "name", "exact", "helper", "words"}
Looks == {"view", "stream", "feed", "panel", "evidence", "position"}

ViewsTypeOK ==
    /\ dossier \in Dossier
    /\ \A r \in Reqs : rq[r].op # "idle" =>
          /\ rq[r].viewer \in Viewers /\ rq[r].span \subseteq Dossier
          /\ rq[r].answer \subseteq IF rq[r].viewer = "panel" THEN PanelFields ELSE Fields

ViewsInit ==
    /\ dossier = [status |-> "open", hidden |-> FALSE, purged |-> FALSE, tier |-> "low",
               photo |-> "none", offer |-> [h \in ViewHelpers |-> "none"]]
    /\ HandlersInit

----------------------------------------------------------------------------
(* What the others do to the dossier                                       *)

Turn(d) ==
    /\ dossier' = d
    /\ rq' = [r \in Reqs |-> IF rq[r].op = "idle" THEN rq[r]
                             ELSE [rq[r] EXCEPT !.span = @ \cup {d}]]
    /\ \A r \in Reqs : rq'[r].op # "idle" => Cardinality(rq'[r].span) <= MaxTurns + 1

ShowOrHide == Turn([dossier EXCEPT !.hidden = ~@])
CloseView  == dossier.status = "open" /\ Turn([dossier EXCEPT !.status = "resolved"])
PurgeView  == dossier.status = "resolved" /\ ~dossier.purged /\ Turn([dossier EXCEPT !.purged = TRUE])
Retier     == \E t \in {"low", "high"} \ {dossier.tier} : Turn([dossier EXCEPT !.tier = t])
Offers(h)  == /\ dossier.status = "open" /\ dossier.offer[h] = "none"
              /\ \E as \in {"named", "anonymous"} : Turn([dossier EXCEPT !.offer[h] = as])
Hang       == dossier.photo = "none" /\ dossier.status = "open" /\ Turn([dossier EXCEPT !.photo = "available"])
Withhold   == dossier.photo = "available" /\ Turn([dossier EXCEPT !.photo = "blocked"])
GiveBack   == dossier.photo = "blocked" /\ Turn([dossier EXCEPT !.photo = "available"])
Destroy    == /\ dossier.photo \in {"available", "blocked"} /\ dossier.status = "resolved"
              /\ Turn([dossier EXCEPT !.photo = "deleted"])

----------------------------------------------------------------------------
(* The detail of a case                                                    *)

Adds(r, fields, pc) == /\ rq' = [rq EXCEPT ![r].answer = @ \cup fields, ![r].pc = pc]
                       /\ UNCHANGED dossier

\* livingReport: the row of the case, which later statements are compared with.
ViewBegin(r, op, viewer) ==
    /\ ~dossier.purged
    /\ Begin(r, [op |-> op, pc |-> IF op = "view" THEN "tier" ELSE "media", viewer |-> viewer,
                 row |-> dossier, tier |-> "none", mine |-> FALSE, span |-> {dossier}, answer |-> {}])
    /\ UNCHANGED dossier

\* getRiskTier.
ViewTier(r) == At(r, "view", "tier") /\ With(r, [pc |-> "offer", tier |-> dossier.tier]) /\ UNCHANGED dossier

\* findOfferByAccount: whoever has an offer, anonymous or not, is a participant.
FindMine(r) ==
    /\ At(r, "view", "offer")
    /\ With(r, [pc |-> "access", mine |-> HasOffer(dossier, rq[r].viewer)]) /\ UNCHANGED dossier

Inside(r) == rq[r].viewer = "owner" \/ rq[r].mine

\* Mutated form: hiding is for the feed only.
ThirdPartyUnhidden(r) ==
    /\ At(r, "view", "access") /\ ~Inside(r)
    /\ IF rq[r].row.status = "resolved" THEN Adds(r, {"summary"}, "answered")
       ELSE Adds(r, {"degraded"}, "photos")

\* A third party: nothing of a hidden case, the closing summary of a resolved one.
ThirdParty(r) ==
    /\ At(r, "view", "access") /\ ~Inside(r) /\ ~rq[r].row.hidden
    /\ IF rq[r].row.status = "resolved" THEN Adds(r, {"summary"}, "answered")
       ELSE Adds(r, {"degraded"}, "photos")

\* getTimeline: a purge leaves the events without their payload.
Insider(r) ==
    /\ At(r, "view", "access") /\ Inside(r)
    /\ Adds(r, {"exact", "mark"} \cup (IF dossier.purged THEN {} ELSE {"trail"}), "chat")

\* getOwnerChatSummary, getHelperChatSummary: counts of one's own threads.
ReadChat(r) == At(r, "view", "chat") /\ Adds(r, {"chat"}, "photos")

\* listAttachedMedia: what is available now, whatever the case has become; with the
\* direction, which everybody but the reader of a summary is told.
ListPhotos(r) ==
    /\ At(r, "view", "photos")
    /\ Adds(r, {"direction"} \cup (IF dossier.photo = "available" THEN {"photo"} ELSE {})
                             \cup (IF rq[r].mine THEN {"own"} ELSE {}),
            IF rq[r].viewer = "owner" THEN "names" ELSE "answered")

\* A helper who gave their name.
SomebodyNamed == \E h \in ViewHelpers : dossier.offer[h] = "named"

\* The mask of the tier, which is the one read at first.
Unmasked(r) == IF rq[r].tier = "high" THEN {} ELSE {"name"}

\* findOffersWithNames.
ReadNames(r) ==
    /\ At(r, "view", "names")
    /\ Adds(r, IF SomebodyNamed THEN Unmasked(r) ELSE {}, "answered")

----------------------------------------------------------------------------
(* The bytes of its medium                                                 *)

\* findAttachedMedia: neither blocked nor shredded, and never the original.
FindMedia(r) == At(r, "stream", "media") /\ dossier.photo = "available" /\ Goto(r, "offer") /\ UNCHANGED dossier

\* hasOfferByAccount, and the row's word for third parties.
StreamAccess(r) ==
    /\ At(r, "stream", "offer")
    /\ LET mine == HasOffer(dossier, rq[r].viewer) IN
       IF rq[r].viewer = "owner" \/ mine THEN With(r, [mine |-> mine, pc |-> "open"])
       ELSE rq[r].row.status = "open" /\ ~rq[r].row.hidden /\ Goto(r, "tier")
    /\ UNCHANGED dossier

\* getRiskTier, asked for third parties only.
StreamTier(r) == At(r, "stream", "tier") /\ With(r, [pc |-> "open", tier |-> dossier.tier]) /\ UNCHANGED dossier

\* openMediaObject: the object of a shredded medium may still be there.
OpenBytes(r) ==
    /\ At(r, "stream", "open")
    /\ \E variant \in {"blur", "sharp"} :
         /\ variant = "sharp" => Inside(r) \/ rq[r].tier # "high"
         /\ Adds(r, {variant}, "answered")

----------------------------------------------------------------------------
(* The detail of a case in the panel                                       *)

\* getReportPanelDetail: of a purged case its skeleton, which has none of these fields.
PanelBegin(r) ==
    /\ Begin(r, [op |-> "panel", pc |-> IF dossier.purged THEN "answered" ELSE "tier", viewer |-> "panel",
                 span |-> {dossier}, answer |-> {}, left |-> {"timeline", "media", "offers"}])
    /\ UNCHANGED dossier

PanelTier(r) == At(r, "panel", "tier") /\ Adds(r, {"degraded"}, "reads")

\* getTimeline, findAttachedMediaWithStatus, findOffersForPanel: what is blocked is listed
\* as such, and who helped anonymously is nobody.
PanelShows(part) ==
    CASE part = "timeline" -> IF dossier.purged THEN {} ELSE {"trail"}
      [] part = "media"    -> IF dossier.photo = "available" THEN {"photo"}
                              ELSE IF dossier.photo = "blocked" THEN {"held"} ELSE {}
      [] part = "offers"   -> IF SomebodyNamed THEN {"name"} ELSE {}

\* Promise.all: side by side, so in whatever order.
PanelRead(r, part) ==
    /\ At(r, "panel", "reads") /\ part \in rq[r].left
    /\ With(r, [answer |-> rq[r].answer \cup PanelShows(part), left |-> rq[r].left \ {part},
                pc |-> IF rq[r].left = {part} THEN "answered" ELSE "reads"])
    /\ UNCHANGED dossier

\* getReportExactPosition: one read.
PositionBegin(r) ==
    /\ ~dossier.purged
    /\ Begin(r, [op |-> "position", pc |-> "answered", viewer |-> "panel", span |-> {dossier},
                 answer |-> {"exact"}])
    /\ UNCHANGED dossier

\* getReportChatEvidence: of a purged case too.
EvidenceBegin(r) ==
    /\ Begin(r, [op |-> "evidence", pc |-> "threads", viewer |-> "panel", span |-> {dossier}, answer |-> {}])
    /\ UNCHANGED dossier

\* listThreadsByReport: whoever wrote has an offer, anonymous or not, and is named to the
\* team; whether a helper wrote is left open.
ReadThreads(r) ==
    /\ At(r, "evidence", "threads")
    /\ \/ (\E h \in ViewHelpers : HasOffer(dossier, h)) /\ Adds(r, {"helper"}, "words")
       \/ Adds(r, {}, "answered")

\* threadView: the text as stored, which a purge has wiped.
ReadWords(r) == At(r, "evidence", "words") /\ Adds(r, IF dossier.purged THEN {} ELSE {"words"}, "answered")

----------------------------------------------------------------------------
(* The feed, for whoever is near                                           *)

\* listNearby: a page with the case on it; distance and age are left out.
FeedBegin(r) ==
    /\ dossier.status = "open" /\ ~dossier.hidden
    /\ Begin(r, [op |-> "feed", pc |-> "tier", viewer |-> "anyone", span |-> {dossier}, answer |-> {}])
    /\ UNCHANGED dossier

\* getRiskTier, by which position and time are degraded.
FeedTier(r) == At(r, "feed", "tier") /\ Adds(r, {"degraded"}, "direction")

\* findDirectionEstimates.
FeedDirection(r) == At(r, "feed", "direction") /\ Adds(r, {"direction"}, "answered")

Answered(r) == rq[r].op \in Looks /\ rq[r].pc = "answered" /\ Finish(r) /\ UNCHANGED dossier

ViewsNext ==
    \/ ShowOrHide \/ CloseView \/ PurgeView \/ Retier \/ Hang \/ Withhold \/ GiveBack \/ Destroy
    \/ \E h \in ViewHelpers : Offers(h)
    \/ \E r \in Reqs :
        \/ \E op \in {"view", "stream"}, v \in Viewers \ {"panel"} : ViewBegin(r, op, v)
        \/ ViewTier(r) \/ FindMine(r) \/ ThirdParty(r) \/ Insider(r) \/ ReadChat(r)
        \/ ListPhotos(r) \/ ReadNames(r)
        \/ FindMedia(r) \/ StreamAccess(r) \/ StreamTier(r) \/ OpenBytes(r)
        \/ PanelBegin(r) \/ PanelTier(r) \/ \E part \in {"timeline", "media", "offers"} : PanelRead(r, part)
        \/ PositionBegin(r) \/ EvidenceBegin(r) \/ ReadThreads(r) \/ ReadWords(r)
        \/ FeedBegin(r) \/ FeedTier(r) \/ FeedDirection(r)
        \/ Answered(r)
        \/ GivesUp(r) /\ UNCHANGED dossier

ViewsSpec == ViewsInit /\ [][ViewsNext]_viewVars

----------------------------------------------------------------------------
(* Properties                                                              *)

\* Decisions 24, 41, 50, 55, 128, 160 and 162.  Whatever changes while a view is read,
\* it shows nothing that its viewer was not entitled to at some moment of the request:
\* the exact case and its chat to nobody but the owner and who has offered help, or the
\* team where it asks for them; to others, in the feed as well, the degraded case or its
\* media only if it was open and not hidden, the summary only if it was not hidden, a
\* sharp picture only if the tier was not high; a picture to nobody unless it was
\* available; and a name only of a helper who gave it, to the team, or to the owner if
\* the tier was not high.  The team is shown nothing of a purged case, and alone sees
\* that a picture is withheld, and who wrote.
OnlyWhatWasVisible ==
    \A r \in Reqs : rq[r].op \in Looks =>
        LET shows(fields) == rq[r].answer \cap fields # {}
            v        == rq[r].viewer
            inside   == v = "owner" \/ \E d \in rq[r].span : HasOffer(d, v)
            living   == \E d \in rq[r].span : ~d.purged
            team     == v = "panel" /\ living
            public   == \E d \in rq[r].span : d.status = "open" /\ ~d.hidden /\ ~d.purged
            lenient  == \E d \in rq[r].span : d.tier # "high"
            was(photo) == \E d \in rq[r].span : d.photo = photo
        IN  /\ shows({"mark", "chat", "own"}) => inside
            /\ shows({"exact"}) => inside \/ (team /\ rq[r].op = "position")
            /\ shows({"words"}) => team /\ rq[r].op = "evidence"
            /\ shows({"helper"}) => \E d \in rq[r].span, h \in ViewHelpers : HasOffer(d, h)
            /\ shows({"trail"}) => (inside \/ team) /\ living
            /\ shows({"degraded", "direction", "photo", "blur", "sharp"}) => inside \/ team \/ public
            /\ shows({"summary"}) => \E d \in rq[r].span : d.status = "resolved" /\ ~d.hidden /\ ~d.purged
            /\ shows({"photo", "blur", "sharp"}) => was("available")
            /\ shows({"held"}) => team /\ was("blocked")
            /\ shows({"sharp"}) => inside \/ lenient
            /\ shows({"name"}) => /\ team \/ (v = "owner" /\ lenient)
                                  /\ \E d \in rq[r].span, h \in ViewHelpers : d.offer[h] = "named"

=============================================================================
