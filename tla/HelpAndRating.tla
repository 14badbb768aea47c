--------------------------- MODULE HelpAndRating ---------------------------
(***************************************************************************)
(* Help offers on a case and the rating its owner gives each of them once  *)
(* the case is resolved.                                                   *)
(*                                                                         *)
(* One case, whose owner holds its account or its client key.  A set of    *)
(* fronts is a member of Fronts.  The timeline shows an offer's fronts to  *)
(* the participants: its items are appended after the offer is committed.  *)
(***************************************************************************)
EXTENDS Handlers

CONSTANTS
    HelperAccounts, \* app accounts that offer help
    Fronts,         \* sets of fronts an offer names
    RatingKeys,     \* client keys: one for each rating the owner means to give
    Scores,         \* 1 .. 5 in the source
    MaxOffers,      \* bound: offers ever made
    MaxItems        \* bound: timeline items about them

ASSUME HelpAssumption ==
    {MaxOffers, MaxItems} \subseteq Nat \ {0} /\ None \notin RatingKeys

VARIABLES
    helpCase,  \* tb_report: status and hidden
    offers,    \* tb_help_offer with its fronts, in order of insertion
    items,     \* the offers' items of tb_report_timeline
    ratings,   \* tb_helper_rating: per offer its rating, or None
    accepted   \* history: <<offer, key, score>> of every rating that was answered

helpVars == <<helpCase, offers, items, ratings, accepted, rq>>

----------------------------------------------------------------------------

\* helper: None for an offer without an account.
Offer    == [helper : HelperAccounts \cup {None}, fronts : Fronts]
OfferIds == DOMAIN offers
NoRating == [key |-> None, score |-> 0]

HelpTypeOK ==
    /\ helpCase \in [status : {"open", "resolved"}, hidden : BOOLEAN]
    /\ offers \in Seq(Offer) /\ Len(offers) <= MaxOffers
    /\ items \in Seq([type : {"help_offered", "help_offer_updated"}, fronts : Fronts])
    /\ ratings \in [1 .. MaxOffers -> [key : RatingKeys \cup {None}, score : Scores \cup {0}]]
    /\ accepted \subseteq OfferIds \X RatingKeys \X Scores

HelpInit ==
    /\ helpCase = [status |-> "open", hidden |-> FALSE]
    /\ offers = << >> /\ items = << >> /\ accepted = {}
    /\ ratings = [o \in 1 .. MaxOffers |-> NoRating]
    /\ HandlersInit

----------------------------------------------------------------------------
(* Offering                                                                *)

\* submitHelpOffer: an open case of somebody else.
OfferBegin(r, who, fronts) ==
    /\ helpCase.status = "open"
    /\ Begin(r, [op |-> "offer", pc |-> "insert", who |-> who, fronts |-> fronts,
                 type |-> "help_offered"])
    /\ UNCHANGED <<helpCase, offers, items, ratings, accepted>>

\* insertHelpOffer: UNIQUE (report, helper), and NULL repeats.
InsertHelpOffer(r) ==
    /\ At(r, "offer", "insert") /\ Len(offers) < MaxOffers
    /\ rq[r].who # None => \A o \in OfferIds : offers[o].helper # rq[r].who
    /\ offers' = Append(offers, [helper |-> rq[r].who, fronts |-> rq[r].fronts])
    /\ Goto(r, "item")
    /\ UNCHANGED <<helpCase, items, ratings, accepted>>

\* updateHelpOfferTypes: the offer's own account, while the case is open.
UpdateTypesBegin(r, o, fronts) ==
    /\ helpCase.status = "open" /\ offers[o].helper # None
    /\ Begin(r, [op |-> "retype", pc |-> "replace", offer |-> o, fronts |-> fronts,
                 type |-> "help_offer_updated"])
    /\ UNCHANGED <<helpCase, offers, items, ratings, accepted>>

\* replaceHelpOfferTypes: one transaction.
ReplaceTypes(r) ==
    /\ At(r, "retype", "replace")
    /\ offers' = [offers EXCEPT ![rq[r].offer].fronts = rq[r].fronts]
    /\ Goto(r, "item")
    /\ UNCHANGED <<helpCase, items, ratings, accepted>>

\* appendHelpOfferedEvent, appendHelpOfferUpdatedEvent.
AppendItem(r) ==
    /\ rq[r].op \in {"offer", "retype"} /\ rq[r].pc = "item" /\ Len(items) < MaxItems
    /\ items' = Append(items, [type |-> rq[r].type, fronts |-> rq[r].fronts])
    /\ Finish(r)
    /\ UNCHANGED <<helpCase, offers, ratings, accepted>>

----------------------------------------------------------------------------
(* Rating                                                                  *)

Accept(r, score) == accepted' = accepted \cup {<<rq[r].offer, rq[r].key, score>>} /\ Finish(r)

\* rateHelper: the owner names an offer of the case.
RateBegin(r, o, key, score) ==
    /\ Begin(r, [op |-> "rate", pc |-> "existing", offer |-> o, key |-> key, score |-> score,
                 ratable |-> helpCase.status = "resolved" /\ ~helpCase.hidden])
    /\ UNCHANGED <<helpCase, offers, items, ratings, accepted>>

\* findRatingByOffer: a replay is answered whatever became of the case, another key is
\* refused, and an unrated offer needs a resolved case and a helper with an account.
FindRating(r) ==
    /\ At(r, "rate", "existing")
    /\ LET given == ratings[rq[r].offer] IN
       \/ given = NoRating /\ rq[r].ratable /\ offers[rq[r].offer].helper # None
            /\ Goto(r, "insert") /\ UNCHANGED accepted
       \/ given.key = rq[r].key /\ Accept(r, given.score)
    /\ UNCHANGED <<helpCase, offers, items, ratings>>

KeySpent(key) == \E o \in OfferIds : ratings[o].key = key

\* Mutated form: a collision is taken for one's own replay.
InsertRatingBlind(r) ==
    /\ At(r, "rate", "insert")
    /\ IF ratings[rq[r].offer] # NoRating \/ KeySpent(rq[r].key)
       THEN UNCHANGED ratings
       ELSE ratings' = [ratings EXCEPT ![rq[r].offer] = [key |-> rq[r].key, score |-> rq[r].score]]
    /\ Accept(r, rq[r].score)
    /\ UNCHANGED <<helpCase, offers, items>>

\* insertRating: UNIQUE by offer and by key; the winner of a collision decides.
InsertRating(r) ==
    /\ At(r, "rate", "insert")
    /\ LET given == ratings[rq[r].offer] IN
       \/ /\ given = NoRating /\ ~KeySpent(rq[r].key)
          /\ ratings' = [ratings EXCEPT ![rq[r].offer] = [key |-> rq[r].key, score |-> rq[r].score]]
          /\ Accept(r, rq[r].score)
       \/ given.key = rq[r].key /\ Accept(r, given.score) /\ UNCHANGED ratings
    /\ UNCHANGED <<helpCase, offers, items>>

----------------------------------------------------------------------------

ResolveHelpCase ==
    /\ helpCase.status = "open"
    /\ helpCase' = [helpCase EXCEPT !.status = "resolved"]
    /\ UNCHANGED <<offers, items, ratings, accepted, rq>>

ToggleHelpHidden ==
    /\ helpCase' = [helpCase EXCEPT !.hidden = ~@]
    /\ UNCHANGED <<offers, items, ratings, accepted, rq>>

HelpNext ==
    \/ \E r \in Reqs :
        \/ \E who \in HelperAccounts \cup {None}, fronts \in Fronts : OfferBegin(r, who, fronts)
        \/ \E o \in OfferIds :
              \/ \E fronts \in Fronts : UpdateTypesBegin(r, o, fronts)
              \/ \E key \in RatingKeys, score \in Scores : RateBegin(r, o, key, score)
        \/ InsertHelpOffer(r) \/ ReplaceTypes(r) \/ AppendItem(r)
        \/ FindRating(r) \/ InsertRating(r)
        \/ GivesUp(r) /\ UNCHANGED <<helpCase, offers, items, ratings, accepted>>
    \/ ResolveHelpCase \/ ToggleHelpHidden

HelpSpec == HelpInit /\ [][HelpNext]_helpVars

----------------------------------------------------------------------------
(* Properties                                                              *)

\* Decisions 137/183: whatever the owner's ratings race and however often they are
\* sent, an accepted rating is the one rating of its offer, with the key that was sent
\* and the score that was answered, and its helper has an account to carry it.
AcceptedRatingStands ==
    \A x \in accepted : /\ ratings[x[1]] = [key |-> x[2], score |-> x[3]]
                        /\ offers[x[1]].helper # None

RatingKeyed == INSTANCE KeyedWrites WITH
    stored <- {<<ratings[o].key, <<o, ratings[o].score>>>> :
                  o \in {p \in DOMAIN ratings : ratings[p] # NoRating}},
    told   <- {<<x[2], <<x[1], x[3]>>>> : x \in accepted}

\* Decisions 137/183: a key rates one offer once, for good, and every answer to the key is
\* about that rating, although it is also the offer, not the key alone, that is UNIQUE.
RatingsKeepKeys == RatingKeyed!Spec

=============================================================================
