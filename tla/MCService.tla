----------------------------- MODULE MCService -----------------------------
(***************************************************************************)
(* Model-checking instance of the modules written over Handlers.  They     *)
(* share no table with each other, so that a run of them together would    *)
(* only multiply their states: a behaviour is about one of them, its        *)
(* scene, and the others stand still.                                      *)
(***************************************************************************)
EXTENDS AppSessions, AppAccounts, VerificationCode, TwoFactor, PanelGuards, PanelUsers,
        DualControl, FeePolicy, MaskedChat, PanicAlerts, HelpAndRating, DirectionSightings,
        ReportViews, ReportLists, Moderation, MediaStore

CONSTANTS
    Scenes,          \* the modules a run is about
    g1, g2, g3, g4,  \* provider identities
    e1               \* an address

ASSUME ScenesAssumption ==
    Scenes \subseteq {"sessions", "accounts", "codes", "factor", "guards", "users", "dual", "fee",
                      "chat", "panic", "help", "sight", "views", "lists", "acts", "media"}

VARIABLE scene

\* Two identities whose provider vouches for the address, one whose provider does not,
\* and one without an address.
Asserted == (g1 :> e1) @@ (g2 :> e1) @@ (g3 :> e1) @@ (g4 :> None)
Vouched  == {g1, g2}

Symmetry == Permutations(Reqs)

\* Client keys are numbers here, and as they are interchangeable a device draws them in
\* order: a key is new only when those before it have been used or are in flight.
InOrder(spentKeys) ==
    LET drawn == spentKeys \cup {rq[r].key : r \in {s \in Reqs : "key" \in DOMAIN rq[s]}} IN
    \A r \in Reqs : (rq[r].op = "idle" /\ "key" \in DOMAIN rq'[r]) => 1 .. rq'[r].key - 1 \subseteq drawn

----------------------------------------------------------------------------
(* What each module owns                                                   *)

ownSessions == <<version, tokens, excused, met, ended>>
ownAccounts == <<accounts, linkOf, entered>>
ownCodes    == <<plane, storedCode, attempts, age, trueAge, sent, guesses, uses, lost>>
ownFactor   == <<totp, unused, enrolToken, secrets, sets, confirmed, opened, crossed>>
ownGuards   == <<user, cache, signed, since, lapse>>
ownUsers    == <<staff>>
ownDual     == <<asked, trail>>
ownFee      == <<rules, tier, ruleEntry, tierEntry, high>>
ownChat     == <<chatCase, threads, messages, answered>>
ownPanic    == <<pool, alerts, replies>>
ownHelp     == <<helpCase, offers, items, ratings, accepted>>
ownSight    == <<caseOpen, sightings, sums, second>>
ownViews    == <<dossier>>
ownLists    == <<reports, tiers>>
ownActs     == <<flag, by, wiped, auditRows, unnoted>>
ownMedia    == <<medium, store, expiring>>

appPlane  == <<ownSessions, ownAccounts>>
panel     == <<ownFactor, ownGuards, ownUsers>>
policies  == <<ownDual, ownFee>>
emergency == <<ownPanic, ownHelp, ownSight>>
desk      == <<ownViews, ownLists, ownActs, ownMedia>>

allVars == <<scene, rq, appPlane, ownCodes, panel, policies, ownChat, emergency, desk>>

----------------------------------------------------------------------------

SceneInit ==
    /\ scene \in Scenes
    /\ SessionsInit /\ AccountsInit /\ CodesInit /\ FactorInit /\ GuardsInit /\ UsersInit
    /\ DualInit /\ FeeInit /\ ChatInit /\ PanicInit /\ HelpInit /\ SightInit
    /\ ViewsInit /\ ListsInit /\ ModerationInit /\ MediaInit
    /\ scene = "codes" \/ plane = "app"
    /\ scene = "dual" \/ \A k \in Requests : asked[k].status = "none"
    /\ scene = "fee" \/ tier = "low"
    /\ scene = "lists" \/ \A c \in Categories \ {None} : tiers[c] = "low"

OneAtATime == Cardinality({r \in Reqs : rq'[r].op # "idle"}) <= 1

\* Bound: what gives up has written before, a sign-in overlaps signing out alone, and the last
\* token and the last bump do not come in one behaviour.
Sessions == /\ scene = "sessions" /\ SessionsNext
            /\ \A r \in Reqs : (rq'[r].op = "idle" /\ UNCHANGED <<version, tokens>>) =>
                  rq[r].op = "idle" \/ At(r, "refresh", "issue") \/ Revoking(r)
            /\ \A a \in Accounts : Len(tokens') + version'[a] < MaxTokens + MaxVersion
            /\ \A r, s \in Reqs : r # s /\ rq'[r].op = "signin" => rq'[s].op \in {"idle", "signout"}
            /\ UNCHANGED <<scene, ownAccounts, ownCodes, panel, policies, ownChat, emergency, desk>>
Signups  == /\ scene = "accounts" /\ AccountsNext
            /\ UNCHANGED <<scene, ownSessions, ownCodes, panel, policies, ownChat, emergency, desk>>
Mails    == /\ scene = "codes" /\ CodesNext
            /\ UNCHANGED <<scene, appPlane, panel, policies, ownChat, emergency, desk>>
Factor   == /\ scene = "factor" /\ FactorNext
            /\ UNCHANGED <<scene, appPlane, ownCodes, ownGuards, ownUsers, policies, ownChat, emergency, desk>>
\* Bound: one request on its way through the guards, beside one that kills sessions.
Guards   == /\ scene = "guards" /\ GuardsNext
            /\ Cardinality({r \in Reqs : rq'[r].op \notin {"idle", "kill"}}) <= 1
            /\ UNCHANGED <<scene, appPlane, ownCodes, ownFactor, ownUsers, policies, ownChat, emergency, desk>>
Grants   == /\ scene = "users" /\ UsersNext
            /\ UNCHANGED <<scene, appPlane, ownCodes, ownFactor, ownGuards, policies, ownChat, emergency, desk>>
Access   == /\ scene = "dual" /\ DualNext
            /\ UNCHANGED <<scene, appPlane, ownCodes, panel, ownFee, ownChat, emergency, desk>>
\* Bound: rules are set one at a time.
Fees     == /\ scene = "fee" /\ FeeNext
            /\ Cardinality({r \in Reqs : rq'[r].op = "set"}) <= 1
            /\ UNCHANGED <<scene, appPlane, ownCodes, panel, ownDual, ownChat, emergency, desk>>
\* Bound: a denied membership is not approved again, requests are resolved in turn, and a
\* trigger without an account is the first one.
Panic == /\ scene = "panic" /\ PanicNext
         /\ InOrder({alerts[a].key : a \in DOMAIN alerts})
         /\ \A m \in DOMAIN pool :
              /\ pool[m].status = "denied" => pool'[m].status = "denied"
              /\ pool'[m].status = "pending" => m = Len(pool')
         /\ \A r \in Reqs : (rq'[r].op = "trigger" /\ rq'[r].who = None) => rq'[r].key = 1
         /\ UNCHANGED <<scene, appPlane, ownCodes, panel, policies, ownChat, ownHelp, ownSight, desk>>
Help  == /\ scene = "help" /\ HelpNext
         /\ InOrder({ratings[o].key : o \in OfferIds})
         /\ UNCHANGED <<scene, appPlane, ownCodes, panel, policies, ownChat, ownPanic, ownSight, desk>>
\* Bound: directions are interchangeable, and the first key reports the first of them; the
\* last key alone weighs more than one.
Sight == /\ scene = "sight" /\ SightNext
         /\ \A r \in Reqs : (rq'[r].op = "sight" /\ rq'[r].key = 1) =>
               rq'[r].direction = CHOOSE d \in Directions : TRUE
         /\ \A r \in Reqs : (rq'[r].op = "sight" /\ rq'[r].key < 3) => rq'[r].weight = 1
         /\ InOrder({sightings[i].key : i \in DOMAIN sightings})
         /\ UNCHANGED <<scene, appPlane, ownCodes, panel, policies, ownChat, ownPanic, ownHelp, desk>>

\* Bound: the helper posts by the report and the owner by the thread, once and before the
\* helper's first message is stored; only the owner's reading of the first message is
\* followed, alone and once every message is stored, since nothing depends on what was read;
\* and a case is hidden only while it is open.
Chat == /\ scene = "chat" /\ ChatNext
        /\ InOrder({messages[i].key : i \in MessageIds})
        /\ \A r \in Reqs :
             /\ rq'[r].op = "read" => rq'[r].role = "reporter" /\ rq'[r].last = 1 /\ OneAtATime /\ Len(messages) = MaxMessages
             /\ rq'[r].op = "post" => rq'[r].from = "reporter" /\ rq'[r].key = 1 /\ messages = << >>
        /\ chatCase'.hidden => chatCase'.status = "open"
        /\ UNCHANGED <<scene, appPlane, ownCodes, panel, policies, emergency, desk>>

everything == <<appPlane, ownCodes, panel, policies, ownChat, emergency>>

\* Bound: readers do not meet each other, so that one request is followed at a time; and
\* who has no account is shown of a case what an account is shown that has offered nothing.
Views == /\ scene = "views" /\ ViewsNext /\ OneAtATime
         /\ \A r \in Reqs : rq'[r].op \in {"view", "stream"} => rq'[r].viewer # "anyone"
         /\ UNCHANGED <<scene, everything, ownLists, ownActs, ownMedia>>
\* Bound: nor do lists.  Of the two reports one has a free tag, and a report leaves the
\* queue for one reason.
Lists == /\ scene = "lists" /\ ListsNext /\ OneAtATime
         /\ \A i \in DOMAIN reports' : LET x == reports'[i] IN
              /\ (x.category = None) = (i = 1)
              /\ Cardinality({f \in {"hidden", "reviewed"} : x[f]}) + (IF x.status = "open" THEN 0 ELSE 1) <= 1
         /\ UNCHANGED <<scene, everything, ownViews, ownActs, ownMedia>>
\* Bound: the acts of a behaviour are about one flag.
Moderate == /\ scene = "acts" /\ ModerationNext
            /\ \A r, s \in Reqs : "act" \in DOMAIN rq'[r] \cap DOMAIN rq'[s]
                                 => FlagOf(rq'[r].act) = FlagOf(rq'[s].act)
            /\ \A r \in Reqs, f \in Flags :
                 ("act" \in DOMAIN rq'[r] /\ FlagOf(rq'[r].act) # f)
                 => /\ ~flag[f] /\ by[f] = None /\ f \notin unnoted
                    /\ \A m \in Moderators, x \in Acts : FlagOf(x) = f => auditRows[m][x] = 0
            /\ UNCHANGED <<scene, everything, ownViews, ownLists, ownMedia>>
Media == /\ scene = "media" /\ MediaNext
         /\ UNCHANGED <<scene, everything, ownViews, ownLists, ownActs>>

SceneNext == Sessions \/ Signups \/ Mails \/ Factor \/ Guards \/ Grants
             \/ Access \/ Fees \/ Chat \/ Panic \/ Help \/ Sight
             \/ Views \/ Lists \/ Moderate \/ Media

SceneSpec == SceneInit /\ [][SceneNext]_allVars

\* The tables of the scene keep their types.
ServiceTypeOK ==
    CASE scene = "sessions" -> SessionsTypeOK
      [] scene = "accounts" -> AccountsTypeOK
      [] scene = "codes"    -> CodesTypeOK
      [] scene = "factor"   -> FactorTypeOK
      [] scene = "guards"   -> GuardsTypeOK
      [] scene = "users"    -> UsersTypeOK
      [] scene = "dual"     -> DualTypeOK
      [] scene = "fee"      -> FeeTypeOK
      [] scene = "chat"     -> ChatTypeOK
      [] scene = "panic"    -> PanicTypeOK
      [] scene = "help"     -> HelpTypeOK
      [] scene = "sight"    -> SightTypeOK
      [] scene = "views"    -> ViewsTypeOK
      [] scene = "lists"    -> ListsTypeOK
      [] scene = "acts"     -> ModerationTypeOK
      [] scene = "media"    -> MediaTypeOK

\* Decisions 137/173/183/198: what a device sends again under its client key, a chat message,
\* a panic alert, a rating or a sighting, is stored once and for good, and every answer to
\* the key is about what was stored, whatever races, closes, is purged or dies meanwhile.
KeysKept == ChatKeepsKeys /\ AlertsKeepKeys /\ RatingsKeepKeys /\ SightingsKeepKeys

=============================================================================
