---------------------------- MODULE ServiceProofs ----------------------------
(***************************************************************************)
(* The service as the runs put it together: a behaviour of MCService is,   *)
(* for its scene, a behaviour of the scene's module, of which the proof    *)
(* modules speak; the bounds MCService adds only take behaviours away.     *)
(***************************************************************************)
EXTENDS MCService, AppProofs, PanelProofs, DeskProofs

Owned == <<ownSessions, ownAccounts, ownCodes, ownFactor, ownGuards, ownUsers, ownDual, ownFee, ownChat,
           ownPanic, ownHelp, ownSight, ownViews, ownLists, ownActs, ownMedia>>

LEMMA Standing == UNCHANGED allVars => scene' = scene /\ rq' = rq /\ UNCHANGED Owned
BY DEF allVars, appPlane, panel, policies, emergency, desk, Owned

\* In its scene the service takes the steps of one module.
USE DEF SceneNext, Sessions, Signups, Mails, Factor, Guards, Grants, Access, Fees, Chat, Panic,
        Help, Sight, Views, Lists, Moderate, Media, Owned

LEMMA InSessions ==
    scene = "sessions" /\ [SceneNext]_allVars => (scene = "sessions")' /\ [SessionsNext]_sessionsVars
BY Standing DEF ownSessions, sessionsVars

LEMMA InAccounts ==
    scene = "accounts" /\ [SceneNext]_allVars => (scene = "accounts")' /\ [AccountsNext]_accountsVars
BY Standing DEF ownAccounts, accountsVars

LEMMA InCodes ==
    scene = "codes" /\ [SceneNext]_allVars => (scene = "codes")' /\ [CodesNext]_codeVars
BY Standing DEF ownCodes, codeVars

LEMMA InFactor ==
    scene = "factor" /\ [SceneNext]_allVars => (scene = "factor")' /\ [FactorNext]_factorVars
BY Standing DEF ownFactor, factorVars

LEMMA InGuards ==
    scene = "guards" /\ [SceneNext]_allVars => (scene = "guards")' /\ [GuardsNext]_guardVars
BY Standing DEF ownGuards, guardVars

LEMMA InUsers ==
    scene = "users" /\ [SceneNext]_allVars => (scene = "users")' /\ [UsersNext]_usersVars
BY Standing DEF ownUsers, usersVars

LEMMA InDual ==
    scene = "dual" /\ [SceneNext]_allVars => (scene = "dual")' /\ [DualNext]_dualVars
BY Standing DEF ownDual, dualVars

LEMMA InFee ==
    scene = "fee" /\ [SceneNext]_allVars => (scene = "fee")' /\ [FeeNext]_feeVars
BY Standing DEF ownFee, feeVars

LEMMA InChat ==
    scene = "chat" /\ [SceneNext]_allVars => (scene = "chat")' /\ [ChatNext]_chatVars
BY Standing DEF ownChat, chatVars

LEMMA InPanic ==
    scene = "panic" /\ [SceneNext]_allVars => (scene = "panic")' /\ [PanicNext]_panicVars
BY Standing DEF ownPanic, panicVars

LEMMA InHelp ==
    scene = "help" /\ [SceneNext]_allVars => (scene = "help")' /\ [HelpNext]_helpVars
BY Standing DEF ownHelp, helpVars

LEMMA InSight ==
    scene = "sight" /\ [SceneNext]_allVars => (scene = "sight")' /\ [SightNext]_sightVars
BY Standing DEF ownSight, sightVars

LEMMA InViews ==
    scene = "views" /\ [SceneNext]_allVars => (scene = "views")' /\ [ViewsNext]_viewVars
BY Standing DEF ownViews, viewVars

LEMMA InLists ==
    scene = "lists" /\ [SceneNext]_allVars => (scene = "lists")' /\ [ListsNext]_listVars
BY Standing DEF ownLists, listVars

LEMMA InModeration ==
    scene = "acts" /\ [SceneNext]_allVars => (scene = "acts")' /\ [ModerationNext]_moderationVars
BY Standing DEF ownActs, moderationVars

LEMMA InMedia ==
    scene = "media" /\ [SceneNext]_allVars => (scene = "media")' /\ [MediaNext]_mediaVars
BY Standing DEF ownMedia, mediaVars

HIDE DEF SceneNext, Sessions, Signups, Mails, Factor, Guards, Grants, Access, Fees, Chat, Panic,
         Help, Sight, Views, Lists, Moderate, Media, Owned

\* Whichever module a behaviour of the service is about keeps its tables to their types.
THEOREM ServiceTyped == SceneSpec => []ServiceTypeOK
<1>1. SceneSpec /\ scene = "sessions" => []ServiceTypeOK
  <2>1. SceneInit => SessionsInit
    BY DEF SceneInit
  <2>2. SceneSpec /\ scene = "sessions" => [](scene = "sessions") /\ SessionsSpec
    BY <2>1, InSessions, PTL DEF SceneSpec, SessionsSpec
  <2>3. scene = "sessions" /\ SessionsTypeOK => ServiceTypeOK
    BY DEF ServiceTypeOK
  <2>4. QED
    BY <2>2, <2>3, SessionsHold, PTL
<1>2. SceneSpec /\ scene = "accounts" => []ServiceTypeOK
  <2>1. SceneInit => AccountsInit
    BY DEF SceneInit
  <2>2. SceneSpec /\ scene = "accounts" => [](scene = "accounts") /\ AccountsSpec
    BY <2>1, InAccounts, PTL DEF SceneSpec, AccountsSpec
  <2>3. scene = "accounts" /\ AccountsTypeOK => ServiceTypeOK
    BY DEF ServiceTypeOK
  <2>4. QED
    BY <2>2, <2>3, AccountsStayTheirOwn, PTL
<1>3. SceneSpec /\ scene = "codes" => []ServiceTypeOK
  <2>1. SceneInit => CodesInit
    BY DEF SceneInit
  <2>2. SceneSpec /\ scene = "codes" => [](scene = "codes") /\ CodesSpec
    BY <2>1, InCodes, PTL DEF SceneSpec, CodesSpec
  <2>3. scene = "codes" /\ CodesTypeOK => ServiceTypeOK
    BY DEF ServiceTypeOK
  <2>4. QED
    BY <2>2, <2>3, BruteForceBounded, PTL
<1>4. SceneSpec /\ scene = "factor" => []ServiceTypeOK
  <2>1. SceneInit => FactorInit
    BY DEF SceneInit
  <2>2. SceneSpec /\ scene = "factor" => [](scene = "factor") /\ FactorSpec
    BY <2>1, InFactor, PTL DEF SceneSpec, FactorSpec
  <2>3. scene = "factor" /\ FactorTypeOK => ServiceTypeOK
    BY DEF ServiceTypeOK
  <2>4. QED
    BY <2>2, <2>3, FactorHolds, PTL
<1>5. SceneSpec /\ scene = "guards" => []ServiceTypeOK
  <2>1. SceneInit => GuardsInit
    BY DEF SceneInit
  <2>2. SceneSpec /\ scene = "guards" => [](scene = "guards") /\ GuardsSpec
    BY <2>1, InGuards, PTL DEF SceneSpec, GuardsSpec
  <2>3. scene = "guards" /\ GuardsTypeOK => ServiceTypeOK
    BY DEF ServiceTypeOK
  <2>4. QED
    BY <2>2, <2>3, KilledWithinTtl, PTL
<1>6. SceneSpec /\ scene = "users" => []ServiceTypeOK
  <2>1. SceneInit => UsersInit
    BY DEF SceneInit
  <2>2. SceneSpec /\ scene = "users" => [](scene = "users") /\ UsersSpec
    BY <2>1, InUsers, PTL DEF SceneSpec, UsersSpec
  <2>3. scene = "users" /\ UsersTypeOK => ServiceTypeOK
    BY DEF ServiceTypeOK
  <2>4. QED
    BY <2>2, <2>3, AccessStaysManaged, PTL
<1>7. SceneSpec /\ scene = "dual" => []ServiceTypeOK
  <2>1. SceneInit => DualInit
    BY DEF SceneInit
  <2>2. SceneSpec /\ scene = "dual" => [](scene = "dual") /\ DualSpec
    BY <2>1, InDual, PTL DEF SceneSpec, DualSpec
  <2>3. scene = "dual" /\ DualTypeOK => ServiceTypeOK
    BY DEF ServiceTypeOK
  <2>4. QED
    BY <2>2, <2>3, DualTrail, PTL
<1>8. SceneSpec /\ scene = "fee" => []ServiceTypeOK
  <2>1. SceneInit => FeeInit
    BY DEF SceneInit
  <2>2. SceneSpec /\ scene = "fee" => [](scene = "fee") /\ FeeSpec
    BY <2>1, InFee, PTL DEF SceneSpec, FeeSpec
  <2>3. scene = "fee" /\ FeeTypeOK => ServiceTypeOK
    BY DEF ServiceTypeOK
  <2>4. QED
    BY <2>2, <2>3, Vetoed, PTL
<1>9. SceneSpec /\ scene = "chat" => []ServiceTypeOK
  <2>1. SceneInit => ChatInit
    BY DEF SceneInit
  <2>2. SceneSpec /\ scene = "chat" => [](scene = "chat") /\ ChatSpec
    BY <2>1, InChat, PTL DEF SceneSpec, ChatSpec
  <2>3. scene = "chat" /\ ChatTypeOK => ServiceTypeOK
    BY DEF ServiceTypeOK
  <2>4. QED
    BY <2>2, <2>3, RetriesAnswered, PTL
<1>10. SceneSpec /\ scene = "panic" => []ServiceTypeOK
  <2>1. SceneInit => PanicInit
    BY DEF SceneInit
  <2>2. SceneSpec /\ scene = "panic" => [](scene = "panic") /\ PanicSpec
    BY <2>1, InPanic, PTL DEF SceneSpec, PanicSpec
  <2>3. scene = "panic" /\ PanicTypeOK => ServiceTypeOK
    BY DEF ServiceTypeOK
  <2>4. QED
    BY <2>2, <2>3, CooldownKept, PTL
<1>11. SceneSpec /\ scene = "help" => []ServiceTypeOK
  <2>1. SceneInit => HelpInit
    BY DEF SceneInit
  <2>2. SceneSpec /\ scene = "help" => [](scene = "help") /\ HelpSpec
    BY <2>1, InHelp, PTL DEF SceneSpec, HelpSpec
  <2>3. scene = "help" /\ HelpTypeOK => ServiceTypeOK
    BY DEF ServiceTypeOK
  <2>4. QED
    BY <2>2, <2>3, RatingsKept, PTL
<1>12. SceneSpec /\ scene = "sight" => []ServiceTypeOK
  <2>1. SceneInit => SightInit
    BY DEF SceneInit
  <2>2. SceneSpec /\ scene = "sight" => [](scene = "sight") /\ SightSpec
    BY <2>1, InSight, PTL DEF SceneSpec, SightSpec
  <2>3. scene = "sight" /\ SightTypeOK => ServiceTypeOK
    BY DEF ServiceTypeOK
  <2>4. QED
    BY <2>2, <2>3, SumsAreTheLogs, PTL
<1>13. SceneSpec /\ scene = "views" => []ServiceTypeOK
  <2>1. SceneInit => ViewsInit
    BY DEF SceneInit
  <2>2. SceneSpec /\ scene = "views" => [](scene = "views") /\ ViewsSpec
    BY <2>1, InViews, PTL DEF SceneSpec, ViewsSpec
  <2>3. scene = "views" /\ ViewsTypeOK => ServiceTypeOK
    BY DEF ServiceTypeOK
  <2>4. QED
    BY <2>2, <2>3, ShownWhatWasVisible, PTL
<1>14. SceneSpec /\ scene = "lists" => []ServiceTypeOK
  <2>1. SceneInit => ListsInit
    BY DEF SceneInit
  <2>2. SceneSpec /\ scene = "lists" => [](scene = "lists") /\ ListsSpec
    BY <2>1, InLists, PTL DEF SceneSpec, ListsSpec
  <2>3. scene = "lists" /\ ListsTypeOK => ServiceTypeOK
    BY DEF ServiceTypeOK
  <2>4. QED
    BY <2>2, <2>3, NobodyPassedOver, PTL
<1>15. SceneSpec /\ scene = "acts" => []ServiceTypeOK
  <2>1. SceneInit => ModerationInit
    BY DEF SceneInit
  <2>2. SceneSpec /\ scene = "acts" => [](scene = "acts") /\ ModerationSpec
    BY <2>1, InModeration, PTL DEF SceneSpec, ModerationSpec
  <2>3. scene = "acts" /\ ModerationTypeOK => ServiceTypeOK
    BY DEF ServiceTypeOK
  <2>4. QED
    BY <2>2, <2>3, TrailMatchesRow, PTL
<1>16. SceneSpec /\ scene = "media" => []ServiceTypeOK
  <2>1. SceneInit => MediaInit
    BY DEF SceneInit
  <2>2. SceneSpec /\ scene = "media" => [](scene = "media") /\ MediaSpec
    BY <2>1, InMedia, PTL DEF SceneSpec, MediaSpec
  <2>3. scene = "media" /\ MediaTypeOK => ServiceTypeOK
    BY DEF ServiceTypeOK
  <2>4. QED
    BY <2>2, <2>3, KeyMeansObjects, PTL
<1>17. SceneInit =>
        \/ scene = "sessions" \/ scene = "accounts" \/ scene = "codes" \/ scene = "factor"
        \/ scene = "guards" \/ scene = "users" \/ scene = "dual" \/ scene = "fee"
        \/ scene = "chat" \/ scene = "panic" \/ scene = "help" \/ scene = "sight"
        \/ scene = "views" \/ scene = "lists" \/ scene = "acts" \/ scene = "media"
  BY ScenesAssumption DEF SceneInit
<1>18. QED
  BY <1>1, <1>2, <1>3, <1>4, <1>5, <1>6, <1>7, <1>8, <1>9, <1>10, <1>11, <1>12, <1>13, <1>14, <1>15, <1>16, <1>17, PTL DEF SceneSpec

\* The tables of another scene are as they were filled.
LEMMA Apart ==
    [SceneNext]_allVars =>
        /\ scene' = scene
        /\ scene # "chat" => UNCHANGED ownChat
        /\ scene # "panic" => UNCHANGED ownPanic
        /\ scene # "help" => UNCHANGED ownHelp
        /\ scene # "sight" => UNCHANGED ownSight
<1>1. Sessions \/ Signups \/ Mails \/ Factor => scene' = scene /\ UNCHANGED <<ownChat, ownPanic, ownHelp, ownSight>>
  BY DEF Sessions, Signups, Mails, Factor, everything, emergency
<1>2. Guards \/ Grants \/ Access \/ Fees => scene' = scene /\ UNCHANGED <<ownChat, ownPanic, ownHelp, ownSight>>
  BY DEF Guards, Grants, Access, Fees, everything, emergency
<1>3. Views \/ Lists \/ Moderate \/ Media => scene' = scene /\ UNCHANGED <<ownChat, ownPanic, ownHelp, ownSight>>
  BY DEF Views, Lists, Moderate, Media, everything, emergency
<1>4. Chat => scene' = scene /\ scene = "chat" /\ UNCHANGED <<ownPanic, ownHelp, ownSight>>
  BY DEF Chat, emergency
<1>5. Panic => scene' = scene /\ scene = "panic" /\ UNCHANGED <<ownChat, ownHelp, ownSight>>
  BY DEF Panic, emergency
<1>6. Help => scene' = scene /\ scene = "help" /\ UNCHANGED <<ownChat, ownPanic, ownSight>>
  BY DEF Help, emergency
<1>7. Sight => scene' = scene /\ scene = "sight" /\ UNCHANGED <<ownChat, ownPanic, ownHelp>>
  BY DEF Sight, emergency
<1>8. UNCHANGED allVars => scene' = scene /\ UNCHANGED <<ownChat, ownPanic, ownHelp, ownSight>>
  BY Standing DEF Owned
<1>9. QED
  BY <1>1, <1>2, <1>3, <1>4, <1>5, <1>6, <1>7, <1>8 DEF SceneNext

LEMMA NoChat ==
    scene # "chat" /\ [SceneNext]_allVars => (scene # "chat")' /\ UNCHANGED ChatKeys!keyedVars
<1>1. scene # "chat" /\ [SceneNext]_allVars => (scene # "chat")' /\ UNCHANGED ownChat
  BY Apart
<1>2. UNCHANGED ownChat => UNCHANGED ChatKeys!keyedVars
  BY DEF ownChat, MessageIds, ChatKeys!keyedVars
<1>3. QED
  BY <1>1, <1>2

LEMMA NoPanic ==
    scene # "panic" /\ [SceneNext]_allVars => (scene # "panic")' /\ UNCHANGED PanicKeyed!keyedVars
<1>1. scene # "panic" /\ [SceneNext]_allVars => (scene # "panic")' /\ UNCHANGED ownPanic
  BY Apart
<1>2. UNCHANGED ownPanic => UNCHANGED PanicKeyed!keyedVars
  BY DEF ownPanic, PanicKeyed!keyedVars
<1>3. QED
  BY <1>1, <1>2

LEMMA NoHelp ==
    scene # "help" /\ [SceneNext]_allVars => (scene # "help")' /\ UNCHANGED RatingKeyed!keyedVars
<1>1. scene # "help" /\ [SceneNext]_allVars => (scene # "help")' /\ UNCHANGED ownHelp
  BY Apart
<1>2. UNCHANGED ownHelp => UNCHANGED RatingKeyed!keyedVars
  BY DEF ownHelp, RatingKeyed!keyedVars
<1>3. QED
  BY <1>1, <1>2

LEMMA NoSight ==
    scene # "sight" /\ [SceneNext]_allVars => (scene # "sight")' /\ UNCHANGED SightingKeyed!keyedVars
<1>1. scene # "sight" /\ [SceneNext]_allVars => (scene # "sight")' /\ UNCHANGED ownSight
  BY Apart
<1>2. UNCHANGED ownSight => UNCHANGED SightingKeyed!keyedVars
  BY DEF ownSight, SightingKeyed!keyedVars
<1>3. QED
  BY <1>1, <1>2

\* In whichever scene a client key is used, what it names is stored once and for good, and
\* every answer to it is about what was stored (the offline queue of the devices).
THEOREM DevicesKeepKeys == SceneSpec => KeysKept
<1>1. SceneSpec => ChatKeepsKeys
  <2>1. SceneInit => ChatInit
    BY DEF SceneInit
  <2>2. ChatInit => ChatKeys!Init
    BY DEF ChatInit, MessageIds, ChatKeys!Init
  <2>3. SceneSpec /\ scene = "chat" => ChatKeepsKeys
    BY <2>1, InChat, ChatKeysKept, PTL DEF SceneSpec, ChatSpec
  <2>4. UNCHANGED ChatKeys!keyedVars => [ChatKeys!Next]_(ChatKeys!keyedVars)
    OBVIOUS
  <2>5. SceneSpec /\ scene # "chat" => ChatKeepsKeys
    BY <2>1, <2>2, <2>4, NoChat, PTL DEF SceneSpec, ChatKeepsKeys, ChatKeys!Spec
  <2>6. QED
    BY <2>3, <2>5
<1>2. SceneSpec => AlertsKeepKeys
  <2>1. SceneInit => PanicInit
    BY DEF SceneInit
  <2>2. PanicInit => PanicKeyed!Init
    BY DEF PanicInit, PanicKeyed!Init
  <2>3. SceneSpec /\ scene = "panic" => AlertsKeepKeys
    BY <2>1, InPanic, AlertKeysKept, PTL DEF SceneSpec, PanicSpec
  <2>4. UNCHANGED PanicKeyed!keyedVars => [PanicKeyed!Next]_(PanicKeyed!keyedVars)
    OBVIOUS
  <2>5. SceneSpec /\ scene # "panic" => AlertsKeepKeys
    BY <2>1, <2>2, <2>4, NoPanic, PTL DEF SceneSpec, AlertsKeepKeys, PanicKeyed!Spec
  <2>6. QED
    BY <2>3, <2>5
<1>3. SceneSpec => RatingsKeepKeys
  <2>1. SceneInit => HelpInit
    BY DEF SceneInit
  <2>2. HelpInit => RatingKeyed!Init
    BY DEF HelpInit, OfferIds, RatingKeyed!Init
  <2>3. SceneSpec /\ scene = "help" => RatingsKeepKeys
    BY <2>1, InHelp, RatingKeysKept, PTL DEF SceneSpec, HelpSpec
  <2>4. UNCHANGED RatingKeyed!keyedVars => [RatingKeyed!Next]_(RatingKeyed!keyedVars)
    OBVIOUS
  <2>5. SceneSpec /\ scene # "help" => RatingsKeepKeys
    BY <2>1, <2>2, <2>4, NoHelp, PTL DEF SceneSpec, RatingsKeepKeys, RatingKeyed!Spec
  <2>6. QED
    BY <2>3, <2>5
<1>4. SceneSpec => SightingsKeepKeys
  <2>1. SceneInit => SightInit
    BY DEF SceneInit
  <2>2. SightInit => SightingKeyed!Init
    BY DEF SightInit, SightingKeyed!Init
  <2>3. SceneSpec /\ scene = "sight" => SightingsKeepKeys
    BY <2>1, InSight, SightingKeysKept, PTL DEF SceneSpec, SightSpec
  <2>4. UNCHANGED SightingKeyed!keyedVars => [SightingKeyed!Next]_(SightingKeyed!keyedVars)
    OBVIOUS
  <2>5. SceneSpec /\ scene # "sight" => SightingsKeepKeys
    BY <2>1, <2>2, <2>4, NoSight, PTL DEF SceneSpec, SightingsKeepKeys, SightingKeyed!Spec
  <2>6. QED
    BY <2>3, <2>5
<1>5. QED
  BY <1>1, <1>2, <1>3, <1>4 DEF KeysKept

=============================================================================
