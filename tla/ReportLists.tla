---------------------------- MODULE ReportLists ----------------------------
(***************************************************************************)
(* The panel's two lists of reports, the moderation queue, the most urgent *)
(* first, and the search, the newest first; and its statistics.  A page,   *)
(* or a table of counts, is the end of a chain of reads (the tier of every *)
(* category, a count, the rows), each at its own moment, while cases       *)
(* arrive, are moderated, resolved and re-tiered.                          *)
(*                                                                         *)
(* Lists change nothing, and of the others' handlers the one UPDATE that   *)
(* changes the list is what matters here (Moderation has the whole).       *)
(* Reports are numbered as they are created.  stirred keeps, as history,   *)
(* the reports and categories that changed while a list was made.          *)
(***************************************************************************)
EXTENDS Handlers

CONSTANTS
    Listed,     \* bound: reports ever created
    Categories, \* categories, None for reports with a free tag
    PageSize,
    Pages,      \* the pages asked for
    CountFloor, \* K_ANONYMITY_FLOOR
    MaxStirs    \* bound: reports and categories that change while a list is made

ASSUME ListsAssumption == /\ {Listed, PageSize, CountFloor, MaxStirs} \subseteq Nat \ {0}
                          /\ Pages \subseteq Nat \ {0}
                          /\ IsFiniteSet(Categories) /\ \A c \in Categories : c \notin Nat

VARIABLES
    reports,    \* tb_report, with whether a living medium is attached
    tiers       \* the tier of a category, as getRiskTier answers it

listVars == <<reports, tiers, rq>>

----------------------------------------------------------------------------

ListTiers == {"high", "medium", "low"}

\* ReportSearchRow.  A purge changes no list: the case is resolved, and stays so.
SearchRow == [category : Categories, status : {"open", "resolved"}, hidden : BOOLEAN,
              reviewed : BOOLEAN, pictured : BOOLEAN]

ListsTypeOK ==
    /\ reports \in Seq(SearchRow) /\ Len(reports) <= Listed
    /\ tiers \in [Categories -> ListTiers]
    /\ \A r \in Reqs : rq[r].op = "list" => rq[r].shown \subseteq DOMAIN reports

\* A free tag has no tier to configure.
ListsInit == /\ reports = << >> /\ HandlersInit
             /\ tiers \in [Categories -> ListTiers] /\ (None \in Categories => tiers[None] = "medium")

----------------------------------------------------------------------------
(* What the others do                                                      *)

Stir(x) ==
    /\ rq' = [r \in Reqs |-> IF rq[r].op = "idle" THEN rq[r]
                             ELSE [rq[r] EXCEPT !.stirred = @ \cup {x}]]
    /\ \A r \in Reqs : rq'[r].op # "idle" => Cardinality(rq'[r].stirred) <= MaxStirs

Arrives(c) ==
    /\ Len(reports) < Listed
    /\ reports' = Append(reports, [category |-> c, status |-> "open", hidden |-> FALSE,
                                   reviewed |-> FALSE, pictured |-> FALSE])
    /\ Stir(Len(reports) + 1) /\ UNCHANGED tiers

Becomes(i, row) == reports' = [reports EXCEPT ![i] = row] /\ Stir(i) /\ UNCHANGED tiers

Hides(i)    == Becomes(i, [reports[i] EXCEPT !.hidden = ~@])
Reviews(i)  == ~reports[i].reviewed /\ Becomes(i, [reports[i] EXCEPT !.reviewed = TRUE])
Resolves(i) == reports[i].status = "open" /\ Becomes(i, [reports[i] EXCEPT !.status = "resolved"])
Pictures(i) == /\ reports[i].status = "open" /\ ~reports[i].pictured
               /\ Becomes(i, [reports[i] EXCEPT !.pictured = TRUE])
Retiers(c)  == c # None /\ \E t \in ListTiers \ {tiers[c]} :
                  tiers' = [tiers EXCEPT ![c] = t] /\ Stir(c) /\ UNCHANGED reports

----------------------------------------------------------------------------
(* What a list asks for                                                    *)

\* queueReports: open, neither reviewed nor hidden; frozen ones stay.
Waits(i) == reports[i].status = "open" /\ ~reports[i].reviewed /\ ~reports[i].hidden

\* Bound: the filters asked for: one on a column, one on the tier.  "queue" stands for the
\* list that has its own WHERE.
Filters == {"queue", "hidden", "high"}

\* searchReports: a conjunction of filters, of which one on a column and the one on
\* the tier, which the service has turned into categories.
Matches(filter, ranked, i) ==
    CASE filter = "queue"  -> Waits(i)
      [] filter = "hidden" -> reports[i].hidden
      [] filter = "high"   -> ranked[reports[i].category] = "high"

TierRank == [high |-> 0, medium |-> 1, low |-> 2]

\* Mutated form: cases without media come first.
BeforeMediaLast(filter, ranked, i, j) ==
    LET key(x) == 2 * TierRank[ranked[reports[x].category]] + (IF reports[x].pictured THEN 1 ELSE 0) IN
    IF filter = "queue" THEN key(i) < key(j) \/ (key(i) = key(j) /\ i < j) ELSE i > j

\* The ORDER BY of the queue: tier, cases with media, the oldest; of the search: the newest.
Before(filter, ranked, i, j) ==
    LET key(x) == 2 * TierRank[ranked[reports[x].category]] + (IF reports[x].pictured THEN 0 ELSE 1) IN
    IF filter = "queue" THEN key(i) < key(j) \/ (key(i) = key(j) /\ i < j) ELSE i > j

----------------------------------------------------------------------------
(* Making a page                                                           *)

\* resolveQueueTiers, resolveTier: needed by the queue and by a filter on the tier.
ListBegin(r, filter, page) ==
    /\ Begin(r, [op |-> "list", pc |-> IF filter = "hidden" THEN "count" ELSE "tiers",
                 filter |-> filter, page |-> page, ranked |-> << >>, stirred |-> {}, shown |-> {}])
    /\ UNCHANGED <<reports, tiers>>

\* getRiskTier, one category after the other: in whatever order they are listed.
RankCategory(r, c) ==
    /\ At(r, "list", "tiers") /\ c \notin DOMAIN rq[r].ranked
    /\ LET ranked == Extend(rq[r].ranked, c, tiers[c]) IN
       With(r, [ranked |-> ranked, pc |-> IF DOMAIN ranked = Categories THEN "count" ELSE "tiers"])
    /\ UNCHANGED <<reports, tiers>>

Matching(r) == {i \in DOMAIN reports : Matches(rq[r].filter, rq[r].ranked, i)}

\* SELECT COUNT(*): nothing to page through ends the request.
CountRows(r) ==
    /\ At(r, "list", "count")
    /\ Goto(r, IF Matching(r) = {} THEN "listed" ELSE "rows")
    /\ UNCHANGED <<reports, tiers>>

\* ORDER BY ... LIMIT pageSize OFFSET (page - 1) * pageSize.
SelectRows(r) ==
    /\ At(r, "list", "rows")
    /\ LET ahead(i) == Cardinality({j \in Matching(r) : Before(rq[r].filter, rq[r].ranked, j, i)})
           first    == (rq[r].page - 1) * PageSize
       IN  With(r, [pc |-> "listed",
                    shown |-> {i \in Matching(r) : ahead(i) \in first .. first + PageSize - 1}])
    /\ UNCHANGED <<reports, tiers>>

\* The page is sent, each row labelled with the tier its category has by then.
Listing(r) == At(r, "list", "listed") /\ Finish(r) /\ UNCHANGED <<reports, tiers>>

----------------------------------------------------------------------------
(* Statistics                                                              *)

\* GROUP BY: the counts read side by side.  The range is left out, and by subject and by
\* period is counted as by category, what is withheld as what is hidden.
Groups == {"totals", "category", "status", "hidden"}

StatsBegin(r) ==
    /\ Begin(r, [op |-> "stats", pc |-> "counts", left |-> Groups, stirred |-> {}, counted |-> << >>,
                 byTier |-> [t \in ListTiers |-> 0], untiered |-> Categories])
    /\ UNCHANGED <<reports, tiers>>

Keeps(r, group, count) ==
    /\ At(r, "stats", "counts") /\ group \in rq[r].left
    /\ With(r, [left |-> rq[r].left \ {group}, counted |-> Extend(rq[r].counted, group, count),
                pc |-> IF rq[r].left = {group} THEN "tiers" ELSE "counts"])
    /\ UNCHANGED <<reports, tiers>>

CountTotals(r)     == Keeps(r, "totals", Len(reports))
CountByCategory(r) == Keeps(r, "category", [c \in Categories |->
                          Cardinality({i \in DOMAIN reports : reports[i].category = c})])
CountByStatus(r)   == Keeps(r, "status", [s \in {"open", "resolved"} |->
                          Cardinality({i \in DOMAIN reports : reports[i].status = s})])
CountHidden(r)     == Keeps(r, "hidden", Cardinality({i \in DOMAIN reports : reports[i].hidden}))

\* The tier of one category after the other, whose count is added as it was read.
AddToTier(r, c) ==
    /\ At(r, "stats", "tiers") /\ c \in rq[r].untiered
    /\ With(r, [byTier |-> [rq[r].byTier EXCEPT ![tiers[c]] = @ + rq[r].counted["category"][c]],
                untiered |-> rq[r].untiered \ {c},
                pc |-> IF rq[r].untiered = {c} THEN "counted" ELSE "tiers"])
    /\ UNCHANGED <<reports, tiers>>

\* floorCount: what is small is not told.
FloorCount(n) == IF n \in 1 .. CountFloor - 1 THEN None ELSE n

\* Every count that is sent.
StatsSent(r) ==
    LET counted == rq[r].counted IN
    [tier     |-> [t \in ListTiers |-> FloorCount(rq[r].byTier[t])],
     category |-> [c \in Categories |-> FloorCount(counted["category"][c])],
     status   |-> [s \in {"open", "resolved"} |-> FloorCount(counted["status"][s])],
     total    |-> FloorCount(counted["totals"]), hidden |-> FloorCount(counted["hidden"])]

SendStats(r) == At(r, "stats", "counted") /\ Finish(r) /\ UNCHANGED <<reports, tiers>>

ListsNext ==
    \/ \E c \in Categories : Arrives(c) \/ Retiers(c)
    \/ \E i \in DOMAIN reports : Hides(i) \/ Reviews(i) \/ Resolves(i) \/ Pictures(i)
    \/ \E r \in Reqs :
        \/ \E filter \in Filters, page \in Pages : ListBegin(r, filter, page)
        \/ \E c \in Categories : RankCategory(r, c)
        \/ CountRows(r) \/ SelectRows(r) \/ Listing(r)
        \/ StatsBegin(r) \/ CountTotals(r) \/ CountByCategory(r) \/ CountByStatus(r) \/ CountHidden(r)
        \/ \E c \in Categories : AddToTier(r, c)
        \/ SendStats(r)
        \/ GivesUp(r) /\ UNCHANGED <<reports, tiers>>

ListsSpec == ListsInit /\ [][ListsNext]_listVars

----------------------------------------------------------------------------
(* Properties                                                              *)

\* Who is before whom: in the queue the higher tier, then media, then age; in the search
\* the newer.
ComesFirst(filter, i, j) ==
    LET urgent(x) == tiers[reports[x].category] IN
    IF filter # "queue" THEN j < i
    ELSE \/ TierRank[urgent(i)] < TierRank[urgent(j)]
         \/ /\ urgent(i) = urgent(j)
            /\ \/ reports[i].pictured /\ ~reports[j].pictured
               \/ reports[i].pictured = reports[j].pictured /\ i < j

\* Decision 161.  However the desk moves while a page is made, a case that did not move
\* is not passed over: one that belongs to the list and comes before a case on the page,
\* or belongs to a list whose page is not full, is on the page, unless there are earlier
\* pages with room for it.  (Between two pages it may be passed over: the offset counts
\* rows of a list that has moved.)
PagesPassNobodyOver ==
    \A r \in Reqs : At(r, "list", "listed") =>
        LET page == rq[r].shown
            still(i) == {i, reports[i].category} \cap rq[r].stirred = {}
            left == {i \in DOMAIN reports : still(i) /\ i \notin page /\ Matches(rq[r].filter, tiers, i)}
            room == (rq[r].page - 1) * PageSize
        IN  /\ Cardinality(page) < PageSize => Cardinality(left) <= room
            /\ \A j \in page : still(j) =>
                  Cardinality({i \in left : ComesFirst(rq[r].filter, i, j)}) <= room

\* Decision 164, "summed raw, floored afterwards".  Each case is in one tier, although
\* tiers move between their reads; when nothing moves, a tier is told whatever the counts
\* of its categories are, of which each may be too small to tell.
StatsAddUp ==
    \A r \in Reqs : At(r, "stats", "counted") =>
        LET byTier == rq[r].byTier
            of(t)  == {i \in DOMAIN reports : tiers[reports[i].category] = t}
        IN  /\ rq[r].stirred \subseteq Categories =>
                  byTier["high"] + byTier["medium"] + byTier["low"] = rq[r].counted["totals"]
            /\ rq[r].stirred = {} =>
                  \A t \in ListTiers : StatsSent(r).tier[t] = FloorCount(Cardinality(of(t)))

\* What the desk of the panel is told, page by page and in sums, leaves no case out.
DeskMissesNothing == PagesPassNobodyOver /\ StatsAddUp

=============================================================================
