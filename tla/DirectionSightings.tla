------------------------- MODULE DirectionSightings -------------------------
(***************************************************************************)
(* Directions in which a fleeing subject was seen: an append-only log, the *)
(* per-direction sums kept beside it in the same transaction, and the      *)
(* direction read from the sums by weight and, at equal weight, by the     *)
(* second it was first reported in.                                        *)
(*                                                                         *)
(* The transaction has two statements that stamp, each with the second it  *)
(* starts in: the log row, whose client key it holds from then on, and the *)
(* sums, whose row it may have to wait for.  Nothing orders the            *)
(* transactions of two directions.                                         *)
(*                                                                         *)
(* One case of an eligible category, seen by others than its owner.  The   *)
(* legal gate, asked before the write, is LegalGate's matter.              *)
(***************************************************************************)
EXTENDS Handlers, SequencesExt

CONSTANTS
    Directions,      \* the eight points of the compass
    SightingKeys,    \* client keys: one for each sighting a device means to log
    Weights,         \* the anonymous and the identified weight
    MaxSightings,    \* bound: sightings ever logged
    MaxSeconds       \* bound: seconds that pass

ASSUME SightingsAssumption ==
    {MaxSightings, MaxSeconds} \subseteq Nat /\ Weights \subseteq Nat \ {0}

VARIABLES
    caseOpen,   \* tb_report.status = 'open'
    sightings,  \* tb_direction_sighting, in order of commit
    sums,       \* tb_direction_estimate: a row per direction reported
    second      \* the clock NOW() reads, to the second

sightVars == <<caseOpen, sightings, sums, second, rq>>

----------------------------------------------------------------------------

\* at: created_at.  done: history, the second of the commit.
Sighting == [key : SightingKeys, direction : Directions, weight : Weights,
             at : 0 .. MaxSeconds, done : 0 .. MaxSeconds]
Sum      == [weight : Nat, count : Nat, first : 0 .. MaxSeconds]

SightTypeOK ==
    /\ caseOpen \in BOOLEAN /\ second \in 0 .. MaxSeconds
    /\ sightings \in Seq(Sighting) /\ Len(sightings) <= MaxSightings
    /\ DOMAIN sums \subseteq Directions /\ \A d \in DOMAIN sums : sums[d] \in Sum

SightInit ==
    /\ caseOpen = TRUE /\ second = 0
    /\ sightings = << >> /\ sums = << >>
    /\ HandlersInit

\* pickWinningDirection: what may be picked.  Directions first reported within the same
\* second are left to the order in which the rows come back.
Winners(rows) ==
    {d \in DOMAIN rows : \A e \in DOMAIN rows :
        \/ rows[d].weight > rows[e].weight
        \/ rows[d].weight = rows[e].weight /\ rows[d].first <= rows[e].first}

\* totalSightingCount, which meetsDisclosureFloor compares with its floor.
TotalCount(rows) == FoldSet(LAMBDA d, n : rows[d].count + n, 0, DOMAIN rows)

\* A client key that is taken, and one that a transaction under way has inserted.
Logged(key)  == \E i \in DOMAIN sightings : sightings[i].key = key
Logging(key) == \E r \in Reqs : rq[r].pc \in {"sum", "commit"} /\ rq[r].key = key

----------------------------------------------------------------------------
(* logDirectionSighting                                                    *)

\* findSightingByClientKey, findReportForSighting: a sighting that was logged is
\* answered with what the sums say by then, and writes nothing.
SightBegin(r, key, direction, weight) ==
    /\ ~Logged(key) /\ caseOpen
    /\ Begin(r, [op |-> "sight", pc |-> "insert", key |-> key, direction |-> direction,
                 weight |-> weight])
    /\ UNCHANGED <<caseOpen, sightings, sums, second>>

\* Mutated form: no UNIQUE client_key, only the look before.
InsertSightingTwice(r) ==
    /\ At(r, "sight", "insert")
    /\ With(r, [pc |-> "sum", at |-> second])
    /\ UNCHANGED <<caseOpen, sightings, sums, second>>

\* insertSighting, the log: the insert waits for a transaction that holds its key, and a
\* key that was logged meanwhile fails the request.
InsertSighting(r) ==
    /\ At(r, "sight", "insert") /\ ~Logged(rq[r].key) /\ ~Logging(rq[r].key)
    /\ With(r, [pc |-> "sum", at |-> second])
    /\ UNCHANGED <<caseOpen, sightings, sums, second>>

\* insertSighting, the upsert: NOW() is the second it starts in, whether or not it waits.
SumSighting(r) ==
    /\ At(r, "sight", "sum")
    /\ With(r, [pc |-> "commit", now |-> second])
    /\ UNCHANGED <<caseOpen, sightings, sums, second>>

\* Mutated form: the upsert stamps the row again.
SumUpRestamped(direction, weight, stamp) ==
    sums' = Extend(sums, direction,
        [weight |-> weight + (IF direction \in DOMAIN sums THEN sums[direction].weight ELSE 0),
         count |-> 1 + (IF direction \in DOMAIN sums THEN sums[direction].count ELSE 0),
         first |-> stamp])

\* INSERT ... ON DUPLICATE KEY UPDATE: first_reported_at is the INSERT's only.
SumUp(direction, weight, stamp) ==
    sums' = Extend(sums, direction,
        IF direction \in DOMAIN sums
        THEN [sums[direction] EXCEPT !.weight = @ + weight, !.count = @ + 1]
        ELSE [weight |-> weight, count |-> 1, first |-> stamp])

\* The row of the sums is locked from the upsert to the commit: one step.  A transaction
\* that dies before is rolled back.
CommitSighting(r) ==
    /\ At(r, "sight", "commit") /\ Len(sightings) < MaxSightings
    /\ sightings' = Append(sightings, [key |-> rq[r].key, direction |-> rq[r].direction,
                                       weight |-> rq[r].weight, at |-> rq[r].at, done |-> second])
    /\ SumUp(rq[r].direction, rq[r].weight, rq[r].now)
    /\ Finish(r)
    /\ UNCHANGED <<caseOpen, second>>

----------------------------------------------------------------------------

CloseSightings ==
    /\ caseOpen /\ caseOpen' = FALSE
    /\ UNCHANGED <<sightings, sums, second, rq>>

SecondPasses ==
    /\ second < MaxSeconds /\ second' = second + 1
    /\ UNCHANGED <<caseOpen, sightings, sums, rq>>

SightNext ==
    \/ \E r \in Reqs :
        \/ \E key \in SightingKeys, d \in Directions, w \in Weights : SightBegin(r, key, d, w)
        \/ InsertSighting(r) \/ SumSighting(r) \/ CommitSighting(r)
        \/ GivesUp(r) /\ UNCHANGED <<caseOpen, sightings, sums, second>>
    \/ CloseSightings \/ SecondPasses

SightSpec == SightInit /\ [][SightNext]_sightVars

----------------------------------------------------------------------------
(* Properties                                                              *)

\* The log of a direction, and the weight it adds up to.
SeenIn(d)  == {i \in DOMAIN sightings : sightings[i].direction = d}
Heft(d)    == FoldSet(LAMBDA i, n : sightings[i].weight + n, 0, SeenIn(d))

\* Every sighting of e was stored after one of d had begun to be.
BegunBefore(d, e) ==
    \E i \in SeenIn(d) : \A j \in SeenIn(e) : sightings[i].at <= sightings[j].done

\* Decisions 22/26: "the two tables must never drift".  However retries and sightings
\* overlap, what may be picked from the sums is what the log says: a heaviest direction
\* and, of equally heavy ones, none that another was stored before it was first reported;
\* and the floor counts every sighting once.  Of first sightings whose transactions
\* overlap the sums may prefer the one that the log has later, for their second is another.
EstimateIsTheLogs ==
    /\ \A d \in Winners(sums) : \A e \in Directions :
          Heft(d) > Heft(e) \/ (Heft(d) = Heft(e) /\ BegunBefore(d, e))
    /\ TotalCount(sums) = Len(sightings)

\* An answer names no row: it is the estimate of the moment.
SightingKeyed == INSTANCE KeyedWrites WITH
    stored <- {<<sightings[i].key, <<i, sightings[i]>>>> : i \in DOMAIN sightings},
    told   <- {}

\* Decision 137: a sighting sent again, however late, is logged once and weighs once.
SightingsKeepKeys == SightingKeyed!Spec

=============================================================================
