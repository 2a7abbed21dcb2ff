----------------------------- MODULE SeasonStats -----------------------------
(***************************************************************************)
(* The life of a season stats upload (nba/season_stats.py from the preview *)
(* on, with its pages and its command): previewed, then imported,          *)
(* discarded, expired or failed.                                           *)
(*                                                                         *)
(* Each statement that waits is two steps: it finds its rows (`scan`), and *)
(* it goes on, looking at each found row again, once nobody else has one   *)
(* of them locked.  That is what PostgreSQL does at READ COMMITTED.  What  *)
(* a transaction has written is in `held` (uploads) and `draft` (rows of   *)
(* its season's stats) until it commits; both are locks.  A row somebody   *)
(* has inserted and not committed is found by nobody, but an insert of the *)
(* same row waits for it.                                                  *)
(***************************************************************************)
EXTENDS Integers, FiniteSets, TLC

CONSTANTS
  Workers, Users,
  Runs,                \* bound: the uploads that may be made, in this order
  Players, Seasons,
  NoRow, OldRow,       \* no row; a row from before the first upload
  Nobody,
  Stored,              \* the players with stats before the first upload
  Sources,             \* who uploads: "web", "command", "dry_run"
  Lifetime,            \* PREVIEW_LIFETIME
  MayFail, MayVanish,  \* whether writing may raise, and players be deleted
  LastInstant          \* bound: time stops here

StatsConstants ==
  /\ Runs = 1..Cardinality(Runs)
  /\ Seasons # {} /\ Stored \subseteq Players /\ Nobody \notin Users
  /\ NoRow \notin Runs \union {OldRow} /\ OldRow \notin Runs
  /\ Sources \subseteq {"web", "command", "dry_run"}
  /\ Lifetime \in Nat /\ LastInstant \in Nat
  /\ MayFail \in BOOLEAN /\ MayVanish \in BOOLEAN

VARIABLES
  now,
  runs,                \* SeasonStatsImport rows
  stats,               \* PlayerSeasonStats rows: which upload wrote each
  gone,                \* players deleted
  job                  \* each worker's request

vars == <<now, runs, stats, gone, job>>

-----------------------------------------------------------------------------
(* Rows and requests *)

NoRun == [status |-> "absent", season |-> CHOOSE s \in Seasons : TRUE,
           triggered_by |-> Nobody, created_at |-> 0, payload |-> {},
           created |-> 0, updated |-> 0, removed |-> 0]

Upload == [status : {"absent", "previewed", "imported", "discarded", "expired", "failed"},
           season : Seasons, triggered_by : Users \union {Nobody},
           created_at : 0..LastInstant, payload : SUBSET Players,
           created : Nat, updated : Nat, removed : Nat]

Idle == [pc |-> "idle", kind |-> "page", source |-> "web", user |-> Nobody, run |-> 0,
         season |-> CHOOSE s \in Seasons : TRUE, matched |-> {}, scan |-> {},
         existing |-> {}, alive |-> {}, held |-> {}, draft |-> << >>, counts |-> <<0, 0, 0>>]

At(w, pc) == job[w].pc = pc

\* Merge two functions, the first one wins.
Over(f, g) == [x \in DOMAIN f \union DOMAIN g |-> IF x \in DOMAIN f THEN f[x] ELSE g[x]]

HasRow(s) == {p \in Players : stats[s][p] # NoRow}

Expired(r) == runs[r].created_at < now - Lifetime

IsOpen(r) == runs[r].status = "previewed"

Stale == {r \in Runs : IsOpen(r) /\ Expired(r)}

\* A slip: the pending rows stay with the closed upload.
ClosedWithRows(r, status) == [runs[r] EXCEPT !.status = status]

ClosedAs(r, status) == [runs[r] EXCEPT !.status = status, !.payload = {}]

\* The uploads in R are closed.
Closing(R, status) == [r \in Runs |-> IF r \in R THEN ClosedAs(r, status) ELSE runs[r]]

-----------------------------------------------------------------------------
(* Who waits for whom *)

SameSeason(v, w) == job[v].season = job[w].season

\* Who has one of the uploads R locked, and who one of the players' rows.
RunBlockers(w, R) == {v \in Workers \ {w} : job[v].held \intersect R # {}}
RowBlockers(w, P) == {v \in Workers \ {w} : SameSeason(v, w) /\ DOMAIN job[v].draft \intersect P # {}}

New(w) == (runs[job[w].run].payload \intersect job[w].alive) \ job[w].existing

Blockers(w) ==
  CASE job[w].pc \in {"asked", "failing"} -> RunBlockers(w, {job[w].run})
    [] job[w].pc \in {"expiring", "closing"} -> RunBlockers(w, job[w].scan)
    [] job[w].pc \in {"reading", "deleting"} -> RowBlockers(w, job[w].scan)
    [] job[w].pc = "loaded" -> RowBlockers(w, New(w))
    [] OTHER -> {}

\* A slip: nobody looks for deadlocks.
NeverInDeadlock(w) == FALSE

InDeadlock(w) ==
  \E n \in 1..Cardinality(Workers) : \E f \in [1..n -> Workers] :
    /\ f[1] = w
    /\ \A i \in 1..(n - 1) : f[i + 1] \in Blockers(f[i])
    /\ w \in Blockers(f[n])

-----------------------------------------------------------------------------
(* Uploading *)

\* expire_stale_previews, the first statement of every page and upload.
OpenPage(w) ==
  /\ At(w, "idle")
  /\ job' = [job EXCEPT ![w] = [Idle EXCEPT !.pc = "expiring", !.scan = Stale]]
  /\ UNCHANGED <<now, runs, stats, gone>>

BeginUpload(w, user, source, s, matched) ==
  /\ At(w, "idle")
  /\ Cardinality({v \in Workers : job[v].kind = "upload"})
       < Cardinality({r \in Runs : runs[r].status = "absent"})
  /\ job' = [job EXCEPT ![w] = [Idle EXCEPT
       !.pc = "expiring", !.kind = "upload", !.source = source,
       !.user = IF source = "web" THEN user ELSE Nobody,
       !.season = s, !.matched = matched \ gone, !.scan = Stale]]
  /\ UNCHANGED <<now, runs, stats, gone>>

\* What importing the file would do, by the stats as they are now.
Counts(s, inFile) ==
  <<Cardinality(inFile \ HasRow(s)), Cardinality(inFile \intersect HasRow(s)),
    Cardinality(HasRow(s) \ inFile)>>

ExpireStale(w) ==
  /\ At(w, "expiring") /\ RunBlockers(w, job[w].scan) = {}
  /\ LET expiring == job[w].scan \intersect Stale
     IN IF job[w].kind = "page"
        THEN /\ runs' = Closing(expiring, "expired")
             /\ job' = [job EXCEPT ![w] = Idle]
        ELSE /\ job' = [job EXCEPT ![w].pc = "counted", ![w].held = expiring,
                                   ![w].counts = Counts(job[w].season, job[w].matched)]
             /\ UNCHANGED runs
  /\ UNCHANGED <<now, stats, gone>>

\* The preview is recorded.  A command goes on with it at once.
StorePreview(w) ==
  /\ At(w, "counted")
  /\ \E r \in Runs :
       /\ runs[r].status = "absent" /\ \A q \in Runs : q < r => runs[q].status # "absent"
       /\ runs' = [Closing(job[w].held, "expired") EXCEPT ![r] =
            [status |-> "previewed", season |-> job[w].season,
             triggered_by |-> job[w].user, created_at |-> now, payload |-> job[w].matched,
             created |-> job[w].counts[1], updated |-> job[w].counts[2],
             removed |-> job[w].counts[3]]]
       /\ job' = [job EXCEPT ![w] =
            IF job[w].source = "web" THEN Idle
            ELSE [Idle EXCEPT !.pc = "asked", !.source = job[w].source, !.run = r,
                              !.kind = IF job[w].source = "dry_run" THEN "discard" ELSE "confirm"]]
  /\ UNCHANGED <<now, stats, gone>>

-----------------------------------------------------------------------------
(* Confirming and discarding *)

\* The button on a preview's page.
Ask(w, user, kind, r) ==
  /\ At(w, "idle") /\ runs[r].status # "absent"
  /\ job' = [job EXCEPT ![w] = [Idle EXCEPT !.pc = "asked", !.kind = kind, !.user = user, !.run = r]]
  /\ UNCHANGED <<now, runs, stats, gone>>

MayUse(w) ==
  LET run == runs[job[w].run]
  IN /\ job[w].source = "web" => run.triggered_by = job[w].user
     /\ run.status = "previewed"

\* _open_preview says no, or there is nothing to import.
Refuse(w) ==
  /\ At(w, "asked") /\ RunBlockers(w, {job[w].run}) = {}
  /\ \/ ~MayUse(w)
     \/ job[w].kind = "confirm" /\ ~Expired(job[w].run) /\ runs[job[w].run].payload = {}
  /\ job' = [job EXCEPT ![w] = Idle]
  /\ UNCHANGED <<now, runs, stats, gone>>

\* The preview is past its lifetime: it is closed, and that is saved.
OpenTooLate(w) ==
  /\ At(w, "asked") /\ RunBlockers(w, {job[w].run}) = {}
  /\ MayUse(w) /\ Expired(job[w].run)
  /\ runs' = Closing({job[w].run}, "expired")
  /\ job' = [job EXCEPT ![w] = Idle]
  /\ UNCHANGED <<now, stats, gone>>

Discard(w) ==
  /\ At(w, "asked") /\ RunBlockers(w, {job[w].run}) = {}
  /\ MayUse(w) /\ ~Expired(job[w].run) /\ job[w].kind = "discard"
  /\ runs' = Closing({job[w].run}, "discarded")
  /\ job' = [job EXCEPT ![w] = Idle]
  /\ UNCHANGED <<now, stats, gone>>

\* The preview is locked to the end of the request.
OpenPreview(w) ==
  /\ At(w, "asked") /\ RunBlockers(w, {job[w].run}) = {}
  /\ MayUse(w) /\ ~Expired(job[w].run) /\ job[w].kind = "confirm"
  /\ runs[job[w].run].payload # {}
  /\ job' = [job EXCEPT ![w].pc = "opened", ![w].held = {job[w].run},
                        ![w].season = runs[job[w].run].season]
  /\ UNCHANGED <<now, runs, stats, gone>>

FindStats(w) ==
  /\ At(w, "opened")
  /\ job' = [job EXCEPT ![w].pc = "reading", ![w].scan = HasRow(job[w].season),
                        ![w].alive = Players \ gone]
  /\ UNCHANGED <<now, runs, stats, gone>>

\* Rows that were deleted while the statement waited are no longer found.
LockStats(w) ==
  /\ At(w, "reading") /\ RowBlockers(w, job[w].scan) = {}
  /\ LET found == job[w].scan \intersect HasRow(job[w].season)
     IN job' = [job EXCEPT ![w].pc = "loaded", ![w].existing = found,
                           ![w].draft = [p \in found |-> stats[job[w].season][p]]]
  /\ UNCHANGED <<now, runs, stats, gone>>

\* bulk_create and bulk_update.
Write(w) ==
  /\ At(w, "loaded") /\ RowBlockers(w, New(w)) = {}
  /\ New(w) \intersect (HasRow(job[w].season) \union gone) = {}
  /\ LET written == runs[job[w].run].payload \intersect job[w].alive
     IN job' = [job EXCEPT ![w].pc = "written",
                           ![w].draft = Over([p \in written |-> job[w].run], job[w].draft)]
  /\ UNCHANGED <<now, runs, stats, gone>>

\* One of the new rows is there by now, or its player is not: IntegrityError.
WriteFails(w) ==
  /\ At(w, "loaded") /\ RowBlockers(w, New(w)) = {}
  /\ New(w) \intersect (HasRow(job[w].season) \union gone) # {}
  /\ job' = [job EXCEPT ![w].pc = "failing", ![w].held = {}, ![w].draft = << >>]
  /\ UNCHANGED <<now, runs, stats, gone>>

Written(w) == {p \in DOMAIN job[w].draft : job[w].draft[p] = job[w].run}

\* A slip: what was there before is taken for the file's.
FindLeavingSince(w) ==
  /\ At(w, "written")
  /\ job' = [job EXCEPT ![w].pc = "deleting", ![w].scan = HasRow(job[w].season) \ DOMAIN job[w].draft]
  /\ UNCHANGED <<now, runs, stats, gone>>

\* The rows of players who are not in the file: those locked and any since.
FindLeaving(w) ==
  /\ At(w, "written")
  /\ job' = [job EXCEPT ![w].pc = "deleting", ![w].scan = HasRow(job[w].season) \ Written(w)]
  /\ UNCHANGED <<now, runs, stats, gone>>

DeleteLeaving(w) ==
  /\ At(w, "deleting") /\ RowBlockers(w, job[w].scan) = {}
  /\ LET leaving == job[w].scan \intersect HasRow(job[w].season)
     IN job' = [job EXCEPT ![w].pc = "deleted",
                  ![w].draft = Over([p \in leaving |-> NoRow], job[w].draft),
                  ![w].counts = <<Cardinality(Written(w) \ job[w].existing),
                                  Cardinality(Written(w) \intersect job[w].existing),
                                  Cardinality(leaving)>>]
  /\ UNCHANGED <<now, runs, stats, gone>>

\* A slip: the other previews are left open.
FindNoOthers(w) ==
  /\ At(w, "deleted")
  /\ job' = [job EXCEPT ![w].pc = "closing", ![w].scan = {}]
  /\ UNCHANGED <<now, runs, stats, gone>>

\* Older previews of the season counted against stats that are changing.
FindOthers(w) ==
  /\ At(w, "deleted")
  /\ job' = [job EXCEPT ![w].pc = "closing",
       ![w].scan = {r \in Runs \ {job[w].run} : IsOpen(r) /\ runs[r].season = job[w].season}]
  /\ UNCHANGED <<now, runs, stats, gone>>

\* A slip: previews that somebody else has locked are passed over.
CloseOthersSkipLocked(w) ==
  /\ At(w, "closing")
  /\ job' = [job EXCEPT ![w].pc = "done",
        ![w].held = @ \union {r \in job[w].scan : IsOpen(r) /\ RunBlockers(w, {r}) = {}}]
  /\ UNCHANGED <<now, runs, stats, gone>>

CloseOthers(w) ==
  /\ At(w, "closing") /\ RunBlockers(w, job[w].scan) = {}
  /\ job' = [job EXCEPT ![w].pc = "done",
                        ![w].held = @ \union {r \in job[w].scan : IsOpen(r)}]
  /\ UNCHANGED <<now, runs, stats, gone>>

Commit(w) ==
  /\ At(w, "done")
  /\ LET r == job[w].run
     IN /\ runs' = [Closing(job[w].held, "expired") EXCEPT ![r] =
                      [ClosedAs(r, "imported") EXCEPT !.created = job[w].counts[1],
                         !.updated = job[w].counts[2], !.removed = job[w].counts[3]]]
        /\ stats' = [stats EXCEPT ![job[w].season] = Over(job[w].draft, @)]
        /\ job' = [job EXCEPT ![w] = Idle]
  /\ UNCHANGED <<now, gone>>

-----------------------------------------------------------------------------
(* What goes wrong *)

InTransaction == {"opened", "reading", "loaded", "written", "deleting", "deleted", "closing"}

\* Any exception, or the database choosing w as the victim of a deadlock: the
\* savepoint is rolled back and gives its locks back.
Raise(w) ==
  /\ job[w].pc \in InTransaction
  /\ MayFail \/ InDeadlock(w)
  /\ job' = [job EXCEPT ![w].pc = "failing", ![w].held = {}, ![w].draft = << >>]
  /\ UNCHANGED <<now, runs, stats, gone>>

\* The failure is written and raised again.  A page's request rolls it back with
\* everything else; a command has no transaction around it.
RecordFailure(w) ==
  /\ At(w, "failing") /\ RunBlockers(w, {job[w].run}) = {}
  /\ runs' = IF job[w].source = "web" THEN runs ELSE Closing({job[w].run}, "failed")
  /\ job' = [job EXCEPT ![w] = Idle]
  /\ UNCHANGED <<now, stats, gone>>

Crash(w) ==
  /\ MayFail /\ ~At(w, "idle")
  /\ job' = [job EXCEPT ![w] = Idle]
  /\ UNCHANGED <<now, runs, stats, gone>>

\* A player is deleted and his rows with him, once nobody has them locked.
DeletePlayer(p) ==
  /\ MayVanish /\ p \notin gone
  /\ \A w \in Workers : p \notin DOMAIN job[w].draft
  /\ gone' = gone \union {p}
  /\ stats' = [s \in Seasons |-> [stats[s] EXCEPT ![p] = NoRow]]
  /\ UNCHANGED <<now, runs, job>>

Tick ==
  /\ now < LastInstant
  /\ now' = now + 1
  /\ UNCHANGED <<runs, stats, gone, job>>

-----------------------------------------------------------------------------

Init ==
  /\ now = 0
  /\ runs = [r \in Runs |-> NoRun]
  /\ stats = [s \in Seasons |-> [p \in Players |-> IF p \in Stored THEN OldRow ELSE NoRow]]
  /\ gone = {}
  /\ job = [w \in Workers |-> Idle]

Step(w) ==
  \/ ExpireStale(w) \/ StorePreview(w)
  \/ Refuse(w) \/ OpenTooLate(w) \/ Discard(w) \/ OpenPreview(w)
  \/ FindStats(w) \/ LockStats(w) \/ Write(w) \/ WriteFails(w)
  \/ FindLeaving(w) \/ DeleteLeaving(w) \/ FindOthers(w) \/ CloseOthers(w)
  \/ Commit(w) \/ RecordFailure(w)

Request(w) ==
  \/ OpenPage(w)
  \/ \E u \in Users, source \in Sources, s \in Seasons, m \in SUBSET Players :
       BeginUpload(w, u, source, s, m)
  \/ \E u \in Users, kind \in {"confirm", "discard"}, r \in Runs : Ask(w, u, kind, r)

Next ==
  \/ \E w \in Workers : Request(w) \/ Step(w) \/ Raise(w) \/ Crash(w)
  \/ \E p \in Players : DeletePlayer(p)
  \/ Tick

Spec == Init /\ [][Next]_vars

\* The server runs what it accepted, the database grants a row in the order of
\* its queue and ends every deadlock.
Fairness == \A w \in Workers : SF_vars(Step(w)) /\ WF_vars(Raise(w) /\ InDeadlock(w))

-----------------------------------------------------------------------------
(* Properties *)

TypeOK ==
  /\ now \in 0..LastInstant
  /\ runs \in [Runs -> Upload]
  /\ stats \in [Seasons -> [Players -> Runs \union {NoRow, OldRow}]]
  /\ gone \subseteq Players
  /\ \A w \in Workers : job[w].held \subseteq Runs /\ DOMAIN job[w].draft \subseteq Players

\* A preview is used at most once, an upload once closed stays as it was closed,
\* and the stats of a season are always those of one file: "the file is the whole
\* season" (confirm_season_stats).  That holds of confirmations that run at the
\* same time only if the season has rows to wait for from the start and no player
\* is deleted, or else of one request at a time: the first two imports of a season
\* find no rows and nothing to delete, and the rows of both files can stay.
Promise == INSTANCE SeasonStatsPromise WITH
  status <- [r \in Runs |-> runs[r].status],
  season <- [r \in Runs |-> runs[r].season]

PromiseKept == Promise!PromiseSpec

\* Closed uploads hold no pending rows, and of a season's imports only one at a
\* time is between closing the other previews and its commit: in a season without
\* stats nothing else makes two imports wait for each other.
ImportsTakeTurns ==
  /\ \A r \in Runs : runs[r].payload # {} => IsOpen(r)
  /\ \A v, w \in DOMAIN job : v # w /\ At(v, "done") /\ At(w, "done") => ~SameSeason(v, w)

\* The numbers a preview shows are the numbers its import writes.
NumbersHold ==
  \A r \in Runs : IsOpen(r) /\ runs'[r].status = "imported" =>
    /\ runs'[r].created = runs[r].created
    /\ runs'[r].updated = runs[r].updated
    /\ runs'[r].removed = runs[r].removed

\* An import that failed is recorded as failed.
FailuresRecorded ==
  \A w \in Workers : At(w, "failing") /\ RecordFailure(w) =>
    runs'[job[w].run].status = "failed"
=============================================================================
