------------------------------ MODULE Injuries ------------------------------
(***************************************************************************)
(* The injury report (sync_injuries in nba/services.py) and what the pages *)
(* read off it: a feed that lists the players who are hurt right now, and  *)
(* reports that are only ever added.  An update keeps the day's tally      *)
(* locked from before its request to its commit, so updates fetch and      *)
(* store one after the other, but each is stamped before it waits.         *)
(***************************************************************************)
EXTENDS Integers, FiniteSets, Sequences

CONSTANTS
  Workers, Players, Names, Teams,
  NameOf,              \* [Players -> Names], normalised
  Entries,             \* records the feed may show, numbered in its order
  Entry,               \* [Entries -> [id, name, team, group, status]]
  NoId, NoTeam,        \* a record without an ID, or without a team of its own
  Status,              \* statuses reported
  Healthy, DayToDay,   \* HEALTHY_INJURY_STATUSES, DAY_TO_DAY_INJURY_STATUSES
  Recovered,           \* RECOVERED_STATUS
  NoReport,
  LastInstant, MaxReports   \* bounds

InjuryConstants ==
  /\ NameOf \in [Players -> Names] /\ Entries \subseteq Nat
  /\ Recovered \in Healthy /\ Healthy \union DayToDay \subseteq Status
  /\ Healthy \intersect DayToDay = {} /\ NoReport \notin Status
  /\ \A e \in Entries : Entry[e].status \in Status

\* The feed may leave a record's status out, which is stored as "".
BlankStatus(status) == status = ""

BlankIsNeither == ~ \E status \in Healthy \union DayToDay \union {NoReport} : BlankStatus(status)

VARIABLES
  now,
  roll,                \* Player rows: team and whether active
  feed,                \* the records the provider shows
  reports,             \* PlayerInjury rows, in the order of their creation
  update               \* each worker's update

vars == <<now, roll, feed, reports, update>>

Idle == [pc |-> "idle", observed_at |-> 0, read |-> <<>>]

At(w, pc) == update[w].pc = pc

-----------------------------------------------------------------------------
(* Reading the reports *)

Before(r, s) ==
  \/ reports[r].observed_at < reports[s].observed_at
  \/ reports[r].observed_at = reports[s].observed_at /\ r < s

ReportsOf(p) == {r \in DOMAIN reports : reports[r].player = p}

\* The newest report's status: observed last, of those the one created last.
LatestStatus(p) ==
  IF ReportsOf(p) = {} THEN NoReport
  ELSE reports[CHOOSE r \in ReportsOf(p) : \A s \in ReportsOf(p) \ {r} : Before(s, r)].status

\* injury_state
InjuryState(status) ==
  IF BlankStatus(status) \/ status \in Healthy \union {NoReport} THEN "healthy"
  ELSE IF status \in DayToDay THEN "day_to_day" ELSE "injured"

\* A slip: a player nobody has reported on is not asked about.
FilteredReported(state, status) ==
  CASE state = "injured" -> status \notin Healthy \union DayToDay \union {NoReport}
    [] state = "day_to_day" -> status \in DayToDay
    [] state = "healthy" -> status \in Healthy

\* PlayerListView: whether a player passes the list's filter.
Filtered(state, status) ==
  CASE state = "injured" -> status \notin Healthy \union DayToDay \union {NoReport}
    [] state = "day_to_day" -> status \in DayToDay
    [] state = "healthy" -> status \in Healthy \union {NoReport}

-----------------------------------------------------------------------------
(* An update *)

\* parse_injuries: a record without a team of its own is of its group's team.
Parsed(shown) ==
  [e \in shown |-> [id |-> Entry[e].id, name |-> Entry[e].name, status |-> Entry[e].status,
                    team |-> IF Entry[e].team # NoTeam THEN Entry[e].team ELSE Entry[e].group]]

\* _match_players
Candidates(entry) ==
  {p \in Players : roll[p].is_active /\ roll[p].team = entry.team /\ NameOf[p] = entry.name}

\* An ambiguous name is nobody's.
Placed(read) == {e \in DOMAIN read : Cardinality(Candidates(read[e])) = 1}
PlayerOf(entry) == CHOOSE p \in Players : p \in Candidates(entry)

\* Of two entries with one ID the first is stored (get_or_create).
Written(read) ==
  {e \in Placed(read) : read[e].id = NoId \/ \A f \in Placed(read) : f < e => read[f].id # read[e].id}

\* A slip: whoever was not matched has recovered.
MissingUnmatched(p, read) == \A e \in Placed(read) : PlayerOf(read[e]) # p

Missing(p, read) == \A e \in DOMAIN read : read[e].name # NameOf[p]

Report(p, status, id, w) ==
  [player |-> p, status |-> status, id |-> id, observed_at |-> update[w].observed_at]

\* The reports for the entries, in the feed's order.
Reported(w, read) ==
  LET new == Written(read)
      nth == [n \in 1..Cardinality(new) |->
                CHOOSE e \in new : Cardinality({f \in new : f <= e}) = n]
  IN [n \in DOMAIN nth |-> Report(PlayerOf(read[nth[n]]), read[nth[n]].status, read[nth[n]].id, w)]

\* _mark_recovered looks at the reports just written, too.
HurtIn(rows, p) ==
  LET mine == {r \in DOMAIN rows : rows[r].player = p}
      latest == CHOOSE r \in mine : \A s \in mine \ {r} :
                  \/ rows[s].observed_at < rows[r].observed_at
                  \/ rows[s].observed_at = rows[r].observed_at /\ s < r
  IN mine # {} /\ rows[latest].status \notin Healthy

\* A slip: an empty feed is believed.
MarkRecoveredAlways(w, rows, read) ==
  LET back == {p \in Players : HurtIn(rows, p) /\ Missing(p, read)}
  IN {<<p, Report(p, Recovered, NoId, w)>> : p \in back}

\* "An empty feed is far more likely a provider glitch."
MarkRecovered(w, rows, read) ==
  LET back == {p \in Players : /\ HurtIn(rows, p) /\ Missing(p, read)
                               /\ \A e \in Placed(read) : PlayerOf(read[e]) # p}
  IN IF DOMAIN read = {} THEN {} ELSE {<<p, Report(p, Recovered, NoId, w)>> : p \in back}

\* In any order.
WithMarks(rows, marks) ==
  LET order == CHOOSE f \in [1..Cardinality(marks) -> marks] : \A m \in marks : \E n \in DOMAIN f : f[n] = m
  IN rows \o [n \in DOMAIN order |-> order[n][2]]

\* No two updates are stamped alike: the clock counts microseconds.
Begin(w) ==
  /\ At(w, "idle")
  /\ Len(reports) < MaxReports
  /\ now \notin {reports[r].observed_at : r \in DOMAIN reports}
                \union {update[v].observed_at : v \in {v \in Workers : ~At(v, "idle")}}
  /\ update' = [update EXCEPT ![w] = [Idle EXCEPT !.pc = "waiting", !.observed_at = now]]
  /\ UNCHANGED <<now, roll, feed, reports>>

\* The tally is free, and the feed is fetched.
Fetch(w) ==
  /\ At(w, "waiting") /\ \A v \in Workers : ~At(v, "storing")
  /\ update' = [update EXCEPT ![w].pc = "storing", ![w].read = Parsed(feed)]
  /\ UNCHANGED <<now, roll, feed, reports>>

Store(w) ==
  LET rows == reports \o Reported(w, update[w].read)
  IN /\ At(w, "storing")
     /\ reports' = WithMarks(rows, MarkRecovered(w, rows, update[w].read))
     /\ update' = [update EXCEPT ![w] = Idle]
     /\ UNCHANGED <<now, roll, feed>>

\* The request failed, or a worker was killed.
Fail(w) ==
  /\ ~At(w, "idle")
  /\ update' = [update EXCEPT ![w] = Idle]
  /\ UNCHANGED <<now, roll, feed, reports>>

-----------------------------------------------------------------------------
FeedChanges ==
  \E shown \in SUBSET Entries :
    /\ shown # feed /\ feed' = shown
    /\ UNCHANGED <<now, roll, reports, update>>

\* The player import moves a player, or marks him inactive.
ImportPlayer(p, team, active) ==
  /\ roll' = [roll EXCEPT ![p] = [team |-> team, is_active |-> active]]
  /\ roll' # roll
  /\ UNCHANGED <<now, feed, reports, update>>

Tick ==
  /\ now < LastInstant
  /\ now' = now + 1
  /\ UNCHANGED <<roll, feed, reports, update>>

Init ==
  /\ now = 0
  /\ roll \in [Players -> [team : Teams, is_active : {TRUE}]]
  /\ feed \in SUBSET Entries
  /\ reports = <<>>
  /\ update = [w \in Workers |-> Idle]

Next ==
  \/ \E w \in Workers : Begin(w) \/ Fetch(w) \/ Store(w) \/ Fail(w)
  \/ FeedChanges \/ Tick
  \/ \E p \in Players, t \in Teams, a \in BOOLEAN : ImportPlayer(p, t, a)

Spec == Init /\ [][Next]_vars

-----------------------------------------------------------------------------
(* Properties *)

TypeOK ==
  /\ now \in 0..LastInstant /\ feed \subseteq Entries
  /\ roll \in [Players -> [team : Teams, is_active : BOOLEAN]]
  /\ \A r \in DOMAIN reports : /\ reports[r].player \in Players /\ reports[r].status \in Status
                               /\ reports[r].observed_at \in 0..now
  /\ \A w \in Workers : DOMAIN update[w].read \subseteq Entries

Storing(w) == At(w, "storing") /\ reports' # reports

\* Once an update is stored, an active player whom one entry of the feed names,
\* and only he fits it, is as the last such entry says.  "The feed only lists
\* players who are hurt right now": a hurt player it no longer names has
\* recovered, and of everybody else nothing new is said.
FeedIsTold ==
  \A w \in Workers : Storing(w) =>
    \A p \in Players :
      LET read == update[w].read
          mine == {e \in Written(read) : PlayerOf(read[e]) = p}
          named == \E e \in DOMAIN read : read[e].name = NameOf[p]
      IN LatestStatus(p)' =
           IF mine # {} THEN read[CHOOSE e \in mine : \A f \in mine : f <= e].status
           ELSE IF ~named /\ LatestStatus(p) \notin Healthy \union {NoReport} THEN Recovered
           ELSE LatestStatus(p)

\* "Trusting it would declare every injured player healthy at once": only a feed
\* that names somebody, and does not name this player as nothing but hurt, can
\* make him healthy again, whatever other updates do.
NeverHealedUnseen ==
  \A w \in Workers, p \in Players :
    Storing(w) /\ InjuryState(LatestStatus(p)) # "healthy"
               /\ InjuryState(LatestStatus(p)') = "healthy" =>
      LET read == update[w].read
          naming == {e \in DOMAIN read : read[e].name = NameOf[p]}
      IN /\ DOMAIN read # {}
         /\ naming # {} => \E e \in naming : InjuryState(read[e].status) = "healthy"

\* Three pieces of code tell how hurt a player is: his page, the list's filter
\* and an update that looks for players who have recovered.  They say the same of
\* every player but one: whose newest report has no status is healthy on his page,
\* injured to the list's filter, and hurt to an update.
PagesAgree ==
  \A p \in Players :
    LET status == LatestStatus(p)
        blank == BlankStatus(status)
    IN /\ \A state \in {"healthy", "day_to_day", "injured"} :
            Filtered(state, status) <=>
              state = IF blank THEN "injured" ELSE InjuryState(status)
       /\ HurtIn(reports, p) <=> InjuryState(status) # "healthy" \/ blank
=============================================================================
