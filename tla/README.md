# Pengi Fantasy Manager: specification and proofs

Pengi is a Django site for playing a basketball fantasy game: an administrator
sets up a season, imports players and salaries, and every user builds rosters,
buys, releases and trades players, and is handed free trades over the season.
It runs as several web workers and a Django-Q queue on one PostgreSQL database.

These modules state what the parts of the site promise, TLC checks the promises
on small instances, and TLAPS proves the most important ones for any number of
workers, players, accounts and grants.  Paths below are relative to `src/apps/` unless
they start with `src/`.

## What everything runs on

- `ATOMIC_REQUESTS` is on (`src/config/settings/base.py:77`): **one request is
  one database transaction**, committed when the view returns and rolled back
  when it raises.  A service's own `@transaction.atomic` is a savepoint inside
  it.  Only the import view opts out (`nba/views.py:661`).
- PostgreSQL reads at READ COMMITTED: each query sees what is committed when it
  starts.  Nothing is protected but what is locked with `select_for_update` or
  by a constraint, and **a row lock is held to the end of the request**.
- Django-Q runs two workers, kills a task after 300 s, hands a task out again
  after 360 s, three times at most.

## Inventory

| Component | State it keeps | Operations | Who it meets | What is hard |
|---|---|---|---|---|
| Season calendar (`fantasy/models.py:108`) | dates of the season, signing window, trade market, weekly grants; one-off grants | permissions at an instant, schedule of grants, validation | read by every move | boundaries; windows that close while a request waits |
| Roster write layer (`fantasy/services.py:39`) | `Roster.cash`, `trades_available`; spells; transactions | `buy`, `sell`, `trade`, `buy_trade`, `sell_trade`, payout of due grants | locks the roster row; reads salaries and the calendar | lost updates, double payouts, three records that must agree |
| Roster requests (`fantasy/views.py:517`) | none of their own; prices and rosters read before the lock | every roster page and button | write layer | what is read before the lock is stale after it |
| Roster history (`fantasy/views.py:737`) | none | running balance, `reconciles` | transactions | it shows any drift to the user |
| Season administration (`fantasy/forms.py:176`, `fantasy/views.py:152`) | seasons, `is_current`, one-off grants | save, hand over, delete, add and remove grants | calendar | two statements between which no season is current; keys that change |
| Managers and profiles (`fantasy/services.py:452`) | `Manager` | first profile, rename, delete | rosters cascade | delete races with a new roster |
| Watchlist (`fantasy/services.py:607`) | one stance per user and player | set, clear | roster pages | double submits |
| Snapshots and the mirror (`fantasy/services.py:374`) | snapshots; a player's current team, salary, points | record, sync | imports write, rosters read | two imports overlap |
| basketball.de import (`nba/importer.py`) | `ImportRun`, players, snapshots | guard, apply all or nothing, inactivate the missing, dream team | page, queue | two runs pass the guard; timeouts and retries |
| Injuries (`nba/services.py`) | `PlayerInjury`, day's tally | fetch, match, store, mark recovered | API quota | a rolled back reservation |
| API quota (`nba/quota.py`) | monthly count as last reported, daily tallies | record, low, reserve | injuries, news, schedule | shared limits |
| RotoWire news (`nba/rotowire.py`) | `PlayerNews`, players' RotoWire IDs | pull, match, relink | queue | items before players, IDs shared |
| NBA schedule (`nba/schedule.py`) | `Game` | load a season, drop games | queue | half a load |
| Season stats (`nba/season_stats.py`) | previews with pending rows, stats | preview, confirm, discard, expire | page | confirm twice, deadlock, failure that forgets itself |
| Accounts (`accounts/services.py`) | users, roles, invitations | invite, activate, change role | everyone | the last administrator |
| Dream Team (`analytics/dream_team.py`) | stored results | refresh, solve, check | end of an import | two refreshes of one moment |
| Timeline, latest changes (`fantasy/timeline.py`, `latest.py`) | none | lanes of who held which spot; what the last import changed | history, snapshots | spells that touch, trades on the draft date |
| Outlook, rest of season (`nba/salary_outlook.py`, `rest_of_season.py`) | none kept | expected salary, its prediction, games left | snapshots, schedule, injuries | each figure is worked out twice, in Python and in SQL |
| Player and team pages, watchlist, notes (`nba/views.py`) | notes, marks | toggles, notes, figures, boxes | everything | what a page offers and what the service allows |
| Core views, commands, templates | none | pages, dialogs | everything | nothing concurrent |

What makes each component correct, in a sentence:

- *Calendar*: signing and trading never overlap; a grant has one key for life.
- *Write layer*: cash, squad, trade count and history are four views of the same
  events; no limit is passed; no grant is paid twice and each is paid in the end.
- *Requests*: a move is decided on what is true under the lock; a release
  refunds exactly what the player cost.
- *Season administration*: at most one current season, and one again after a
  handover; changing dates pays nothing twice.
- *Profiles*: a profile with rosters is never deleted.
- *Mirror*: a player shows a salary that was reported, and the newest one when
  imports do not overlap.
- *Import*: a run applies completely or not at all, and its record says which.
- *Quota*: no more requests a day than the limit, and every request counted.
- *Season stats*: a preview is used at most once and its record says what became
  of it; the stats of a season are those of one file.
- *Accounts*: there is always an active administrator.
- *Schedule*: a load is stored as a whole and removes no game still listed.
- *Injuries*: a player is what the newest feed says, and nobody is healed by a feed
  that says nothing.
- *News*: an item with a number links to the one player who has it; a link is
  never lost.
- *Pages*: what a page offers is accepted, the reasons it gives are true, and a
  figure worked out twice comes out the same.
- *Dream Team*: the picks stored are those of one solution within the budget.

`PROJECT.json` lists the hazards behind these sentences at the lines where they
bite, with the properties that cover them.

## The modules

    SeasonCalendar      RunningTotal
             \             /
              RosterLedger
                   |
                 Roster
                   |
               RosterPage --- RosterProofs

    PlayerImport --- PlayerImportProofs      SeasonStatsPromise --- SeasonStats
    Accounts --- AccountsProofs              SeasonStats + SeasonStatsFile --- SeasonStatsProofs
    Ownership, PayAll, Marks --- AccountsProofs
    RapidApi --- RapidApiProofs              GameSchedule --- RestOfSeason --- GameScheduleProofs
    News --- NewsProofs                      DreamTeam --- DreamTeamProofs
    Injuries --- NewsProofs                  Outlook --- GameScheduleProofs
    Timeline --- RosterProofs

    MCRoster      Roster
    MCImport      PlayerImport
    MCSeasonStats SeasonStats, SeasonStatsFile
    MCAccounts    Accounts
    MCFeeds       News; RapidApi, GameSchedule, Injuries
    MCPages       Roster; RosterPage, Outlook, RestOfSeason, Timeline, DreamTeam,
                  Ownership, Marks
    MCLive        instances of PlayerImport, SeasonStats, Accounts, RapidApi, News, PayAll

The lines above the last block are EXTENDS, but for `SeasonStats`, which
instantiates its promise, and the modules that a proof module has beside its first
(`Ownership`, `PayAll`, `Marks`, `Injuries`, `Outlook`, `Timeline`), which it
instantiates.  An MC module extends the component a theorem is linked to
(those before the semicolon) and instantiates others, or the same one with other
constants, under several *settings*: the first state chooses one, and the whole
behaviour is of that one.  The setting of an extended component has the constants
of the cfg.

### The roster

**SeasonCalendar** translates `Season.transactions_allowed`, `trading_allowed`,
`trade_market_open`, `clean` and `trade_grant_schedule`.  Instants are natural
numbers.  `SeasonIsClean`, an assumption TLC evaluates, is what `Season.clean`
demands before a form saves a season.  A weekly grant's key is its local date in
the code; weekly moments are a week apart, so the moment itself is the key here,
and the stepping in local time across a clock change is left out.

**RunningTotal** is the loop of the history page as a recursive function.

**RosterLedger** is the abstract specification: what the write layer promises
about one roster, with no workers, locks, prices or dates.  Each step appends the
rows of payouts never made before, then at most one move whose row states its
whole effect on cash, squad and trades.  The properties of the ledger
(`CashReconciles`, `TradesReconcile`, `SquadReconciles`, `GrantsPaidOnce`,
`WithinLimits`) are stated here because they follow from it alone.

**Roster** is the program.  A worker serves one request at a time:

| `pc` | where the request is | next |
|---|---|---|
| `idle` | between requests | `Begin`: `get_roster` fetches the row (`views.py:529`) |
| `fetched` | has the roster as it was | `CheckGrants`: `pay_due_trade_grants` compares schedule and paid keys (`services.py:108`), no lock |
| `paying` | something was unpaid | `PayOnAccess`: lock, look again, write the payouts (`services.py:123`) |
| `open` | the view itself | `Quote`: read prices and the clock; or `Leave`: nothing to do, commit |
| `quoted` | calling the service | `Buy`, `Sell`, `Trade`, `BuyTrade`, `SellTrade` or `Refuse`: `_lock` with its payout, checks, writes, commit |

`Crash` ends a request at any point and rolls it back.  `Reprice` is an import
changing a salary, `AddGrant` and `RemoveGrant` the administrator's dialog
(`views.py:180`), `Tick` time.  `lock` is the row lock, `paid[w]` what worker `w`
has written and not committed, `seen[w]` the trade count of the roster it
fetched, `at[w]` the clock as it last read it.

How the steps were cut:

- The service call is one step.  It holds the lock from its first query to the
  end of the request, so nobody else can change the roster, read uncommitted rows
  or write between its lines, and what it reads of other tables (the calendar)
  it reads once.  Its readings of the clock under the lock are one instant.
- What a view reads before the service call is one step per view (`Quote`); it
  reads a player's salary and, for a release, the history.  `occurred_at` is the
  clock at this point, before the wait for the lock, as in the code.
- A refusal keeps what the request paid while it fetched the roster and drops
  what it paid under the service's lock, because the service is a savepoint.
- The clock moves on at every reading that stamps a move, so no two moves share
  an instant; the code's stamps are microseconds.
- Payouts of equal date come in any order (the code sorts them by key).
- Nothing relies on a database constraint: that cash is never negative, that a
  grant key is unique per roster and that a spell is unique are shown of the
  code without them.
- After a move the views render the roster again.  That reads only.  The player
  page pays every roster of the account, see `PayAll`.

**MCRoster** names the model values and the symmetry (workers and players are
interchangeable: no operator chooses among them).

**RosterPage** extends `Roster` by what its pages decide for themselves: the
"Sign", "Release" and trade buttons of the build page and of the box on a
player's page, the trade dialog with its cash, its warnings and its Execute
button, and the reasons a closed market or period gives.  The templates are
translated with the views (`player_picker.html`, `roster_panel.html`,
`trade_body.html`).  A page is rendered in the request that fetched the roster,
so after its due grants were paid.  `OffersAreKept` says that what is offered to
somebody who presses at once is not refused by `Roster`'s service, and what is
not offered would be, with the two exceptions the code has by name: `SignInVain`,
a player for a full squad that is short of a position, and a trade whose players
do not both have a price (`HasPrices`); `DialogIsOfOnePiece` that the dialog's figures, warnings
and button agree; `ReasonsAreTrue` that the sentence shown is the case.

**PayAll** is several rosters of one account.  A request may hold the roster it
has signed a player into while it pays the others, in the order of their names;
`Deadlocked` is PostgreSQL ending a circle.

**Ownership** is profiles, rosters and seasons with their dialogs
(`fantasy/forms.py`, `fantasy/views.py`, `ensure_manager`).  Every dialog looks
in one step and writes in another, `Leave` is the commit with the deferred
foreign keys, and what would be an uncaught `IntegrityError` is an outcome of its
own.  `AloneNeverFails` speaks of requests that met nobody; the action properties
(`RostersSurvive`, `CurrentHandedOver`, `LastTickWins`, `NicknamesTold`) of any
two that overlap.  `known` in a request that deletes a profile is what was there
when it looked; only `RostersSurvive` reads it, which says that no such roster goes.

**Marks** is the star and kick toggles and the private notes on a player, with two
tabs of one account and another account: `get_or_create`'s find, insert and find
again, an edit form that stays open, deletion.  **Timeline** is the chart of a
roster: spells and trades as the write layer leaves them, the lanes they are
drawn in and the points counted for each.

### Imports and what is read off them

**PlayerImport** is `import_bbde` with any number of importers: web workers,
queue workers and shells, each with its own transaction.

| `job[i].stage` | where the importer is | next |
|---|---|---|
| `idle` | no import | `Start`: the guard finds no fresh running run (`importer.py:94`) |
| `cleared` | past the guard | `CreateRun`: the run is recorded (`importer.py:99`), visible to all |
| `fetching` | reads the list | `FetchFails` (`_fail`), or `Load`: the transaction opens and loads every player |
| `writing` | the rows of the list, one at a time | `Record`: create or update the player, store the snapshot, read the newest one; after the last row `Apply` |
| `saving` | the newest salary differs from the row as loaded | `Save` (`services.py:409`), which waits for the row |
| `applied` | committed or, a dry run, rolled back | `Finish`: the run succeeded |

`Abort` is any exception while writing, `Crash` a worker killed anywhere.
`own`, `draft` and `rowlock` are what a transaction has written and not
committed: its snapshots, its version of the players it has updated, and the
locks that go with those.  A player the import reads is the row *as loaded at the
start* (`loaded`), as in the code; the snapshots it reads are the committed ones
and its own.  `Apply` is one step because `_inactivate_missing` ends in a single
UPDATE, which waits for the rows it finds, and the commit follows.  The Dream
Team between `Apply` and `Finish` changes nothing here and cannot fail the run.

Left out: namesakes (`Unplaced` stands for a row skipped for an unknown team or
an ambiguous name), rows without a basketball.de ID, the numbers of the summary
other than those properties speak of, and a shared lock that a snapshot's foreign
key takes on the player: without it importers wait less, so the model has every
interleaving the database has, and more.  A row the parser rejects counts as
absent: it is not in `run.rows` either.

**DreamTeam** is the refresh after an import and on command, on several servers:
the draft prices and the points are read in two queries, the solver is external
and hands back the best team, none, or one that a rounding error has made
illegal, which the code checks; storing is `update_or_create` with its lock, then
the picks; removing a team that no longer holds is outside that transaction.

**Outlook** is the expected salary (a polynomial with Python's and SQL's rounding
by scaled integers), the premium and the salary at the next Sunday update, the
same prediction rebuilt for an earlier week, what changed since the snapshot
before, and the hotness.  Each has a Python and an SQL definition here as in the
code, and the properties say where they agree and where not: the lists have a
premium also for a player whose salary cannot be predicted.  **RestOfSeason**
extends `GameSchedule` by the games a player has left and his expected points,
again twice.  Each side reads the report and the schedule as its code does: a
report with a blank status is healthy on the page (`InjuryState`) and keeps its
return date in the lists (`ExpectedReturnDate`); without a game of his team a
player has no figures on the page and misses 0 games in the lists.  `RestAgrees`
states the lists' figures in terms of the page's, these two cases included.

### What is fed from outside

**RapidApi** is the daily tallies (`NbaApiUsage`), the monthly count that
responses report (`nba/quota.py`) and the three features that make requests.  A
reservation is read, inserted or locked and raised (`CheckReserve`,
`ReserveCall`); `Send` is the request, which is answered, refused or lost;
`Record` keeps the count; `Store` and `Fail` end it.  The injuries do all of this
in the transaction that stores them, so that their locks last and their
reservation is undone when they fail (`RollsBack`); `undone` counts the requests
that were made and whose place in the tally was given back so.  The schedule and
the news commit each step by itself.  `OthersCall` is another server on the same key.

**GameSchedule** loads a season in stretches of days (`FetchRange`) while the
feed changes, and stores it as a whole: matching teams, updating, and dropping
games still to come that the feed no longer lists.  **News** is a pull of the
newest items, the matcher by number, name and team with its memory of numbers,
the links tried again, links set by hand, and the log of what may have been
missed.  What a pull has written and not committed keeps others waiting
(`Blockers`), also in a circle (`InDeadlock`).  **Injuries** is an update with its
matching and its recoveries, and the three ways in which a report's status is
read: by a player's page, by the list's filter and by the update that looks for
players who have recovered.  A status may be blank, and `PagesAgree` says what each
of them makes of it.

### Season stats

**SeasonStatsPromise** is the abstract specification: an upload is offered, then
used once or closed; using it replaces the stats of its season, all of them, by
the rows of that one file.  **SeasonStats** is the program: the uploads with every
lock that `confirm_season_stats` takes, in its order.

| `pc` | where the request is |
|---|---|
| `expiring`, `counted` | `expire_stale_previews`, then the preview's counts; `StorePreview` |
| `asked` | `_open_preview` waits for the upload's row; refused, expired, discarded or `opened` |
| `opened`, `reading`, `loaded` | `_write` finds the season's rows, locks them, then creates and updates |
| `written`, `deleting` | finds and deletes the rows of players not in the file |
| `deleted`, `closing`, `done` | finds and closes the season's other previews; commit |
| `failing` | the savepoint is rolled back; the failure is recorded, and on the web rolled back too |

A statement that waits is two steps: it finds its rows, and it goes on, looking at
each of them again, once nobody else has one locked.  `PromiseKept` is the
refinement: `INSTANCE SeasonStatsPromise` with the uploads' status and season.
**SeasonStatsFile** reads a file and finds the player of each line: problems, key,
alias, namesakes, two lines for one player, and the points of a line, which the
site and migration 0015 both compute.

### Accounts

**Accounts** is role changes with the locks `change_role` takes one after the
other, invitations, acceptances, resets, passwords, sign-ins, one's own details
and the admin site's pages of users.  A request reads its rows in one step and
writes in another.  A token is what it hashes: the account's password, last
sign-in and address at the time, so that it stops working when one of them
changes.

## The runs

Twelve runs, nine of which pass.  Several modules share a run where nothing but a
setting separates them, so that each run asks one question.

| Run | Instance | Shows |
|---|---|---|
| `RosterConcurrent` | two workers, two players, one place, cash for one and a half, one grant, every move but `buy_trade` permitted at all times | the whole ledger: `TypeOK`, `CashReconciles`, `TradesReconcile`, `SquadReconciles`, `GrantsPaidOnce`, `WithinLimits`, and `LedgerSpec` as a refinement |
| `RosterSeason` | two workers, signings 0..2, season 3..4, market 3..4, a grant every instant from 3 | `FrozenInSize`: nobody is signed or released outside the signing window, also not by a request that waited for the lock; `CountIsCurrent`: a trade is decided on a count that has every grant due |
| `RosterLive` | two workers, one player, one grant, fair scheduling | `GrantsArrive`: every grant that falls due is paid in the end |
| `RosterRefundRace` | two workers, one player, two salaries | `RefundsExact` is **violated** |
| `Imports` | two importers, two players, two salaries, two runs that may overlap | `RecordsTellTheTruth` and `MirrorReported` while imports overlap, fail, are killed or dry; `NewestUnlessOverlapping`: the price shown is the newest, in every behaviour without an overlap; no deadlock |
| `Uploads` | `confirm`: two workers, three uploads; `vanish`: failures and deleted players; `life`: web, command and dry runs over two instants; `file`: every file of up to three of eight lines | `ImportsTakeTurns` and `PromiseKept` (refinement) in `confirm`, where the season has rows from the start and no player is deleted; `AloneNumbersHold`: the preview's numbers, when requests do not overlap; `LinesLandRight`, `PointsAgree` of a file |
| `AccountsSafe` | `demotions`: three administrators, three workers; `alone`: every request, one at a time; `invitations`: without the admin site, links expire | `AlwaysAnAdmin` of demotions; `AloneRightsAreGranted` and `AloneNeverReplaces` (what `RightsAreGranted` and `NeverReplacesPassword` say) when requests do not overlap; `AloneOneAccount` (`OneAccountPerAddress`) without the admin site |
| `AccountsStale` | an administrator and a team member, two workers | `AdminRemains` is **violated** |
| `Feeds` | `limits`, `month` (RapidApi), `whole`, `together` (GameSchedule), `pulls`, `by_hand` (News), `hurt` (Injuries) | `LimitsKept` in `limits`, where updates and loads fail and are killed at any point; `StopsAtTheReserve`; `LoadsAreTrue` (`LoadedWhole`; `KeepsListed` in `together`, whose feed adds and drops games but moves none); `LinksHold`, `MissedIsLogged`, `FeedIsTold`, `NeverHealedUnseen`, `TwinsAgree` |
| `Live` | `imports`, `uploads`, `admins`, `api`, `pulls` (two at a time, beside an administrator who fills in a number), `rosters`, under fairness | `RequestsEnd`, `NotBlockedForEver`, `LinkedInTheEnd`; beside them `TypeOK` and `TakeTurns` |
| `StatsForgotten` | one upload that raises | `EveryFailureRecorded` is **violated** |
| `Pages` | `refund`, `page`, `outlook`, `rest`, `timeline`, `dream`, `profiles`, `seasons`, `marks` | `RefundsExact` with one request at a time, `PagesAgree`, `TimelineHolds`, `DreamTeamsHold`, `OwnershipHolds` |

The properties of an MC module are conjunctions over its settings; the comment at
each names what it says of which module.  *Slips* in the modules are plausible
mistakes (`NeverInDeadlock`, `FindNoOthers`, ...): each stands before the
definition it would replace, is used by no specification, and breaks the property
it is there for.

**Bounds.** `LastInstant` ends time and new moves (a request already begun may
still read the clock, so the clock passes it by at most the number of workers).
Two workers are enough for each race the code can have about one row: a third one
only waits for the same lock.  Where requests can wait in a circle of three, three
are taken (`AccountsSafe`, `Live`).  One place and cash for one and a half players
make both limits bite, and two players are what a trade needs.  In `RosterSeason`
every boundary of the calendar (window closed, gap, season begun, season over)
lies within the five instants, and a request can wait across each of them; the
setting `page` has the same boundaries with an owner looking at each instant.

For imports `MaxRuns` bounds the runs recorded; two are enough for every race; that
later runs do not undo what holds of two is what the theorems below add.  Two players are the least at which a half-read list differs from an empty
one and rows are written in order.  `RunningTimeout` is one or two instants, so
that a run outlives it within each instance; time goes on until every run has.

Three uploads are two that race and one that waits; two seasons keep the rows of
another season apart, and are left out where they change nothing (`Bounded`).
Eight lines hold every kind the reader tells apart (a blank one, no name, an
unknown name, two for one player, namesakes on two teams, an alias, rounding,
nonsense figures).  Limits of one and two requests a day over two days, and a
month that ends between them, meet every boundary of the tallies.  Two games on
three teams, loads of two stretches and up to four changes of the feed let a game
move between the stretches of one load.  Four items through a window of two let
one be missed.  In `outlook` three imports in two seasons that overlap reach each
branch of the outlook.  `MaxStamp` and `MaxLinks` bound the passwords and links
given out: an invitation, its replacement and a reset.

Each bound was raised until the mutants of the properties, among them each race
described below, showed within it and the states still fit into minutes.

Workers and players are declared symmetric only where no operator chooses among
them, and never in a run with a liveness property.  `CHECK_DEADLOCK FALSE` is
there because a bounded clock, number of runs or number of requests ends the
runs; `RosterLive`, where pages can always be opened, and `Imports` are checked
for deadlock.  Circles of locks are in the models, with the database breaking
them (`InDeadlock`, `Deadlocked`), and are what `RequestsEnd` is about.

**Fairness.** In `RosterLive` (`Roster!Fairness`): strong fairness of opening the
page, of the steps of a request and of its service call, per worker.  The server
runs what it accepted, PostgreSQL grants a row lock in the order of the queue, and
the owner keeps looking; that is why a step that is possible again and again is
taken.  Crashes are not limited, but a worker cannot be killed at the same line
each time for ever.  A grant arrives only when someone looks: the code pays
lazily, and says so (`services.py:100`).

In `Live`, for each worker: strong fairness of going on with the request it
serves (`GoOn`), for the same reasons; weak fairness of an importer starting, as
the daily schedule starts it, of time going on until runs are out of date, and
of the database ending a deadlock (`deadlock_timeout`).  Nothing is assumed of an
import once begun; it may hang for ever.  Nothing is assumed of users, of
crashes, or of what a feed shows.  A pull is the whole of `News!Pull`, as the
queue repeats it.  `LinkedInTheEnd` needs two pulls that overlap or a number filled
in by hand: a pull that runs alone links in its commit whatever it could.

## What was found

**`RosterRefundRace`**: `RosterSellView` looks up the refund before
`services.sell` takes the lock (`fantasy/views.py:1176`).  One worker holds a
release priced 1.  The other one releases the same player and, in its next
request, signs him again at the new salary 2; then the first release goes through
and refunds 1 for an arrival that cost 2.  The docstring promises that "removing
them refunds exactly" (`services.py:591`).  The ledger still reconciles, because
the row records what was paid; only the refund is not the cost.  Looking the
amount up under the lock would remove it.

**`AccountsStale`**: `change_role` locks and counts the administrators only if the
person *was read* as one, and the view reads the person before any lock
(`accounts/services.py:60`).  A team member about to be made a coach is made an
administrator by another request and demotes the only other one; then the pending
request, which saw a team member, makes a coach of the last administrator.  The
docstring promises that "the team page always has someone who can change roles".

**`StatsForgotten`**: `confirm_season_stats` records `FAILED` and raises again
(`nba/season_stats.py:448`); on the web that record is rolled back with the
request, and the preview stays open.  The test of the record
(`src/tests/test_season_stats_import.py:222`) calls the service without a request
around it.  The command has no transaction around it and keeps the record.

### Also seen in the models

Disagreements that were met on the way and have no run of their own.  Each is a
behaviour of the model as it stands, and each property above is stated so that it
says what holds beside it.

- *Imports.*  Two started together both pass the guard (`nba/importer.py:94`,
  `:99`), although `nba/views.py:659` counts on a "one-import-at-a-time check".
  Of two that overlap, the newer may find its salary equal to the row it loaded
  and save nothing (`fantasy/services.py:404`), so that the player keeps the older
  one's.  A row of an unknown team is skipped before its player is looked up
  (`importer.py:216`) and he is marked inactive.  `fantasy/latest.py:4` takes the
  two newest snapshots for the newest two imports, which is not so for a player
  who was missing from one.
- *Uploads.*  The first import of a season has no rows to lock, which is why
  `PromiseKept` is of seasons that have some.  A file uploaded
  after it has looked for the other previews (`season_stats.py:545`), and confirmed
  before it commits, deletes nothing of it: both files stay in the season.  A
  preview's numbers may be out of date when imports overlap (`:380`).  When every
  player of the payload was deleted after the preview, the import writes nothing
  and deletes the season's other rows (`:438`, whose comment says that an import
  of nothing is refused).
- *Accounts.*  The details form saves the whole row as it was read
  (`accounts/forms.py:77`), a role change that was committed meanwhile included;
  a link can be used twice by two requests at once (`accounts/views.py:260`);
  addresses that differ in case can be taken at once (`accounts/forms.py:49`).
- *RapidAPI.*  A failed update of the injuries takes its reservation back after the
  request was made (`nba/services.py:343`), although `fetch_injuries` is "consuming
  one daily slot" (`:107`), so a day can see more than its limit: one request for
  each such failure, which is what `LimitsKept` says.
  Counts that arrive out of order overwrite newer ones (`quota.py:32`), and
  `--force` goes past the reserve (`schedule.py:141`).
- *Feeds.*  A feed that changes during a load can be stored half old and half new
  (`schedule.py:284`); a game whose team is unknown is dropped (`:312`).  Two
  overlapping pulls of the news can give one player two numbers.  Overlapping
  updates of the injuries let an older feed win, and a hurt namesake keeps another
  player hurt.
- *A report with a blank status* is healthy for `injury_state` (`nba/models.py:45`),
  so that a player's page misses no game for him; it is injured to the list's
  filter (`nba/views.py:431`), hurt to the update that looks for recoveries
  (`nba/services.py:326`), and keeps its return date in `with_expected_return`
  (`nba/views.py:192`), "the database twin of `Player.expected_return`", so that
  the lists take the games until then off him (`rest_of_season.py:40`).
- *Figures.*  `with_rest_of_season` annotates `games_missed` with 0 for a player
  without a team (`rest_of_season.py:100`), where its docstring says "all NULL
  without a schedule, a team" (`:78`).  The lists sort by a `pick_premium`
  (`salary_outlook.py:222`) that a player's page does not show when no salary can be
  predicted.  The projected points of the rest of a season round a tie differently
  in Python and in SQL (`src/tests/test_rest_of_season.py:196` compares them).
- *Dream Team.*  A team that no longer holds is removed outside the transaction
  that stores one, so a refresh at the same time may leave a stale one; the page
  reads the team and its picks in two queries.
- *Timeline.*  `occurred_at` and `added_at` are stamped before the lock
  (`fantasy/services.py:205`, `:243`), so two overlapping requests can need a lane
  more than the roster has places.
- *Ownership.*  A roster that is begun after `views.py:500` has looked is deleted
  with its profile.  Renaming a roster to a taken name is an uncaught
  `IntegrityError` (`views.py:1533`; compare `:658`).  Saving a season that has
  been deleted meanwhile inserts it again (`views.py:266`: "gone for good").
  Administrators who tick two seasons at once meet the unique constraint, and
  the deletion of a season that a roster just entered fails at commit, without
  the sentence of `views.py:282`.  A refused first roster can leave the profile
  made for it.
- *All rosters of an account.*  Two players signed from their pages into two
  rosters at once wait for each other, and one is lost with a server error.
- *Marks.*  A deleted note is inserted again by a pending edit
  (`nba/views.py:1422`, `:1447`); two inserts and a deletion of a mark can end in
  an `IntegrityError`.
- *Roster pages.*  "Only what this trade would newly break" (`services.py:562`)
  compares sentences, so a trade that fills a gap in part is warned about, which
  `_flag_minimum_breaks` (`views.py:1326`) rightly does not flag.  A full roster
  that is short of a position still shows "Sign" buttons (`player_picker.html:142`
  asks `is_complete`) the service refuses.  The trade dialog counts a player
  without a price as 0 and enables Execute, although "the modal can never offer a
  trade the service layer would refuse" (`views.py:1409`).  Some reasons come from
  two readings of the clock (`views.py:1003`, `services.py:293`).  The rules page
  marks the next one-off grant as "Next" also when a weekly one comes sooner
  (`views.py:726`).

## What is proved

Every theorem holds for all values of the constants its hypotheses admit: any
number of workers, players, accounts, rosters' rows, uploads, games or servers.
The assumptions on constants (`CalendarType`, `SeasonIsClean`, `LedgerConstants`,
`RosterConstants`, `ImportConstants`) are ASSUMEd by the modules that declare
them.  Where one run gives a module several sets of values, the assumption is an
operator and a hypothesis of the theorems (`RosterPageConstants`,
`AccountConstants`, `ApiConstants`, `StatsConstants`, `FileConstants`,
`NewsConstants`, `InjuryConstants`, `ScheduleConstants`, `RestConstants`,
`OutlookConstants`, `DreamTeamConstants`, `OwnershipConstants`, `PayAllConstants`,
`MarksConstants`, `TimelineConstants`), and the MC module ASSUMEs it of every
instance.  TLC evaluates all of them.  Some theorems also ask that a set is finite
(`HurtConstants`), or that the value for NULL is not a row (`LookConstants`), which
TLC could not evaluate.

Where a property fails in the code when requests overlap, the theorem says which
requests may not (`OneWorker`, `OneAtATime`, ...).  Such a hypothesis is a
restriction on the constants that the corresponding run meets, and the race that
makes it necessary is told below or under "What was found".

### The roster (`RosterProofs`)

    RosterInvariant          Spec => []RosterInv
    RosterImplementsLedger   Spec => LedgerSpec
    TypeCorrect, RequestsStayInOrder, CashAlwaysReconciles, TradesAlwaysReconcile,
    SquadAlwaysReconciles, NoGrantPaidTwice, NeverBeyondLimits, WindowsNeverOverlap
    SquadStaysFrozen, TradesSellOnlyInMarket, MovesSeeEveryGrant    (action properties)
    ReleasesRefundExactly    OneWorker => (Spec => []RefundsExact)
    ThePagesOfferWhatIsAllowed, TheDialogTellsOneStory, ThePagesGiveTrueReasons

The argument, from below:

1. The running balance meets its recursion (`RunningBalance`), and the total of a
   concatenation is the sum of the totals (`TotalConcat`).  Everything about
   histories rests on that one lemma.  Induction over the naturals is carried by
   sets: a set that holds 0 and the successor of each member has a complement
   without a least element (`SetInduction`, from the library's well-foundedness
   of `<`).
2. A step of the abstract ledger preserves `LedgerInv`, the conjunction of the five
   ledger properties with the types of the ledger's variables.  So whatever
   implements `LedgerSpec` has them (`LedgerInvariant`).
3. No property of the ledger is inductive in the program by itself.  That cash
   reconciles needs that the rows a request has not committed are payouts; that a
   grant is paid once needs that nobody extends the history while another holds
   uncommitted payouts; that the ledger's row is well formed needs that a quoted
   request has both of its prices.  `RequestsInOrder` says all this: payouts are
   held only under the lock, they repeat nothing, an idle worker holds no lock, a
   quoted request is priced.  `RosterInv` is `LedgerInv`, `TypeOK` and
   `RequestsInOrder`; each step of a worker preserves it, and each step of the
   program is shown to be a `LedgerNext` step or to leave the ledger alone, which
   gives both the invariant and the refinement.
4. The action properties, step by step, from `RosterInv`: only a service call writes
   a move, it is the last row (`MoveComesLast`), and a payout is complete
   (`PayoutsAreComplete`).
5. A release refunds its arrival when requests come one at a time.  The invariant
   (`RefundInv`) adds that arrivals follow each other in time, that every member of
   the squad has one, and that a quoted release still has the price of the last
   one.  With two workers the last part breaks: that is `RosterRefundRace`.
6. The pages.  `OffersAreKept` compares two sets of checks at the same moment; it
   needs of the state that a request that asks for more than a look is priced
   (`AsksForMore`), and of a request that has not read its prices that the page
   offered it only where they are there (`ButtonsArePriced`).  That an announced grant is not paid yet needs that a paid
   grant bears the moment it fell due (`PaidWhenDue`), and no row is of the
   future.  The dialog's part is about positions and counts, so it takes
   `RosterPageConstants`.

The chart of a roster comes in the same module (`Chart` is `Timeline`):

    ChartHolds      TimelineConstants => (Chart!Spec => []ChartInv)
    TheLanesHold    TimelineConstants => (Chart!Spec => []Chart!LanesHold)
    NoPointTwice    TimelineConstants /\ TotalsGrow => (Chart!Spec => []Chart!PointsCountedOnce)

The invariant (`ChartInv`) is about every moment, not only the present one: at no
moment were more players on the roster than it has places, of all spells no two
begin at one moment and no two end at one, a player's spells do not touch, and
every trade is told by the spell it ended and the one it began.  Hence the exact
moment always finds both, and the chart never guesses (`LinkFinds`).  The lanes by
induction over the spells (`LanesUpTo`): the last spell on a lane that a trade
ended is the one the trade ended (`LastOnTheLane`); and when a lane is opened, the
last spells of all the others go on, so their players are on the roster at that
moment, and they are as many as there are lanes (`LaneOpens`).  The points of a
spell are a stretch of the numbers up to the player's total, the stretches of one
player are apart, and so the library's sum is the size of their union
(`ThePointsAddUp`).  `TotalsGrow` says of the data that no total falls; with one
that does, `max(0, ...)` (`timeline.py:211`) drops a loss and keeps the gain that
makes up for it.

### The import (`PlayerImportProofs`)

    ImportInvariant            Spec => []ImportInv
    ImportTypeCorrect, RunsTellTheTruth, SalariesAreReported
    ThePriceShownIsTheNewest   Spec => NewestUnlessOverlapping

Neither property of an import is inductive.  That a successful run left one
snapshot for each player it counted needs that nothing of it was visible before
the commit (`Effects`), that what was committed is one snapshot for each row
placed (`WorkInOrder`), that no other importer writes under the same instant
(`Stamps`) or owns the same run (`Owners`).  That a player shows a reported salary
needs, of every importer in a transaction, that the row it has not saved again was
already reported and the one it is about to save is (`Mirrors`), which for a
player who is new rests on his having been stored without a salary (`RowsStay`).
The newest snapshot is the greatest of a bounded set of instants
(`NewestIsReported`); the snapshots are counted by the library's theorem on
surjections (`OneSnapshotEach`).  The guard is not used anywhere: these hold of
imports that overlap as they like.

The newest price needs that they do not.  `NewestUnlessOverlapping` says it of
every behaviour up to its first overlap, through failed, killed and dry runs, so
the theorem needs no hypothesis; `AloneInv` adds that the rows loaded still
stand, that the run's instant is later than every snapshot, and that a row that
was written shows the listed price.

### Season stats (`SeasonStatsProofs`)

    ImportsOfASeasonTakeTurns   Instance => (Spec => []ImportsTakeTurns)
    UploadsMoveOn               Instance => (Spec => [][StatusMovesOn]_vars)
    TheFileIsTheWholeSeason     Instance /\ Undisturbed => (Spec => PromiseKept)
    ThePreviewTellsTheNumbers   Instance /\ Alone => (Spec => [][NumbersHold]_vars)
    NothingIsGuessed            FileConstants => (FileSpec => []LinesLandRight)
    PointsAlwaysAgree           FileConstants => (FileSpec => []PointsAgree)

A request holds open uploads only, its own among them while it imports
(`JobsFit`), no two requests hold the same one, and a command's upload is
nobody's, so that no page can take it.  Of two imports of a season that have both
looked for the other previews, one has seen the other's, whose lock is kept to
its commit (`TakeTurns`): so it waits.  `StatusMovesOn` is the part of the promise
that holds without exception: an upload is used, discarded, expired or failed
once, and only one that has expired meanwhile may still be recorded as failed.

The refinement needs more than turns: what an import commits must be the rows of
its file and no others, so every row it did not lock and delete must have been
there when it looked.  `Undisturbed` is either that the season has rows from the
start and no player is deleted, so that the second import waits for the first
one's rows, or one request at a time.  Without it the promise is broken by the
code: a first import has no rows to lock, and a preview made after it closed the
others and confirmed before it commits leaves two files in one season.

The reading of a file is a function of the file, so its theorems are about the
operators: a line ends up in one list, a match is unique, a renamed player is
found, and both copies of the points formula give the same number.

### Accounts (`AccountsProofs`)

    AnAdminRemains                  Demoting => (Spec => []AlwaysAnAdmin)
    RightsAreOnlyGranted            OneAtATime => (Spec => [][RightsAreGranted]_vars)
    InvitationsOpenNoAccountTwice   OneAtATime => (Spec => [][NeverReplacesPassword]_vars)
    MailboxesAreOwned               OneAtATime /\ NoAdminSite => (Spec => []OneAccountPerAddress)

Demotions lock the active administrators one after the other and go on with those
who still are administrators.  The invariant says that whoever is a superuser can
sign in, so that the query finds everybody who counts (`SuperusersSignIn`); and
that a demotion about to be written has another administrator among the rows it
has locked, who stays one as long as they are locked (`JobsFit`).  From that a
superuser remains (`OneRemains`).  `Demoting` contains `OnlyDemotions`: nobody is
promoted, and no form that saves a whole row as it was read is sent.  With a
promotion the theorem is false, see `AccountsStale`.

The others are false as soon as two requests overlap, because every form saves a
row it read before.  `OneAtATime` is one worker and an account to begin with; the
invariant (`AloneInv`) says that what a request is about to save is the row as it
stands but for what its form is about, that an invitation's token is of an account
without a password, and that addresses are told apart.  The admin site compares
the exact spelling of an address only, hence `NoAdminSite`.

What an account owns comes in the same module, with any number of requests at a
time (`OwnConstants` is `OwnershipConstants` and finitely many seasons):

    AloneADialogAnswers      OwnConstants => (Own!Spec => []AloneNeverFails)
    DialogsDoWhatTheySay     OwnConstants => (Own!Spec => [][Steps]_vars)
    RostersArePaidUnderLock  PayAllConstants => (Paying!Spec => [](TypeOK /\ PaidUnderLock))
    MarksAndNotesAreOnesOwn  MarksConstants => (Marking!Spec => [][MarkSteps]_vars)

*Ownership.*  That a profile's deletion takes no roster it knew needs that no
roster changes its profile and no number is used twice (`TakesNoneItKnew`).  What a dialog finds out (that a nickname is free, that no roster
holds a profile or a season, which seasons it has taken the box from) is stale as
soon as another request commits.  The invariant (`OwnInv`) is about the requests
that met no other: as long as everybody else is idle, what such a request has found
out is so (`FoundOut`, `AloneKnows`), hence none of them ends in an error but the
renaming of a roster, and none gives two nicknames that differ by capitals.  The
rest holds whoever overlaps: at most one season is current, by the constraint at
the commit, from which it follows that a season that stops being current has given
way to another.

*PayAll.*  Locks are disjoint, and what a request has paid and not committed is in
rosters it has locked (`PayInv`); hence what one request sees of a roster is what
all the others will see, and nobody pays a grant twice, whichever requests a
deadlock or a crash ends.

*Marks.*  Who has a note open is its author (`AuthorsEdit`), although other tabs
write it, delete it and, with an edit that waited, bring it back.

### RapidAPI (`RapidApiProofs`)

    TalliesHold            Instance => (Spec => [](made <= DailyLimit, of the schedule and the news))
    NoLimitIsPassed        Instance, no injuries => (Spec => []DailyLimitKept)
    StoredUpdatesAreFew    Updating => (Spec => [](tally of the injuries <= HigherLimit))
    NoUpdateTooMany        Updating => (Spec => []DailyLimitKept /\ [][UsersGetTheLowerLimit]_vars)
    NobodyStopsForNothing  Instance => (Spec => [][NotStoppedForNothing]_vars)
    TheReserveIsHeeded     Instance /\ OneByOne => (Spec => [][StopsOnceReported]_vars)

For the features that reserve in a transaction of their own the invariant
(`Counted`) is that requests made and requests about to be sent are together at
most the tally, and the tally at most the limit.

An update of the injuries reserves in the transaction that stores it.  The row of
the day's tally is locked to the commit, so at most one reservation is not yet
counted (`Reserved`), and no more updates are stored than the limit.  But a failure
undoes the reservation of a request that was made.  So what is *made* a day is
bounded by the limit and the number of those failures: the invariant (`Settled`) is
an account of the day: what was made is in the tally, was given back, or is the one
that a request in progress still answers for.  Nothing is assumed of failures, crashes or what RapidAPI has
left.

The monthly count: every count stored or on its way that is still of this month is
no less than what RapidAPI has left (`Sound`), so a count below the reserve is
always true, though it may be out of date in the other direction.  That a report
is heeded holds for one request at a time without the injuries: reports that
arrive out of order overwrite newer ones, and an update that fails rolls its
report back.

### News and injuries (`NewsProofs`)

    LinksAreNeverLost      NewsConstants => (Spec => [][LinksSurvive]_vars)
    MissedItemsAreLogged   NewsConstants /\ OneAtATime => (Spec => []MissedIsLogged)
    NumbersLinkOnePlayer   NewsConstants /\ OneAtATime /\ ~ByHand => (Spec => []LinksAgree)

`NewsProofs`: a link survives any number of overlapping pulls, since a pull writes
links to items it found unlinked only when it has found a player.  That nothing is
missed in silence rests on the stored items having no gap unless one was logged:
a pull that logs nothing has stored fewer items than its window shows
(`Counted`), so the window overlaps what was there.  That a number links to one
player needs that numbers are unique and that what a pull has in memory is what is
stored and what it has written; two pulls at a time can give one player two
numbers.

    HurtTypeCorrect         HurtConstants => (Hurt!Spec => []Hurt!TypeOK)
    HurtNeverHealedUnseen   HurtConstants => (Hurt!Spec => [][Hurt!NeverHealedUnseen]_vars)
    HurtFeedIsTold          OneAtATime /\ HurtConstants => (Hurt!Spec => [][Hurt!FeedIsTold]_vars)
    HurtPagesAgree          HurtConstants /\ BlankIsNeither => (Hurt!Spec => []Hurt!PagesAgree)

`HurtPagesAgree` takes the newest report twice, as the code does: chosen for the page
and the filter (`LatestStatus`), found among the rows by an update (`HurtIn`).  Both are
of the same row because rows are ordered by their moments and then their places
(`LatestIsStatusIn`).  The status is then read in three ways; that a blank one is in
neither of the code's two sets of words is a hypothesis (`BlankIsNeither`), which
MCFeeds ASSUMEs.

For the injuries the invariant (`HurtInv`) is that no report is stamped after now and
that one update at a time holds the day's tally.  An update appends a row for each
player it tells of and recovers the rest, so what has to be shown is what the newest
row of each player is afterwards: the rows appended are those of `ToldOf` and of the
missing, one per player and all of one moment, and their order does not matter.  That
the feed is told needs updates that do not overlap, because the answer of a slow
update replaces that of a quick one; that nobody is healed unseen does not.

### Schedule and outlook (`GameScheduleProofs`)

    NoListedGameIsDropped   Instance /\ (Still \/ "move" \notin Changes) => (Spec => [][KeepsListed]_vars)
    LoadsAreWhole           Instance /\ Still => (Spec => [][LoadedWhole]_vars)
    TheTeamPagesAgree       ScheduleConstants => (Spec => [](TypeOK /\ FiguresAgree))
    ThePagesAndTheListsAgree  RestConstants => (RestInit /\ [][RestNext]_RestVars => []RestAgrees)

A load that is about to store has got every game that was listed all the while
(`Holds`), because the stretches adjoin (`RangesAdjoin`) and reach the last day
(`TheLastRange`).  A game that moves from a later stretch into an earlier one during a
load is in neither answer, and a game whose team becomes unknown is treated as not
listed; both are left out by the hypotheses of the first two, and the first is told
under "Also seen".

The other two are about what is read off the stored schedule, whatever it is, so that
its types are invariant enough (`LoadTypes`, `RestInv`).  The entry of a team is folded
over the season's games in the order of their tip-offs.  That order has a last member
(`ThereIsALast`), and the last game changes the entry as the code does
(`TheLastCounts`), so by induction over the number of games the fold is what it is
meant to be (`TheEntryOfATeam`): the games that are over, those of the next days, and
the first that is not over.  The points a player has left are then an
integer of the model's unit, and Python and PostgreSQL round an integer apart half
way between two numbers only (`OnlyTiesRoundApart`).

    OutlookHolds            LookConstants => (Look!Spec => []OutlookInv)
    PredictionsAreRebuilt   LookConstants => (Look!Spec => []Look!PredictionsRebuilt)
    TheFiguresAgree         LookConstants => (Look!Spec => []Look!FiguresAgree)
    TheNewsAddsUp           LookConstants => (Look!Spec => []Look!NewsAddsUp)
    TheHotnessIsRight       LookConstants => (Look!Spec => []Look!HotnessIsRight)

The invariant (`OutlookInv`) is that snapshots of one player come in turn, seasons and
moments rising together (`InTurn`), that the columns of a player hold his newest
snapshot (`MirrorIsNewest`), and that every page has said what followed from the
snapshots known then (`PagesSaid`): an operator of the rows up to a snapshot, so that
later imports cannot change it.  A prediction is rebuilt rightly because the baseline
of a past week, found among all rows, is the one found among the rows of that time
(`ThePremiumStays`).  The curve worked out by Horner's scheme and
term by term is the same by induction over its length, the news adds up because each
import's change is a difference of neighbours (the library's sum over a set is shown
to be the sum over time, `TheSumIsASum`), and the hotness by induction over time: the
games kept up to a moment are the games of the definition up to it.

### Dream Team (`DreamTeamProofs`)

    DreamTeamsAreLegal      DreamTeamConstants => (Spec => []StoredTeamsAreLegal)
    ThePageGivesTheReason   DreamTeamConstants /\ GamesGrow => (Spec => []ReasonIsRight)

Whoever replaces a team holds the row of the team and then its
picks, whoever removes one its picks; of one moment nobody holds what another one
holds (`Exclusive`), and who holds the picks has seen all of them (`Sees`).  So a
stored team always has all of its picks, and they are those of a solution that
was checked against the budget the refresh had read.

The reason on the page is told by what the newest import says.  `GamesGrow` says of
the data, which the code does not, that once somebody has played by an import,
somebody has by every later one.  If a source took back the only games of a season,
the page would say that there are none while the command still computed a team from
the games before.

### Only model-checked

- liveness (`GrantsArrive`, `RequestsEnd`, `NotBlockedForEver`, `LinkedInTheEnd`),
  which is beyond the prover, as is whatever needs ENABLED.

The recursive definitions and the folds that the proofs meet (`GameSchedule`,
`Outlook`, `Timeline`, the curve) are each shown to be what they are meant to be, by an
induction over time, over a length or over a number of elements of their own.

## What is left

Of the plan everything is modelled that keeps state two actors share.  What could
still be added, most useful first:

1. The dates of a season as variables of `Roster`: an administrator who changes
   them while a request waits for the roster, whose locking query does not look
   at the season's row again (`fantasy/services.py:47`).
2. An abstract specification of an import, each run one step, for the imports that
   do not overlap.

**Not modelled.** HTTP and HTML, the parsing of pages and feeds, search and
sorting of lists, charts, mail, static files, the wording of messages and the two
languages: they keep no state that two actors share.  The management commands
seed a quiet database (`seed_demo_data`) or call what is modelled (the dream
team, the injuries, the season stats, the schedule).  Dates that an administrator
moves under a running roster, see above.  In *basketball.de import*: namesakes
and rows without an ID.  In *Season administration*: the validation of the form
beyond `Season.clean`.

## Running it

    tlc -config RosterConcurrent.cfg MCRoster.tla
    tlapm RosterProofs.tla

Each run takes between a few seconds and four minutes on two workers; `tlapm`
takes one to three minutes for each of the larger modules.
