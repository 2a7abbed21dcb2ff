--------------------------- MODULE SeasonStatsFile ---------------------------
(***************************************************************************)
(* Reading a season stats file and finding our player for each line        *)
(* (nba/season_stats.py, up to the preview).  A file is a sequence of      *)
(* lines; a row is the number of its line, so rows, problems and results   *)
(* are sets of line numbers.  How a spelling reduces to a key, and which   *)
(* keys have an alias, are constants.  Averages are in tenths.  What       *)
(* becomes of the preview is in SeasonStats.                               *)
(***************************************************************************)
EXTENDS Integers, Sequences, FiniteSets

CONSTANTS
  Names, Blank,        \* spellings of a player's name, and none at all
  Keys, NoKey,         \* what identifies a name across sources
  KeyOf,               \* name_key: each spelling's key
  AliasOf,             \* _ALIAS_KEYS: our key for a key of the file, or NoKey
  Teams, NoTeam,
  OurPlayers,
  Lines,               \* the lines a file may hold
  MaxLines,            \* bound on the length of a file
  MaxRows              \* MAX_ROWS

\* games_played stands for the whole numbers, these for the averages.
Columns == {"points", "rebounds", "assists", "steals", "blocks", "turnovers",
            "field_goals_made", "field_goals_attempted",
            "free_throws_made", "free_throws_attempted", "personal_fouls"}

FileConstants ==
  /\ IsFiniteSet(OurPlayers)
  /\ \A line \in Lines : line.sheet \in [Columns -> Int]
  /\ KeyOf \in [Names -> Keys]
  /\ AliasOf \in [Keys -> Keys \union {NoKey}]
  /\ MaxLines \in Nat /\ MaxRows \in Nat

VARIABLES
  file,                \* the upload
  players,             \* key and team of each of our players
  step,                \* how far the preview has come
  rows, problems,      \* lines read, lines left out
  found,               \* the one candidate of each row that has one
  matched, unmatched, ambiguous

file_vars == <<file, players, step, rows, problems, found, matched, unmatched, ambiguous>>

-----------------------------------------------------------------------------
(* Reading a line *)

\* games_played is a whole number up to 82, the rest are averages up to 99.
ValidCell(value, whole, bound) ==
  /\ value >= 0 /\ value <= 10 * bound
  /\ whole => value % 10 = 0

\* Files written with a decimal comma are readable when semicolons separate.
Readable(line, delimiter) == line.comma => delimiter = ";"

ParseRecord(line, delimiter) ==
  /\ line.name # Blank
  /\ Readable(line, delimiter)
  /\ ValidCell(line.games_played, TRUE, 82)
  /\ \A c \in Columns : ValidCell(line.sheet[c], FALSE, 99)

-----------------------------------------------------------------------------
(* Fantasy points per game, in hundredths *)

AtLeastZero(n) == IF n > 0 THEN n ELSE 0

\* A slip: the miss of a rounded average below zero.
GameFantasyPointsRaw(v) ==
  10 * (v.points + v.rebounds) + 15 * v.assists
    + 20 * (v.steals + v.blocks - v.turnovers)
    - 5 * (v.field_goals_attempted - v.field_goals_made)
    - 5 * (v.free_throws_attempted - v.free_throws_made)
    - 5 * v.personal_fouls

GameFantasyPoints(v) ==
  10 * (v.points + v.rebounds) + 15 * v.assists
    + 20 * (v.steals + v.blocks - v.turnovers)
    - 5 * AtLeastZero(v.field_goals_attempted - v.field_goals_made)
    - 5 * AtLeastZero(v.free_throws_attempted - v.free_throws_made)
    - 5 * v.personal_fouls

\* The copy that migration 0015 froze for the rows stored before it.
MigratedFantasyPoints(s) ==
  LET missed(made, attempted) == IF attempted > made THEN attempted - made ELSE 0
  IN 10 * s.points + 10 * s.rebounds + 15 * s.assists + 20 * s.steals
       + 20 * s.blocks - 20 * s.turnovers
       - 5 * missed(s.field_goals_made, s.field_goals_attempted)
       - 5 * missed(s.free_throws_made, s.free_throws_attempted)
       - 5 * s.personal_fouls

-----------------------------------------------------------------------------
(* Matching *)

Key(row) == KeyOf[file.lines[row].name]

Named(roster, key) == {p \in OurPlayers : roster[p].key = key}

\* The name as written wins; the alias only helps when it finds nobody.
ByName(roster, key) ==
  IF Named(roster, key) # {} THEN Named(roster, key) ELSE Named(roster, AliasOf[key])

\* The team only breaks a tie.
TieBroken(candidates, roster, team) ==
  LET there == {p \in candidates : roster[p].team = team}
  IN IF Cardinality(candidates) > 1 /\ there # {} THEN there ELSE candidates

Candidates(roster, row) ==
  TieBroken(ByName(roster, Key(row)), roster, file.lines[row].team)

\* A slip: of two lines for one player the first one counts.
ContestedLater(f) == {r \in DOMAIN f : \E other \in DOMAIN f : other < r /\ f[other] = f[r]}

\* The rows that land on the same player as another one.
Contested(f) == {r \in DOMAIN f : \E other \in DOMAIN f \ {r} : f[other] = f[r]}

-----------------------------------------------------------------------------
(* From the upload to the preview *)

NothingYet ==
  /\ rows = {} /\ problems = {} /\ found = << >>
  /\ matched = {} /\ unmatched = {} /\ ambiguous = {}

Files == [fault : {"none", "large", "encoding", "columns"}, delimiter : {";", ","},
          lines : UNION {[1..n -> Lines] : n \in 0..MaxLines}]

FileInit ==
  /\ file \in {f \in Files : f.fault = "none" \/ Len(f.lines) = 1}
  /\ players \in [OurPlayers -> [key : Keys, team : Teams \union {NoTeam}]]
  /\ step = "uploaded"
  /\ NothingYet

Records == {i \in 1..Len(file.lines) : ~file.lines[i].blank}

\* The file as a whole cannot be read: nothing is recorded.
Unusable == file.fault # "none" \/ Records = {} \/ Cardinality(Records) > MaxRows

RefuseFile ==
  /\ step = "uploaded" /\ Unusable
  /\ step' = "refused"
  /\ UNCHANGED <<file, players, rows, problems, found, matched, unmatched, ambiguous>>

Parse ==
  /\ step = "uploaded" /\ ~Unusable
  /\ rows' = {i \in Records : ParseRecord(file.lines[i], file.delimiter)}
  /\ problems' = Records \ rows'
  /\ step' = "parsed"
  /\ UNCHANGED <<file, players, found, matched, unmatched, ambiguous>>

Repeated == {i \in rows : \E j \in rows \ {i} : Key(i) = Key(j)}

DropDuplicates ==
  /\ step = "parsed"
  /\ rows' = rows \ Repeated
  /\ problems' = problems \union Repeated
  /\ step' = "read"
  /\ UNCHANGED <<file, players, found, matched, unmatched, ambiguous>>

FindPlayers ==
  /\ step = "read"
  /\ LET candidates == [r \in rows |-> Candidates(players, r)]
         single == {r \in rows : Cardinality(candidates[r]) = 1}
     IN /\ unmatched' = {r \in rows : candidates[r] = {}}
        /\ found' = [r \in single |-> CHOOSE p \in candidates[r] : TRUE]
        /\ ambiguous' = {r \in rows : Cardinality(candidates[r]) > 1}
  /\ step' = "found"
  /\ UNCHANGED <<file, players, rows, problems, matched>>

MatchRows ==
  /\ step = "found"
  /\ matched' = DOMAIN found \ Contested(found)
  /\ ambiguous' = ambiguous \union Contested(found)
  /\ step' = "matched"
  /\ UNCHANGED <<file, players, rows, problems, found, unmatched>>

FileNext == RefuseFile \/ Parse \/ DropDuplicates \/ FindPlayers \/ MatchRows

FileSpec == FileInit /\ [][FileNext]_file_vars

-----------------------------------------------------------------------------
(* Properties *)

\* The preview's numbers add up: each line that is not blank is in exactly one
\* of the lists the page shows (preview_season_stats stores all four).
EachLineOnce ==
  step = "matched" =>
    /\ matched \union unmatched \union ambiguous \union problems = Records
    /\ Cardinality(matched) + Cardinality(unmatched) + Cardinality(ambiguous)
         + Cardinality(problems) = Cardinality(Records)

\* "Nothing is ever guessed": a matched line is the only one to find its player and
\* of its name, and nobody else of the name plays for the line's team.
NeverGuessed ==
  step = "matched" => \A r \in matched :
    LET p == found[r]
        line == file.lines[r]
        rivals == {q \in OurPlayers \ {p} : players[q].key = players[p].key}
    IN /\ \A other \in DOMAIN found \ {r} : found[other] # p
       /\ \A other \in Records \ {r} :
            ParseRecord(file.lines[other], file.delimiter) => Key(other) # Key(r)
       /\ rivals # {} => /\ players[p].team = line.team
                         /\ \A q \in rivals : players[q].team # line.team

\* "A later respelling on our side never makes a match worse": when a player an
\* alias found is renamed to the file's spelling, the line still finds him.
RespellingIsSafe ==
  step = "matched" => \A r \in matched :
    LET renamed == [players EXCEPT ![found[r]].key = Key(r)]
    IN players[found[r]].key = AliasOf[Key(r)] => Candidates(renamed, r) = {found[r]}

\* "Nothing is ever guessed": each line of a file is in exactly one list of the
\* preview, a matched line is the only one that can be the player's, and a player
\* renamed to the file's spelling is still found.
LinesLandRight == EachLineOnce /\ NeverGuessed /\ RespellingIsSafe

\* What a row may contain: the site and migration 0015 agree on its points, and
\* a miss never adds any.
PointsAgree ==
  step # "uploaded" => \A r \in rows :
    LET sheet == file.lines[r].sheet
        noAttempts == [sheet EXCEPT !.field_goals_attempted = sheet.field_goals_made,
                                    !.free_throws_attempted = sheet.free_throws_made]
    IN /\ GameFantasyPoints(sheet) = MigratedFantasyPoints(sheet)
       /\ GameFantasyPoints(sheet) <= GameFantasyPoints(noAttempts)
=============================================================================
