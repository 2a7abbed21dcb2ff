------------------------------ MODULE Ownership ------------------------------
(***************************************************************************)
(* Who owns what (fantasy/forms.py, views.py, services.py): an account's   *)
(* manager profiles, their rosters, the seasons these are played in, and   *)
(* which season is current.  The dialogs look first and write afterwards;  *)
(* a request is one transaction (ATOMIC_REQUESTS), so what it writes is    *)
(* seen, and checked against the deferred foreign keys, when it commits.   *)
(* What is in a roster is Roster's, and rows of other accounts are never   *)
(* looked at.                                                              *)
(***************************************************************************)
EXTENDS Integers, FiniteSets

CONSTANTS
  Workers, Seasons,
  Profiles, Rosters,      \* 1..n, used in this order and never twice
  Nicknames, Names,
  Folded,                 \* [Nicknames -> without upper and lower case]
  DefaultNickname,        \* default_nickname of the account
  Unused, Deleted, None,
  Kinds                   \* the dialogs in use

\* Rows are numbered, and none is a mark for a missing one.
OwnershipConstants ==
  /\ Profiles \subseteq Nat /\ Rosters \subseteq Nat /\ None \notin Profiles
  /\ Unused # Deleted
  /\ {Unused, Deleted} \intersect {"current", "plain"} = {}
  /\ {Unused, Deleted} \intersect
       [manager : Profiles, season : Seasons,
        name : Nicknames \union Names \union {DefaultNickname, None}] = {}

VARIABLES
  season,       \* [Seasons -> {Unused, Deleted, "plain", "current"}]
  nick_name,    \* [Profiles -> a nickname, Unused or Deleted]
  roster,       \* [Rosters -> [manager, season, name], Unused or Deleted]
  job           \* each server's request

vars == <<season, nick_name, roster, job>>

There(f) == {x \in DOMAIN f : f[x] \notin {Unused, Deleted}}
Fresh(f) == {x \in DOMAIN f : f[x] = Unused /\ \A y \in DOMAIN f : f[y] = Unused => x <= y}
Current == {s \in Seasons : season[s] = "current"}

OfProfile(p) == {r \in There(roster) : roster[r].manager = p}
OfSeason(s) == {r \in There(roster) : roster[r].season = s}

Idle == [pc |-> "idle", kind |-> None, id |-> None, name |-> None, season |-> None,
         ticked |-> FALSE, swept |-> {}, gone |-> {}, known |-> {}, alone |-> FALSE]

Is(w, kind, pc) == job[w].kind = kind /\ job[w].pc = pc
Goes(w, pc) == job' = [job EXCEPT ![w].pc = pc]
Ends(w) == job' = [job EXCEPT ![w] = Idle]

\* An exception no form turns into a sentence: everything is rolled back.
Fails(w) == Goes(w, "error") /\ UNCHANGED <<season, nick_name, roster>>
LooksOn(w, pc) == Goes(w, pc) /\ UNCHANGED <<season, nick_name, roster>>
Refused(w) == Ends(w) /\ UNCHANGED <<season, nick_name, roster>>

\* A request; others may be at work.
Begin(w, r) ==
  /\ job[w].pc = "idle" /\ r.kind \in Kinds
  /\ LET alone == \A v \in Workers \ {w} : job[v].pc = "idle"
     IN job' = [v \in Workers |-> IF v = w THEN [r EXCEPT !.alone = alone]
                                  ELSE [job[v] EXCEPT !.alone = @ /\ job[v].pc = "idle"]]
  /\ UNCHANGED <<season, nick_name, roster>>

Leave(w) == job[w].pc = "error" /\ Refused(w)

-----------------------------------------------------------------------------
(* Profiles *)

BeginProfile(w) ==
  \E kind \in {"create_profile", "rename_profile", "delete_profile"}, n \in Nicknames :
  \E p \in IF kind = "create_profile" THEN {None} ELSE There(nick_name) :
    Begin(w, [Idle EXCEPT !.kind = kind, !.pc = "look", !.id = p, !.name = n])

\* A slip: only the constraint's own comparison.
TakenExactly(n, p) == \E q \in There(nick_name) \ {p} : nick_name[q] = n

\* ManagerNamePromptView.clean: iexact, in any case.
Taken(n, p) == \E q \in There(nick_name) \ {p} : Folded[nick_name[q]] = Folded[n]

CheckNickname(w) ==
  /\ job[w].kind \in {"create_profile", "rename_profile"} /\ job[w].pc = "look"
  /\ IF Taken(job[w].name, job[w].id) THEN Refused(w) ELSE LooksOn(w, "write")

\* unique_nickname_per_user
Clashes(n, p) == \E q \in There(nick_name) \ {p} : nick_name[q] = n

CreateProfile(w) ==
  /\ Is(w, "create_profile", "write")
  /\ IF Clashes(job[w].name, None) THEN Fails(w)
     ELSE /\ \E p \in Fresh(nick_name) : nick_name' = [nick_name EXCEPT ![p] = job[w].name]
          /\ Ends(w) /\ UNCHANGED <<season, roster>>

\* A row deleted in between: save(update_fields=...) finds none.
RenameProfile(w) ==
  LET p == job[w].id
  IN /\ Is(w, "rename_profile", "write")
     /\ IF p \notin There(nick_name) \/ Clashes(job[w].name, p) THEN Fails(w)
        ELSE /\ nick_name' = [nick_name EXCEPT ![p] = job[w].name]
             /\ Ends(w) /\ UNCHANGED <<season, roster>>

\* A slip: the dialog warns, and the request does not look again.
Unheld(p) == {}

\* ManagerDeleteView.post: refused while it plays a roster.
Held(p) == OfProfile(p)

\* What was there is kept for a property only.
CheckHeld(w) ==
  /\ Is(w, "delete_profile", "look")
  /\ IF Held(job[w].id) # {} THEN Refused(w)
     ELSE /\ job' = [job EXCEPT ![w].pc = "collect", ![w].known = There(roster)]
          /\ UNCHANGED <<season, nick_name, roster>>

\* delete() takes every roster it finds now, and fails on one that comes later.
CollectRosters(w) ==
  /\ Is(w, "delete_profile", "collect")
  /\ job' = [job EXCEPT ![w].pc = "write", ![w].gone = OfProfile(job[w].id)]
  /\ UNCHANGED <<season, nick_name, roster>>

DeleteProfile(w) ==
  LET j == job[w]
  IN /\ Is(w, "delete_profile", "write")
     /\ IF OfProfile(j.id) \subseteq j.gone
        THEN /\ nick_name' = [nick_name EXCEPT ![j.id] = Deleted]
             /\ roster' = [r \in Rosters |-> IF r \in j.gone THEN Deleted ELSE roster[r]]
             /\ Ends(w) /\ UNCHANGED season
        ELSE Fails(w)

-----------------------------------------------------------------------------
(* Rosters *)

\* RosterCreateView.dispatch: a season and a profile there must be.
BeginRoster(w) ==
  \E n \in Names, s \in Current, p \in There(nick_name) \union {None} :
    /\ There(nick_name) # {}
    /\ Begin(w, [Idle EXCEPT !.kind = "create_roster", !.pc = "look", !.id = p,
                             !.name = n, !.season = s])

NameTaken(p, s, n) == \E r \in OfProfile(p) \intersect OfSeason(s) : roster[r].name = n

\* manager_for: the oldest profile, when none was chosen.
Oldest == {p \in There(nick_name) : \A q \in There(nick_name) : p <= q}
Chosen(p) == IF p = None THEN Oldest ELSE {p} \intersect There(nick_name)

\* clean_choice and clean.
CheckRosterName(w) ==
  LET j == job[w]
      choice == Chosen(j.id)
  IN /\ Is(w, "create_roster", "look")
     /\ IF \/ j.id # None /\ choice = {}
           \/ \E p \in choice : NameTaken(p, j.season, j.name)
        THEN Refused(w)
        ELSE /\ job' = [job EXCEPT ![w].pc = "write",
                                   ![w].id = IF choice = {} THEN None ELSE CHOOSE p \in choice : TRUE]
             /\ UNCHANGED <<season, nick_name, roster>>

\* perform: ensure_manager (its get_or_create makes the profile, or finds it made),
\* then create_roster, which signings may refuse - a profile just made then stays.
CreateRoster(w) ==
  LET j == job[w]
      makes == j.id = None /\ Oldest = {}
      manager == IF j.id # None THEN {j.id} ELSE IF makes THEN Fresh(nick_name) ELSE Oldest
  IN /\ Is(w, "create_roster", "write")
     /\ \E p \in manager, signings \in {"open", "closed"} :
          IF /\ signings = "open"
             /\ \/ ~makes /\ p \notin There(nick_name)
                \/ j.season \notin There(season) \/ NameTaken(p, j.season, j.name)
          THEN Fails(w)
          ELSE /\ nick_name' = IF makes THEN [nick_name EXCEPT ![p] = DefaultNickname] ELSE nick_name
               /\ IF signings = "closed" THEN UNCHANGED roster
                  ELSE \E r \in Fresh(roster) :
                         roster' = [roster EXCEPT ![r] =
                                      [manager |-> p, season |-> j.season, name |-> j.name]]
               /\ Ends(w) /\ UNCHANGED season

BeginOnRoster(w) ==
  \E kind \in {"rename_roster", "delete_roster"}, r \in There(roster), n \in Names :
    Begin(w, [Idle EXCEPT !.kind = kind, !.pc = "write", !.id = r, !.name = n,
                          !.ticked = roster[r].name # n])

\* RosterRenameView: nothing is written when it was this name (ticked: it was not),
\* and nothing looks whether the name is free.
RenameRoster(w) ==
  LET r == job[w].id
  IN /\ Is(w, "rename_roster", "write")
     /\ IF ~job[w].ticked THEN Refused(w)
        ELSE IF r \in There(roster) =>
                  \E q \in OfProfile(roster[r].manager) \intersect OfSeason(roster[r].season) :
                    q # r /\ roster[q].name = job[w].name
        THEN Fails(w)
        ELSE /\ roster' = [roster EXCEPT ![r].name = job[w].name]
             /\ Ends(w) /\ UNCHANGED <<season, nick_name>>

DeleteRoster(w) ==
  /\ Is(w, "delete_roster", "write")
  /\ roster' = [roster EXCEPT ![job[w].id] = Deleted]
  /\ Ends(w) /\ UNCHANGED <<season, nick_name>>

-----------------------------------------------------------------------------
(* Seasons *)

\* Season rows a transaction has swept are locked until it ends.
Locked(w, s) == \E v \in Workers \ {w} : s \in job[v].swept

BeginSeason(w) ==
  \E kind \in {"save_season", "delete_season"}, s \in Seasons, ticked \in BOOLEAN :
    /\ \/ s \in There(season)
       \/ kind = "save_season" /\ season[s] = Unused
    /\ Begin(w, [Idle EXCEPT !.kind = kind, !.id = s, !.ticked = ticked,
                             !.pc = IF kind = "save_season" /\ ticked THEN "sweep"
                                    ELSE IF kind = "save_season" THEN "write" ELSE "look"])

\* SeasonForm.save, first statement: which others are current ...
FindCurrent(w) ==
  /\ Is(w, "save_season", "sweep")
  /\ job' = [job EXCEPT ![w].pc = "lock", ![w].gone = Current \ {job[w].id}]
  /\ UNCHANGED <<season, nick_name, roster>>

\* A slip: the box is taken off the others in a transaction of its own.
SweepAtOnce(w) ==
  /\ Is(w, "save_season", "lock")
  /\ season' = [s \in Seasons |-> IF s \in job[w].gone \intersect Current THEN "plain" ELSE season[s]]
  /\ job' = [job EXCEPT ![w].pc = "write", ![w].gone = {}]
  /\ UNCHANGED <<nick_name, roster>>

\* ... and, once nobody holds them, those that still are.
Sweep(w) ==
  /\ Is(w, "save_season", "lock") /\ \A s \in job[w].gone : ~Locked(w, s)
  /\ job' = [job EXCEPT ![w].pc = "write", ![w].swept = job[w].gone \intersect Current,
                        ![w].gone = {}]
  /\ UNCHANGED <<season, nick_name, roster>>

\* super().save: an UPDATE, or where there is no such row an INSERT - a season
\* deleted since it was read is there again.  only_one_current_season refuses.
SaveSeason(w) ==
  LET j == job[w]
  IN /\ Is(w, "save_season", "write") /\ ~Locked(w, j.id)
     /\ IF j.ticked /\ ~(Current \subseteq j.swept \union {j.id}) THEN Fails(w)
        ELSE /\ season' = [s \in Seasons |->
                             CASE s = j.id -> IF j.ticked THEN "current" ELSE "plain"
                               [] s \in j.swept -> "plain"
                               [] OTHER -> season[s]]
             /\ Ends(w) /\ UNCHANGED <<nick_name, roster>>

\* SeasonDeleteView.post, and PROTECT in delete(): refused while a roster is played.
CheckSeason(w) ==
  /\ job[w].kind = "delete_season" /\ job[w].pc \in {"look", "collect"}
  /\ IF OfSeason(job[w].id) # {} THEN Refused(w)
     ELSE LooksOn(w, IF job[w].pc = "look" THEN "collect" ELSE "write")

\* The foreign key, at the end, fails for a roster that came after PROTECT looked.
DeleteSeason(w) ==
  LET s == job[w].id
  IN /\ Is(w, "delete_season", "write") /\ ~Locked(w, s)
     /\ IF OfSeason(s) # {} THEN Fails(w)
        ELSE /\ season' = [season EXCEPT ![s] = Deleted]
             /\ Ends(w) /\ UNCHANGED <<nick_name, roster>>

-----------------------------------------------------------------------------
Init ==
  /\ season \in [Seasons -> {"current", "plain", Unused}]
  /\ Cardinality(Current) <= 1
  /\ nick_name = [p \in Profiles |-> IF p = 1 THEN DefaultNickname ELSE Unused]
  /\ roster = [r \in Rosters |-> Unused]
  /\ job = [w \in Workers |-> Idle]

OfProfiles(w) ==
  \/ BeginProfile(w) \/ CheckNickname(w) \/ CreateProfile(w) \/ RenameProfile(w)
  \/ CheckHeld(w) \/ CollectRosters(w) \/ DeleteProfile(w)
OfRosters(w) ==
  \/ BeginRoster(w) \/ CheckRosterName(w) \/ CreateRoster(w)
  \/ BeginOnRoster(w) \/ RenameRoster(w) \/ DeleteRoster(w)
OfSeasons(w) ==
  \/ BeginSeason(w) \/ FindCurrent(w) \/ Sweep(w) \/ SaveSeason(w)
  \/ CheckSeason(w) \/ DeleteSeason(w)

Next == \E w \in Workers : OfProfiles(w) \/ OfRosters(w) \/ OfSeasons(w) \/ Leave(w)

Spec == Init /\ [][Next]_vars

-----------------------------------------------------------------------------
(* Properties *)

\* A request that meets no other is answered in a sentence: what the database would
\* refuse, a dialog has refused before.  Not so the renaming of a roster, which does
\* not look (fantasy/views.py:1533).
AloneNeverFails ==
  \A w \in Workers : job[w].pc = "error" /\ job[w].alone => job[w].kind = "rename_roster"

\* A roster goes by the dialog that says what it costs, and by no other; except that
\* the deletion of a profile that meets another request takes a roster that was not
\* there when it looked (fantasy/views.py:500).
RostersSurvive ==
  \A r \in There(roster) : roster'[r] = Deleted =>
    \E w \in Workers :
      \/ Is(w, "delete_roster", "write") /\ job[w].id = r
      \/ Is(w, "delete_profile", "write") /\ ~job[w].alone /\ r \notin job[w].known

\* The moment without a current season is never seen: a season stops being current
\* only for another, by an administrator who unticks it, or with its row.
CurrentHandedOver ==
  \A s \in Current : season'[s] # "current" =>
    \/ season'[s] = Deleted
    \/ \E t \in Seasons \ {s} : season'[t] = "current"
    \/ \E w \in Workers : Is(w, "save_season", "write") /\ job[w].id = s /\ ~job[w].ticked

\* The last administrator who ticks a season and gets no error has it current, alone.
LastTickWins ==
  \A w \in Workers :
    Is(w, "save_season", "write") /\ job[w].ticked /\ job'[w].pc = "idle" =>
      \A s \in Seasons : season'[s] = "current" <=> s = job[w].id

\* A nickname given by a request that meets no other can be told from the account's others.
NicknamesTold ==
  \A p \in Profiles, q \in Profiles :
    /\ p # q /\ p \in There(nick_name)' /\ q \in There(nick_name)'
    /\ nick_name'[p] # nick_name[p] /\ Folded[nick_name'[p]] = Folded[nick_name'[q]]
    => \E w \in Workers : job[w].pc = "write" /\ job'[w].pc = "idle" /\ ~job[w].alone

Steps == RostersSurvive /\ CurrentHandedOver /\ LastTickWins /\ NicknamesTold
=============================================================================
