------------------------------- MODULE Marks -------------------------------
(***************************************************************************)
(* What accounts think of one player: a star or a kick mark                *)
(* (fantasy/services.py, WatchlistEntry; the toggles of nba/views.py) and  *)
(* their private notes on him (PlayerNote; a team's notes are the same).   *)
(* An account has several tabs open.  A request writes last, so that it    *)
(* is committed with what it writes (ATOMIC_REQUESTS), and a statement     *)
(* that has to wait for another's row looks at it again.                   *)
(***************************************************************************)
EXTENDS Integers

CONSTANTS
  Workers, Accounts,
  Notes,        \* 1..n, used in this order and never twice
  Texts,
  None, Unused, Deleted

\* None is no stance, and no note is a mark for a missing one.
MarksConstants ==
  /\ None \notin {"watch", "kick"} /\ Unused # Deleted
  /\ {Unused, Deleted} \intersect [user : Accounts, content : Texts] = {}

VARIABLES
  entry,        \* [Accounts -> the stance of the row, None without one]
  note,         \* [Notes -> [user, content], Unused or Deleted]
  job

vars == <<entry, note, job>>

Stances == {"watch", "kick"}

Idle == [pc |-> "idle", user |-> None, stance |-> None, note |-> None, text |-> None]

At(w, pc) == job[w].pc = pc
Goes(w, pc) == job' = [job EXCEPT ![w].pc = pc]
Ends(w) == job' = [job EXCEPT ![w] = Idle]
Refused(w) == Ends(w) /\ UNCHANGED <<entry, note>>

-----------------------------------------------------------------------------
(* Star and kick mark *)

Press(w) ==
  /\ At(w, "idle")
  /\ \E u \in Accounts, stance \in Stances :
       job' = [job EXCEPT ![w] = [Idle EXCEPT !.pc = "look", !.user = u, !.stance = stance]]
  /\ UNCHANGED <<entry, note>>

\* _player_stance: a mark of the button's own is taken off, any other replaced.
Look(w) ==
  LET j == job[w]
  IN /\ At(w, "look")
     /\ Goes(w, IF entry[j.user] = j.stance THEN "clear" ELSE "find")
     /\ UNCHANGED <<entry, note>>

\* A slip: whatever the row says.
WithoutAny(was, stance) == None

\* DELETE ... WHERE stance
Without(was, stance) == IF was = stance THEN None ELSE was

clear_player_stance(w) ==
  LET j == job[w]
  IN /\ At(w, "clear")
     /\ entry' = [entry EXCEPT ![j.user] = Without(@, j.stance)]
     /\ Ends(w) /\ UNCHANGED note

SetStance(w) ==
  /\ entry' = [entry EXCEPT ![job[w].user] = job[w].stance]
  /\ Ends(w) /\ UNCHANGED note

\* A slip: an entry found is good enough.
FoundKept(w) == Refused(w)

\* update_or_create: the row is locked and updated ...
Found(w) == SetStance(w)

Find(w) ==
  /\ At(w, "find")
  /\ IF entry[job[w].user] # None THEN Found(w)
     ELSE Goes(w, "insert") /\ UNCHANGED <<entry, note>>

\* ... or inserted, unless another request has inserted it meanwhile ...
Insert(w) ==
  /\ At(w, "insert")
  /\ IF entry[job[w].user] = None THEN SetStance(w)
     ELSE Goes(w, "again") /\ UNCHANGED <<entry, note>>

\* ... and then looked for again: the constraint's error if it is gone once more.
FindAgain(w) ==
  /\ At(w, "again")
  /\ IF entry[job[w].user] # None THEN Found(w) ELSE Refused(w)

-----------------------------------------------------------------------------
(* Notes *)

There == {n \in Notes : note[n] \notin {Unused, Deleted}}
Fresh == {n \in Notes : note[n] = Unused /\ \A k \in Notes : note[k] = Unused => n <= k}

WriteNote(w) ==
  /\ At(w, "idle")
  /\ \E u \in Accounts, text \in Texts, n \in Fresh :
       note' = [note EXCEPT ![n] = [user |-> u, content |-> text]]
  /\ UNCHANGED <<entry, job>>

\* A slip: a note by its key alone.
AnybodysNotes(u) == There

\* get_note: anyone else gets a 404.
OwnNotes(u) == {n \in There : note[n].user = u}

Open(w) ==
  /\ At(w, "idle")
  /\ \E u \in Accounts, n \in There :
       /\ n \in OwnNotes(u)
       /\ \/ \E text \in Texts :
               job' = [job EXCEPT ![w] = [Idle EXCEPT !.pc = "save", !.user = u, !.note = n, !.text = text]]
          \/ job' = [job EXCEPT ![w] = [Idle EXCEPT !.pc = "delete", !.user = u, !.note = n]]
  /\ UNCHANGED <<entry, note>>

\* save() finds no row to update and inserts it again: a note deleted since is back.
SaveNote(w) ==
  LET j == job[w]
  IN /\ At(w, "save")
     /\ note' = [note EXCEPT ![j.note] = [user |-> j.user, content |-> j.text]]
     /\ Ends(w) /\ UNCHANGED entry

DeleteNote(w) ==
  /\ At(w, "delete")
  /\ note' = [note EXCEPT ![job[w].note] = Deleted]
  /\ Ends(w) /\ UNCHANGED entry

-----------------------------------------------------------------------------
Init ==
  /\ entry = [u \in Accounts |-> None]
  /\ note = [n \in Notes |-> Unused]
  /\ job = [w \in Workers |-> Idle]

Next ==
  \E w \in Workers :
    \/ Press(w) \/ Look(w) \/ clear_player_stance(w) \/ Find(w) \/ Insert(w) \/ FindAgain(w)
    \/ WriteNote(w) \/ Open(w) \/ SaveNote(w) \/ DeleteNote(w)

Spec == Init /\ [][Next]_vars

-----------------------------------------------------------------------------
\* "Un-starring a player must not lift a kick mark set elsewhere, and the other way
\* round": a mark goes by its own button only, pressed while it was set.
MarksStay ==
  \A u \in Accounts : entry[u] # None /\ entry'[u] = None =>
    \E w \in Workers : At(w, "clear") /\ job[w].user = u /\ job[w].stance = entry[u]

\* What the answer shows on the button that was pressed is what is stored, whatever
\* other tabs did in between; unless the answer is an error.
AnswerIsTrue ==
  \A w \in Workers :
    LET j == job[w]
        stored == entry'[j.user]
    IN job'[w] = Idle =>
         /\ At(w, "clear") => stored # j.stance
         /\ j.pc \in {"find", "insert"} => stored = j.stance
         /\ At(w, "again") => stored \in {j.stance, None}

\* A note is written, changed and deleted by its author only, and comes back only by
\* an edit that was opened before.
NotesArePrivate ==
  \A n \in Notes :
    /\ note[n] \notin {Unused, Deleted} /\ note'[n] # Deleted => note'[n].user = note[n].user
    /\ note'[n] # note[n] /\ note[n] # Unused =>
         \E w \in Workers : /\ job[w].note = n /\ job'[w] = Idle
                            /\ note[n] # Deleted => job[w].user = note[n].user
                            /\ note[n] = Deleted => At(w, "save")

MarkSteps == MarksStay /\ AnswerIsTrue /\ NotesArePrivate
=============================================================================
