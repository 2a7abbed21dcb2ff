------------------------------ MODULE Accounts ------------------------------
(***************************************************************************)
(* Accounts, roles, invitation and reset links (apps/accounts), and the    *)
(* admin site's pages of users.                                            *)
(*                                                                         *)
(* Each request is a transaction (ATOMIC_REQUESTS).  It reads its rows in  *)
(* one step and writes in another, and in between others commit.  Only a   *)
(* demotion locks more than the row it writes: the active administrators,  *)
(* one after the other in the order of their addresses (User.Meta), here   *)
(* the order of their numbers.  A locked row that no longer answers the    *)
(* query is left out of the result, as PostgreSQL does at READ COMMITTED.  *)
(* A write waits for the row's lock and is committed in the same step,     *)
(* since the request reads nothing after it.                               *)
(***************************************************************************)
EXTENDS Integers, FiniteSets

CONSTANTS
  Workers,
  People,              \* accounts that exist or may be created, 1..n
  InitialRoles,        \* the roles of the accounts there are at first
  Addresses,           \* <<mailbox, spelling>>: spellings differ in case only
  Kinds,               \* the kinds of request that are made
  Grantable,           \* the roles change_role is asked for
  InvitationTimeout, ResetTimeout,
  MaxStamp, LastInstant, MaxLinks   \* bounds

Roles == {"coach", "team", "admin"}

AccountConstants ==
  /\ People = 1..Cardinality(People) /\ DOMAIN InitialRoles \subseteq People
  /\ \A p \in DOMAIN InitialRoles : InitialRoles[p] \in Roles /\ <<p, "a">> \in Addresses
  /\ Grantable \subseteq Roles
  /\ {InvitationTimeout, ResetTimeout, MaxStamp, LastInstant, MaxLinks} \subseteq Nat

VARIABLES
  now,
  stamp,               \* the password hashes and sign-in times given out
  users,               \* User rows
  links,               \* the invitation and reset links that were handed out
  job                  \* each worker's request

vars == <<now, stamp, users, links, job>>

-----------------------------------------------------------------------------
(* Rows *)

Unusable == 0

User == [exists : BOOLEAN, email : Addresses, is_active : BOOLEAN, is_staff : BOOLEAN,
         is_superuser : BOOLEAN, password : 0..MaxStamp, last_login : 0..MaxStamp]

NoUser == [exists |-> FALSE, email |-> CHOOSE a \in Addresses : TRUE, is_active |-> FALSE,
           is_staff |-> FALSE, is_superuser |-> FALSE, password |-> Unusable, last_login |-> 0]

\* change_role's two assignments.
WithRole(row, role) == [row EXCEPT !.is_staff = role \in {"team", "admin"},
                                   !.is_superuser = role = "admin"]

SignsIn(p) == users[p].exists /\ users[p].is_active /\ users[p].password # Unusable
IsStaff(p) == SignsIn(p) /\ users[p].is_staff
IsAdmin(p) == SignsIn(p) /\ users[p].is_superuser

Admins == {p \in People : users[p].exists /\ users[p].is_active /\ users[p].is_superuser}

Mailbox(a) == a[1]

\* The column is unique: somebody else has exactly this address.
TakenExactly(a, p) == \E q \in People \ {p} : users[q].exists /\ users[q].email = a

\* clean_email: somebody else has the address, in any spelling.
Taken(a, p) ==
  \E q \in People \ {p} : users[q].exists /\ Mailbox(users[q].email) = Mailbox(a)

-----------------------------------------------------------------------------
(* Links.  The token is a hash of the account as it was when it was made.   *)

Link == [kind : {"invitation", "reset"}, user : People, made : 0..LastInstant,
         password : 0..MaxStamp, last_login : 0..MaxStamp, email : Addresses]

Timeout(kind) == IF kind = "invitation" THEN InvitationTimeout ELSE ResetTimeout

LinkFor(kind, p, row) ==
  [kind |-> kind, user |-> p, made |-> now, password |-> row.password,
   last_login |-> row.last_login, email |-> row.email]

\* A slip: the hash leaves the password out.
CheckTokenByLogin(l, row) ==
  /\ now - l.made <= Timeout(l.kind)
  /\ <<l.last_login, l.email>> = <<row.last_login, row.email>>

\* check_token
CheckToken(l, row) ==
  /\ now - l.made <= Timeout(l.kind)
  /\ <<l.password, l.last_login, l.email>> = <<row.password, row.last_login, row.email>>

-----------------------------------------------------------------------------
(* Requests *)

Idle == [pc |-> "idle", kind |-> "none", person |-> 1, row |-> NoUser, wanted |-> NoUser,
         scan |-> {}, held |-> {}]

At(w, pc) == job[w].pc = pc

HeldByOthers(w) == UNION {job[v].held : v \in Workers \ {w}}

SetsPassword == {"password", "admin_password", "admin_add", "accept", "reset_confirm"}
MakesLink == {"invite", "resend", "reset"}

\* The bounds leave room for every request that was begun.
UnderWay(kinds) == Cardinality({v \in Workers : job[v].kind \in kinds})
Room(kind) ==
  /\ kind \in SetsPassword => stamp + UnderWay(SetsPassword) < MaxStamp
  /\ kind \in MakesLink => Cardinality(links) + UnderWay(MakesLink) < MaxLinks

\* A request is read and decided on: `row` is the account as it was read and
\* `wanted` what is to be made of it.
Asked(w, pc, kind, p, wanted) ==
  /\ At(w, "idle") /\ kind \in Kinds /\ Room(kind)
  /\ job' = [job EXCEPT ![w] = [Idle EXCEPT !.pc = pc, !.kind = kind, !.person = p,
                                            !.row = users[p], !.wanted = wanted]]
  /\ UNCHANGED <<now, stamp, users, links>>

PlanForRole(row, role) ==
  IF row.is_superuser /\ role # "admin" THEN "counting" ELSE "writing"

\* UserRoleView and the first half of change_role.
AskRole(w, actor, p, role) ==
  /\ IsAdmin(actor) /\ users[p].exists /\ actor # p
  /\ Asked(w, PlanForRole(users[p], role), "role", p, WithRole(users[p], role))

\* The query for the administrators, and its locks, one by one.
FindAdmins(w) ==
  /\ At(w, "counting")
  /\ job' = [job EXCEPT ![w].pc = "locking", ![w].scan = Admins]
  /\ UNCHANGED <<now, stamp, users, links>>

Lockable(w) == {p \in job[w].scan \ job[w].held : \A q \in job[w].scan \ job[w].held : p <= q}

\* A slip: a row is not looked at again after the wait.
StillFoundWithoutLook(p) == TRUE

StillFound(p) == p \in Admins

LockAdmin(w) ==
  /\ At(w, "locking")
  /\ \E p \in Lockable(w) \ HeldByOthers(w) :
       job' = [job EXCEPT ![w].held = @ \union {p},
                          ![w].scan = IF StillFound(p) THEN @ ELSE @ \ {p}]
  /\ UNCHANGED <<now, stamp, users, links>>

\* The last administrator keeps the role.
DecideRole(w) ==
  /\ At(w, "locking") /\ job[w].scan \subseteq job[w].held
  /\ job' = [job EXCEPT ![w] = IF job[w].scan \ {job[w].person} = {}
                               THEN Idle ELSE [@ EXCEPT !.pc = "writing"]]
  /\ UNCHANGED <<now, stamp, users, links>>

\* ProfileView: the account's own name, language and address.
AskProfile(w, p, a) ==
  /\ SignsIn(p) /\ ~Taken(a, p)
  /\ Asked(w, "writing", "profile", p, [users[p] EXCEPT !.email = a])

\* PasswordChangeView
AskPassword(w, p) ==
  /\ SignsIn(p)
  /\ Asked(w, "writing", "password", p, users[p])

\* UserAdmin: an administrator edits an account, deletes it, or sets its
\* password.
AskAdminSite(w, actor, p, a, active, staff, super) ==
  /\ IsAdmin(actor) /\ IsStaff(actor) /\ users[p].exists /\ ~TakenExactly(a, p)
  /\ Asked(w, "writing", "admin", p, [users[p] EXCEPT
             !.email = a, !.is_active = active, !.is_staff = staff, !.is_superuser = super])

AskAdminPassword(w, actor, p) ==
  /\ IsAdmin(actor) /\ IsStaff(actor) /\ users[p].exists
  /\ Asked(w, "writing", "admin_password", p, users[p])

AdminDelete(w, actor, p) ==
  /\ At(w, "idle") /\ "delete" \in Kinds
  /\ IsAdmin(actor) /\ IsStaff(actor) /\ users[p].exists /\ p \notin HeldByOthers(w)
  /\ users' = [users EXCEPT ![p] = NoUser]
  /\ UNCHANGED <<now, stamp, links, job>>

\* A new account is somewhere in the table, and nobody else is adding it.
NewAccount(p) == ~users[p].exists /\ \A v \in Workers : job[v].pc = "inserting" => job[v].person # p

\* UserAdmin's page for a new account, with a password; it checks the exact
\* address only.
AskAdminAdd(w, actor, p, a) ==
  /\ IsAdmin(actor) /\ IsStaff(actor) /\ NewAccount(p) /\ ~TakenExactly(a, p)
  /\ Asked(w, "inserting", "admin_add", p, [NoUser EXCEPT
             !.exists = TRUE, !.is_active = TRUE, !.email = a])

\* InviteUserView: a new account p without a password.
AskInvite(w, actor, p, a, staff) ==
  /\ IsStaff(actor) /\ NewAccount(p) /\ ~Taken(a, p)
  /\ Asked(w, "inserting", "invite", p, [NoUser EXCEPT
             !.exists = TRUE, !.is_active = TRUE, !.email = a, !.is_staff = staff])

\* ResendInvitationView
AskResend(w, actor, p) ==
  /\ IsStaff(actor) /\ users[p].exists /\ users[p].password = Unusable
  /\ Asked(w, "linking", "resend", p, users[p])

\* PasswordResetView mails a link to the active accounts with a password.
AskReset(w, p) ==
  /\ SignsIn(p)
  /\ Asked(w, "linking", "reset", p, users[p])

\* AcceptInvitationView and PasswordResetConfirmView, from dispatch on: the
\* page before only puts the same token into the session.
AskUse(w, l) ==
  /\ l \in links /\ users[l.user].exists /\ CheckToken(l, users[l.user])
  /\ l.kind = "invitation" => users[l.user].is_active
  /\ Asked(w, "writing", IF l.kind = "invitation" THEN "accept" ELSE "reset_confirm",
           l.user, users[l.user])

-----------------------------------------------------------------------------
(* Writing *)

\* A slip: whoever gets a password gets into the admin site.
SavedAsStaff(w) ==
  IF job[w].kind \in SetsPassword
  THEN [job[w].wanted EXCEPT !.password = stamp + 1, !.is_staff = TRUE] ELSE job[w].wanted

\* What is saved.  change_role names its two columns; every other form saves
\* the whole row as it was read, and so creates it again if it is gone.  The
\* sign-in after an acceptance stamps last_login.
Saved(w) ==
  LET j == job[w]
  IN CASE j.kind = "role" -> [users[j.person] EXCEPT !.is_staff = j.wanted.is_staff,
                                                     !.is_superuser = j.wanted.is_superuser]
       [] j.kind = "accept" -> [j.wanted EXCEPT !.password = stamp + 1, !.last_login = stamp + 1]
       [] j.kind \in SetsPassword \ {"accept"} -> [j.wanted EXCEPT !.password = stamp + 1]
       [] OTHER -> j.wanted

AnswerIdle(w) == job' = [job EXCEPT ![w] = Idle]

\* The exact spelling is unique in the table.
Clashes(w) == \E q \in People \ {job[w].person} :
                users[q].exists /\ users[q].email = job[w].wanted.email

Write(w) ==
  /\ At(w, "writing") /\ job[w].person \notin HeldByOthers(w)
  /\ users' = IF \/ job[w].kind = "role" /\ ~users[job[w].person].exists
                 \/ job[w].kind # "role" /\ Clashes(w)
              THEN users ELSE [users EXCEPT ![job[w].person] = Saved(w)]
  /\ stamp' = IF job[w].kind \in SetsPassword THEN stamp + 1 ELSE stamp
  /\ AnswerIdle(w)
  /\ UNCHANGED <<now, links>>

Insert(w) ==
  /\ At(w, "inserting")
  /\ IF Clashes(w)
     THEN UNCHANGED <<users, links, stamp>>
     ELSE /\ users' = [users EXCEPT ![job[w].person] = Saved(w)]
          /\ stamp' = IF job[w].kind = "admin_add" THEN stamp + 1 ELSE stamp
          /\ links' = IF job[w].kind = "admin_add" THEN links
                      ELSE links \union {LinkFor("invitation", job[w].person, job[w].wanted)}
  /\ AnswerIdle(w)
  /\ UNCHANGED now

\* A link for the account as it was read; last_invited_at is saved by name.
HandOutLink(w) ==
  /\ At(w, "linking") /\ job[w].person \notin HeldByOthers(w)
  /\ IF job[w].kind = "resend" /\ ~users[job[w].person].exists
     THEN UNCHANGED links
     ELSE links' = links \union {LinkFor(IF job[w].kind = "resend" THEN "invitation" ELSE "reset",
                                         job[w].person, job[w].row)}
  /\ AnswerIdle(w)
  /\ UNCHANGED <<now, stamp, users>>

\* EmailAuthenticationForm: a sign-in stamps last_login, by name.
SignIn(p) ==
  /\ "sign_in" \in Kinds /\ SignsIn(p) /\ stamp + UnderWay(SetsPassword) < MaxStamp
  /\ \A v \in Workers : p \notin job[v].held
  /\ users' = [users EXCEPT ![p].last_login = stamp + 1]
  /\ stamp' = stamp + 1
  /\ UNCHANGED <<now, links, job>>

WaitsFor(w) ==
  CASE At(w, "locking") -> {v \in Workers \ {w} : job[v].held \intersect Lockable(w) # {}}
    [] At(w, "writing") \/ At(w, "linking") -> {v \in Workers \ {w} : job[w].person \in job[v].held}
    [] OTHER -> {}

\* A slip: nobody looks for deadlocks.
NeverInDeadlock(w) == FALSE

\* An account that has lost the role is not among the administrators, so it
\* is locked out of order, by its being saved: requests can wait in a circle.
InDeadlock(w) ==
  /\ WaitsFor(w) # {}
  /\ \E n \in 1..Cardinality(Workers) : \E f \in [1..n -> Workers] :
       /\ f[1] = w
       /\ \A i \in 1..(n - 1) : f[i + 1] \in WaitsFor(f[i])
       /\ w \in WaitsFor(f[n])

\* The database ends one of them.
Deadlocked(w) ==
  /\ InDeadlock(w)
  /\ AnswerIdle(w)
  /\ UNCHANGED <<now, stamp, users, links>>

\* A worker is killed: its transaction is rolled back.
Crash(w) ==
  /\ ~At(w, "idle") /\ "crash" \in Kinds
  /\ AnswerIdle(w)
  /\ UNCHANGED <<now, stamp, users, links>>

Tick ==
  /\ now < LastInstant
  /\ now' = now + 1
  /\ UNCHANGED <<stamp, users, links, job>>

-----------------------------------------------------------------------------
Init ==
  /\ now = 0 /\ stamp = 1
  /\ users = [p \in People |->
       IF p \in DOMAIN InitialRoles
       THEN WithRole([NoUser EXCEPT !.exists = TRUE, !.is_active = TRUE, !.email = <<p, "a">>,
                                    !.password = 1], InitialRoles[p])
       ELSE NoUser]
  /\ links = {}
  /\ job = [w \in Workers |-> Idle]

Ask(w) ==
  \/ \E actor, p \in People :
       \/ \E role \in Grantable : AskRole(w, actor, p, role)
       \/ \E a \in Addresses, active, staff, super \in BOOLEAN :
            AskAdminSite(w, actor, p, a, active, staff, super)
       \/ AskAdminPassword(w, actor, p)
       \/ \E a \in Addresses : AskAdminAdd(w, actor, p, a)
       \/ \E a \in Addresses, staff \in BOOLEAN : AskInvite(w, actor, p, a, staff)
       \/ AskResend(w, actor, p)
  \/ \E p \in People : (\E a \in Addresses : AskProfile(w, p, a)) \/ AskPassword(w, p) \/ AskReset(w, p)
  \/ \E l \in links : AskUse(w, l)

GoOn(w) ==
  FindAdmins(w) \/ LockAdmin(w) \/ DecideRole(w) \/ Write(w) \/ Insert(w) \/ HandOutLink(w)
    \/ Deadlocked(w)

Next ==
  \/ \E w \in Workers : Ask(w) \/ GoOn(w) \/ Crash(w)
  \/ \E w \in Workers, actor, p \in People : AdminDelete(w, actor, p)
  \/ \E p \in People : SignIn(p)
  \/ Tick

Spec == Init /\ [][Next]_vars

\* The server runs every request on, and the database grants a lock in the
\* order in which it was asked for, so nobody waits for it again and again.
Fairness == \A w \in Workers : SF_vars(GoOn(w))

-----------------------------------------------------------------------------
(* Properties *)

TypeOK ==
  /\ now \in 0..LastInstant /\ stamp \in 0..MaxStamp
  /\ users \in [People -> User] /\ links \subseteq Link
  /\ \A w \in Workers :
       /\ job[w].pc \in {"idle", "counting", "locking", "writing", "inserting", "linking"}
       /\ job[w].person \in People /\ job[w].row \in User /\ job[w].wanted \in User
       /\ job[w].scan \subseteq People /\ job[w].held \subseteq People

\* change_role's promise: however many administrators demote each other at
\* the same time, one who can sign in remains.
AlwaysAnAdmin == \E p \in People : IsAdmin(p)

Flags(p) == <<users[p].is_active, users[p].is_staff, users[p].is_superuser>>

\* What somebody may do changes only when a role is given, on the admin site,
\* or by invitation: saving one's own details, a password or a link never
\* gives or takes a right ("neither of those is theirs to grant").
RightsAreGranted ==
  \A p \in People : Flags(p)' # Flags(p) =>
    \/ users[p].exists # users'[p].exists
    \/ \E w \in Workers : job[w].kind \in {"role", "admin"} /\ job[w].person = p
                          /\ job'[w].pc = "idle"

Accepting(w) == job[w].kind = "accept" /\ At(w, "writing") /\ stamp' # stamp /\ job'[w].pc = "idle"

\* "the link stops working the moment the invitee sets a password": an
\* invitation link never replaces a password that has been set, by whatever
\* page it was.
NeverReplacesPassword ==
  \A w \in Workers : Accepting(w) => users[job[w].person].password = Unusable

\* Administrators are only demoted: nobody is given the role, and no form that
\* saves a whole row as it was read is sent (MCAccounts shows what both can do).
OnlyDemotions ==
  /\ Kinds \subseteq {"role", "invite", "resend", "reset", "sign_in", "crash"}
  /\ Grantable \subseteq {"coach", "team"}
  /\ \E p \in DOMAIN InitialRoles : InitialRoles[p] = "admin"

\* A link belongs to one mailbox: two accounts never share one in two
\* spellings, so nobody's sign-in or link is ambiguous.
OneAccountPerAddress ==
  \A p, q \in People : p # q /\ users[p].exists /\ users[q].exists =>
    Mailbox(users[p].email) # Mailbox(users[q].email)
=============================================================================
