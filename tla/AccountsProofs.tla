--------------------------- MODULE AccountsProofs ---------------------------
(***************************************************************************)
(* Proofs about accounts and what they own, for any number of them.        *)
(*                                                                         *)
(* An administrator remains, however many administrators demote each other *)
(* at the same time; and one request at a time gives nobody a right,       *)
(* replaces no password by an invitation and leaves every mailbox to one   *)
(* account.  What one account owns comes after that, each component with   *)
(* its own rows and requests: its profiles, rosters and seasons            *)
(* (Ownership), the free trades of all its rosters (PayAll), and its marks *)
(* and notes on a player (Marks).                                          *)
(***************************************************************************)
EXTENDS Accounts, FiniteSetTheorems, WellFoundedInduction, TLAPS

\* There is an account to begin with.
Peopled == AccountConstants /\ IsFiniteSet(People) /\ DOMAIN InitialRoles # {}

\* What the first theorem is about.
Demoting == AccountConstants /\ OnlyDemotions /\ IsFiniteSet(People)

-----------------------------------------------------------------------------
(* The inductive invariant *)

Row == [exists : BOOLEAN, email : Addresses, is_active : BOOLEAN, is_staff : BOOLEAN,
        is_superuser : BOOLEAN, password : Nat, last_login : Nat]

Job == [pc : {"idle", "counting", "locking", "writing", "inserting", "linking"},
        kind : Kinds \union {"none"}, person : People, row : Row, wanted : Row,
        scan : SUBSET People, held : SUBSET People]

Shape ==
  /\ users \in [People -> Row] /\ stamp \in Nat
  /\ job \in [Workers -> Job]

\* Whoever has the role can sign in, so the demotion's query finds everybody who
\* has it.
SuperusersSignIn ==
  \A p \in People : users[p].is_superuser =>
    users[p].exists /\ users[p].is_active /\ users[p].password # Unusable

\* A request that is not only a link: what it is going to save gives nobody the
\* role and overwrites no administrator with a new account; the administrators it
\* has found and locked are administrators still; and a demotion about to be
\* written leaves another administrator, whom it has locked.
JobFits(j) ==
  /\ j.pc \notin {"idle", "linking"} => ~j.wanted.is_superuser
  /\ j.pc \in {"counting", "locking", "writing"} => j.kind = "role"
  /\ j.pc = "inserting" => j.kind = "invite" /\ ~users[j.person].is_superuser
  /\ j.pc = "locking" => \A q \in j.scan \intersect j.held : users[q].is_superuser
  /\ j.pc = "writing" => \/ ~users[j.person].is_superuser
                         \/ \E q \in j.held \ {j.person} : users[q].is_superuser

JobsFit == \A w \in Workers : JobFits(job[w])

OneRemains == \E p \in People : users[p].is_superuser

AccountsInv ==
  /\ Shape /\ SuperusersSignIn /\ JobsFit /\ OneRemains

-----------------------------------------------------------------------------
(* The first state *)

LEMMA DemotingPeopled ==
  ASSUME Demoting
  PROVE  Peopled
<1>1. PICK p \in DOMAIN InitialRoles : InitialRoles[p] = "admin"
  BY DEF Demoting, OnlyDemotions
<1> QED BY <1>1 DEF Demoting, Peopled

LEMMA SomebodyThere ==
  ASSUME Peopled
  PROVE  1 \in People /\ NoUser \in Row /\ Idle \in Job /\ ~NoUser.is_superuser
<1>1. PICK p \in DOMAIN InitialRoles : TRUE
  BY DEF Peopled
<1>2. p \in 1..Cardinality(People) /\ <<p, "a">> \in Addresses
  BY <1>1 DEF Peopled, AccountConstants
<1>3. Cardinality(People) \in Nat
  BY FS_CardinalityType DEF Peopled
<1>4. 1 \in People
  BY <1>2, <1>3 DEF Peopled, AccountConstants
<1>5. (CHOOSE a \in Addresses : TRUE) \in Addresses
  BY <1>2
<1>6. NoUser \in Row /\ ~NoUser.is_superuser
  BY <1>5 DEF NoUser, Row, Unusable
<1>7. Idle \in Job
  <2>1. Idle.scan \in SUBSET People /\ Idle.held \in SUBSET People
    BY DEF Idle
  <2> QED BY <1>4, <1>6, <2>1 DEF Idle, Job
<1> QED BY <1>4, <1>6, <1>7

LEMMA FirstRow ==
  ASSUME NEW first \in Row, NEW role \in Roles
  PROVE  /\ WithRole(first, role) \in Row
         /\ WithRole(first, role).exists = first.exists
         /\ WithRole(first, role).is_active = first.is_active
         /\ WithRole(first, role).password = first.password
         /\ WithRole(first, role).email = first.email
         /\ WithRole(first, role).is_superuser <=> role = "admin"
<1>1. (role \in {"team", "admin"}) \in BOOLEAN /\ (role = "admin") \in BOOLEAN
  OBVIOUS
<1>2. WithRole(first, role) \in Row
  BY <1>1 DEF WithRole, Row
<1> QED BY <1>2 DEF WithRole, Row

\* The accounts there are at first.
LEMMA FirstRows ==
  ASSUME Peopled, Init
  PROVE  /\ Shape
         /\ \A p \in People \ DOMAIN InitialRoles : users[p] = NoUser
         /\ \A p \in DOMAIN InitialRoles :
              /\ p \in People /\ users[p].exists /\ users[p].is_active /\ users[p].password = 1
              /\ users[p].email = <<p, "a">>
              /\ users[p].is_superuser <=> InitialRoles[p] = "admin"
<1> DEFINE first(p) == [NoUser EXCEPT !.exists = TRUE, !.is_active = TRUE, !.email = <<p, "a">>,
                                      !.password = 1]
<1>1. NoUser \in Row /\ Idle \in Job
  BY SomebodyThere
<1>2. \A p \in DOMAIN InitialRoles :
        /\ p \in People /\ InitialRoles[p] \in Roles
        /\ first(p) \in Row /\ first(p).exists /\ first(p).is_active /\ first(p).password = 1
        /\ first(p).email = <<p, "a">>
  BY <1>1 DEF Peopled, AccountConstants, Row
<1> HIDE DEF first
<1>3. \A p \in People : users[p] = IF p \in DOMAIN InitialRoles
                                   THEN WithRole(first(p), InitialRoles[p]) ELSE NoUser
  BY DEF Init, first
<1>4. \A p \in People : users[p] \in Row
  BY <1>1, <1>2, <1>3, FirstRow
<1>5. Shape
  <2>1. users \in [People -> Row]
    BY <1>4 DEF Init
  <2> QED BY <1>1, <2>1 DEF Init, Shape
<1> QED BY <1>2, <1>3, <1>5, FirstRow

LEMMA InitInv ==
  ASSUME Demoting, Init
  PROVE  AccountsInv
<1>1. Peopled /\ ~NoUser.is_superuser
  BY DemotingPeopled, SomebodyThere
<1>2. SuperusersSignIn
  BY <1>1, FirstRows DEF SuperusersSignIn, Unusable
<1>3. OneRemains
  <2>1. PICK p \in DOMAIN InitialRoles : InitialRoles[p] = "admin"
    BY DEF Demoting, OnlyDemotions
  <2> QED BY <1>1, <2>1, FirstRows DEF OneRemains
<1>4. JobsFit
  BY DEF Init, Idle, JobsFit, JobFits
<1> QED BY <1>1, <1>2, <1>3, <1>4, FirstRows DEF AccountsInv

-----------------------------------------------------------------------------
(* Steps in general *)

\* A request goes on without touching the accounts.
LEMMA JobStep ==
  ASSUME AccountsInv, NEW w \in Workers, NEW j \in Job, JobFits(j),
         UNCHANGED <<users, stamp>>, job' = [job EXCEPT ![w] = j]
  PROVE  AccountsInv'
<1>1. Shape'
  BY DEF AccountsInv, Shape
<1>2. \A v \in Workers : job'[v] = IF v = w THEN j ELSE job[v]
  BY DEF AccountsInv, Shape
<1>3. JobsFit'
  BY <1>2 DEF AccountsInv, JobsFit, JobFits
<1>4. SuperusersSignIn' /\ OneRemains'
  BY DEF AccountsInv, SuperusersSignIn, OneRemains
<1> QED BY <1>1, <1>3, <1>4 DEF AccountsInv

\* Accounts change, nobody gains the role, and those who have it and are locked
\* keep it.
LEMMA UsersStep ==
  ASSUME AccountsInv, Idle \in Job, stamp' \in Nat, users' \in [People -> Row],
         job' \in [Workers -> Job],
         \A v \in Workers : job'[v] = job[v] \/ job'[v] = Idle,
         \A p \in People : users'[p].is_superuser =>
           /\ users[p].is_superuser
           /\ users'[p].exists /\ users'[p].is_active /\ users'[p].password # Unusable,
         \A v \in Workers : job'[v] = job[v] =>
           \A q \in job[v].held : users[q].is_superuser => users'[q].is_superuser,
         OneRemains'
  PROVE  AccountsInv'
<1>1. Shape' /\ SuperusersSignIn'
  BY DEF Shape, SuperusersSignIn
<1>2. JobsFit'
  <2> SUFFICES ASSUME NEW v \in Workers PROVE JobFits(job[v])'
    BY DEF JobsFit
  <2>1. CASE job'[v] = Idle
    BY <2>1 DEF JobFits, Idle
  <2>2. CASE job'[v] = job[v]
    <3>1. JobFits(job[v]) /\ job[v] \in Job
      BY DEF AccountsInv, JobsFit, Shape
    <3> QED BY <2>2, <3>1 DEF JobFits, Job
  <2> QED BY <2>1, <2>2
<1> QED BY <1>1, <1>2 DEF AccountsInv

-----------------------------------------------------------------------------
(* Each step *)

\* A request that is asked for.
LEMMA AskedKeeps ==
  ASSUME Demoting, AccountsInv, NEW w \in Workers, NEW p \in People, NEW pc, NEW kind,
         NEW wanted \in Row, Asked(w, pc, kind, p, wanted),
         pc \in {"counting", "writing", "inserting", "linking"},
         pc # "linking" => ~wanted.is_superuser,
         pc \in {"counting", "writing"} => kind = "role",
         pc = "inserting" => kind = "invite" /\ ~users[p].is_superuser,
         pc = "writing" => ~users[p].is_superuser
  PROVE  AccountsInv'
<1> DEFINE j == [Idle EXCEPT !.pc = pc, !.kind = kind, !.person = p,
                             !.row = users[p], !.wanted = wanted]
<1>1. users[p] \in Row /\ kind \in Kinds
  BY DEF AccountsInv, Shape, Asked
<1>2. j \in Job
  BY <1>1, SomebodyThere, DemotingPeopled DEF Job
<1>3. /\ j.pc = pc /\ j.kind = kind /\ j.person = p /\ j.wanted = wanted
  BY DEF Idle
<1>4. JobFits(j)
  BY <1>3 DEF JobFits
<1>5. UNCHANGED <<users, stamp>> /\ job' = [job EXCEPT ![w] = j]
  BY DEF Asked
<1> QED BY <1>2, <1>4, <1>5, JobStep

LEMMA RoleRow ==
  ASSUME NEW row \in Row, NEW role \in {"coach", "team"}
  PROVE  WithRole(row, role) \in Row /\ ~WithRole(row, role).is_superuser
BY FirstRow DEF Roles

LEMMA NewRow ==
  ASSUME Demoting, NEW a \in Addresses, NEW staff \in BOOLEAN
  PROVE  LET row == [NoUser EXCEPT !.exists = TRUE, !.is_active = TRUE, !.email = a, !.is_staff = staff]
         IN row \in Row /\ ~row.is_superuser
BY SomebodyThere, DemotingPeopled DEF NoUser, Row

\* Of the requests that are asked for, those about a role, an invitation or a
\* link are made.
LEMMA AskKeeps ==
  ASSUME Demoting, AccountsInv, NEW w \in Workers, Ask(w)
  PROVE  AccountsInv'
<1> USE DEF Demoting
<1>1. \A p \in People : users[p] \in Row
  BY DEF AccountsInv, Shape
<1>2. Kinds \subseteq {"role", "invite", "resend", "reset", "sign_in", "crash"}
  BY DEF OnlyDemotions
<1>3. ASSUME NEW actor \in People, NEW p \in People, NEW role \in Grantable,
             AskRole(w, actor, p, role)
      PROVE  AccountsInv'
  <2>1. role \in {"coach", "team"}
    BY <1>3 DEF OnlyDemotions
  <2>2. WithRole(users[p], role) \in Row /\ ~WithRole(users[p], role).is_superuser
    BY <1>1, <2>1, RoleRow
  <2>3. PlanForRole(users[p], role) = IF users[p].is_superuser THEN "counting" ELSE "writing"
    BY <2>1 DEF PlanForRole
  <2>4. Asked(w, PlanForRole(users[p], role), "role", p, WithRole(users[p], role))
    BY <1>3 DEF AskRole
  <2> QED BY <2>2, <2>3, <2>4, AskedKeeps
<1>4. ASSUME NEW actor \in People, NEW p \in People, NEW a \in Addresses, NEW staff \in BOOLEAN,
             AskInvite(w, actor, p, a, staff)
      PROVE  AccountsInv'
  <2> DEFINE row == [NoUser EXCEPT !.exists = TRUE, !.is_active = TRUE, !.email = a, !.is_staff = staff]
  <2>1. row \in Row /\ ~row.is_superuser
    BY NewRow
  <2>2. ~users[p].is_superuser
    BY <1>4 DEF AskInvite, NewAccount, AccountsInv, SuperusersSignIn
  <2>3. Asked(w, "inserting", "invite", p, row)
    BY <1>4 DEF AskInvite
  <2> HIDE DEF row
  <2> QED BY <2>1, <2>2, <2>3, AskedKeeps
<1>5. ASSUME NEW p \in People, NEW kind, Asked(w, "linking", kind, p, users[p])
      PROVE  AccountsInv'
  BY <1>1, <1>5, AskedKeeps
<1>6. \A pc, p, wanted :
        /\ ~Asked(w, pc, "profile", p, wanted) /\ ~Asked(w, pc, "password", p, wanted)
        /\ ~Asked(w, pc, "admin", p, wanted) /\ ~Asked(w, pc, "admin_password", p, wanted)
        /\ ~Asked(w, pc, "admin_add", p, wanted) /\ ~Asked(w, pc, "accept", p, wanted)
        /\ ~Asked(w, pc, "reset_confirm", p, wanted)
  BY <1>2 DEF Asked
<1>7. \A p \in People :
        /\ \A a \in Addresses : ~AskProfile(w, p, a)
        /\ ~AskPassword(w, p)
        /\ \A actor \in People :
             /\ ~AskAdminPassword(w, actor, p)
             /\ \A a \in Addresses : ~AskAdminAdd(w, actor, p, a)
             /\ \A a \in Addresses, active, staff, super \in BOOLEAN :
                  ~AskAdminSite(w, actor, p, a, active, staff, super)
  BY ZenonT(60), <1>6 DEF AskProfile, AskPassword, AskAdminPassword, AskAdminAdd, AskAdminSite
<1>8. \A l \in links : ~AskUse(w, l)
  BY <1>6 DEF AskUse
<1>9. ASSUME NEW p \in People, AskReset(w, p)
      PROVE  AccountsInv'
  BY <1>5, <1>9 DEF AskReset
<1>10. ASSUME NEW actor \in People, NEW p \in People, AskResend(w, actor, p)
       PROVE  AccountsInv'
  BY <1>5, <1>10 DEF AskResend
<1> QED BY <1>3, <1>4, <1>7, <1>8, <1>9, <1>10 DEF Ask

LEMMA AdminsAreSuperusers ==
  ASSUME AccountsInv
  PROVE  Admins = {p \in People : users[p].is_superuser}
BY DEF AccountsInv, SuperusersSignIn, Admins

LEMMA EndKeeps ==
  ASSUME Demoting, AccountsInv, NEW w \in Workers, UNCHANGED <<users, stamp>>, AnswerIdle(w)
  PROVE  AccountsInv'
<1>1. Idle \in Job
  BY SomebodyThere, DemotingPeopled
<1>2. JobFits(Idle)
  BY DEF JobFits, Idle
<1> QED BY <1>1, <1>2, JobStep DEF AnswerIdle

LEMMA FindAdminsKeeps ==
  ASSUME Demoting, AccountsInv, NEW w \in Workers, FindAdmins(w)
  PROVE  AccountsInv'
<1> DEFINE j == [job[w] EXCEPT !.pc = "locking", !.scan = Admins]
<1>1. job[w] \in Job /\ JobFits(job[w]) /\ job[w].pc = "counting"
  BY DEF AccountsInv, Shape, JobsFit, FindAdmins, At
<1>2. Admins \subseteq People
  BY DEF Admins
<1>3. j \in Job /\ j.pc = "locking" /\ j.scan = Admins /\ j.held = job[w].held
      /\ j.kind = job[w].kind /\ j.wanted = job[w].wanted
  BY <1>1, <1>2 DEF Job
<1>4. JobFits(j)
  BY <1>1, <1>3, AdminsAreSuperusers DEF JobFits
<1>5. job' = [job EXCEPT ![w] = j] /\ UNCHANGED <<users, stamp>>
  BY DEF FindAdmins, AccountsInv, Shape
<1> QED BY <1>3, <1>4, <1>5, JobStep

LEMMA LockAdminKeeps ==
  ASSUME Demoting, AccountsInv, NEW w \in Workers, LockAdmin(w)
  PROVE  AccountsInv'
<1>1. PICK p \in Lockable(w) \ HeldByOthers(w) :
        job' = [job EXCEPT ![w].held = @ \union {p},
                           ![w].scan = IF StillFound(p) THEN @ ELSE @ \ {p}]
  BY DEF LockAdmin
<1> DEFINE j == [job[w] EXCEPT !.held = @ \union {p},
                               !.scan = IF StillFound(p) THEN @ ELSE @ \ {p}]
<1>2. job[w] \in Job /\ JobFits(job[w]) /\ job[w].pc = "locking"
  BY DEF AccountsInv, Shape, JobsFit, LockAdmin, At
<1>3. p \in People
  BY <1>1, <1>2 DEF Lockable, Job
<1>4. /\ j \in Job /\ j.pc = "locking" /\ j.held = job[w].held \union {p}
      /\ j.scan = IF p \in Admins THEN job[w].scan ELSE job[w].scan \ {p}
      /\ j.kind = job[w].kind /\ j.wanted = job[w].wanted
  BY <1>2, <1>3 DEF Job, StillFound
<1>5. JobFits(j)
  BY <1>2, <1>4, AdminsAreSuperusers DEF JobFits
<1>6. job' = [job EXCEPT ![w] = j] /\ UNCHANGED <<users, stamp>>
  BY <1>1 DEF LockAdmin, AccountsInv, Shape
<1> QED BY <1>4, <1>5, <1>6, JobStep

\* The heart of it: whoever goes on has found, and locked, somebody else.
LEMMA DecideRoleKeeps ==
  ASSUME Demoting, AccountsInv, NEW w \in Workers, DecideRole(w)
  PROVE  AccountsInv'
<1>1. job[w] \in Job /\ JobFits(job[w]) /\ job[w].pc = "locking" /\ job[w].scan \subseteq job[w].held
  BY DEF AccountsInv, Shape, JobsFit, DecideRole, At
<1>2. UNCHANGED <<users, stamp>>
  BY DEF DecideRole
<1>3. CASE job[w].scan \ {job[w].person} = {}
  BY <1>2, <1>3, EndKeeps DEF DecideRole, AnswerIdle
<1>4. CASE job[w].scan \ {job[w].person} # {}
  <2> DEFINE j == [job[w] EXCEPT !.pc = "writing"]
  <2>1. j \in Job /\ j.pc = "writing" /\ j.held = job[w].held /\ j.person = job[w].person
        /\ j.kind = job[w].kind /\ j.wanted = job[w].wanted
    BY <1>1 DEF Job
  <2>2. PICK q \in job[w].scan : q # job[w].person
    BY <1>4
  <2>3. q \in job[w].held /\ users[q].is_superuser
    BY <1>1, <2>2 DEF JobFits
  <2>4. job[w].kind = "role"
    BY <1>1 DEF JobFits
  <2>5. JobFits(j)
    BY <1>1, <2>1, <2>2, <2>3, <2>4 DEF JobFits
  <2>6. job' = [job EXCEPT ![w] = j]
    BY <1>4 DEF DecideRole, AccountsInv, Shape
  <2> QED BY <1>2, <2>1, <2>5, <2>6, JobStep
<1> QED BY <1>3, <1>4

\* The demotion is written.  It leaves the administrator it has locked, or takes
\* the role from somebody who no longer has it.
LEMMA WriteKeeps ==
  ASSUME Demoting, AccountsInv, NEW w \in Workers, Write(w)
  PROVE  AccountsInv'
<1> DEFINE p == job[w].person
           row == [users[p] EXCEPT !.is_staff = job[w].wanted.is_staff,
                                   !.is_superuser = job[w].wanted.is_superuser]
<1>1. /\ job[w] \in Job /\ JobFits(job[w]) /\ job[w].pc = "writing" /\ p \notin HeldByOthers(w)
      /\ users \in [People -> Row] /\ stamp \in Nat /\ job \in [Workers -> Job]
  BY DEF AccountsInv, Shape, JobsFit, Write, At
<1>2. job[w].kind = "role" /\ ~job[w].wanted.is_superuser /\ p \in People /\ job[w].wanted \in Row
  BY <1>1 DEF JobFits, Job
<1>3. stamp' = stamp /\ job' = [job EXCEPT ![w] = Idle]
  BY <1>2 DEF Write, SetsPassword, AnswerIdle
<1>4. Saved(w) = row
  <2>1. job[w].kind # "accept" /\ job[w].kind \notin SetsPassword \ {"accept"}
    BY <1>2 DEF SetsPassword
  <2> QED BY <1>2, <2>1, SMT DEF Saved
<1>5. users' = IF users[p].exists THEN [users EXCEPT ![p] = row] ELSE users
  BY <1>2, <1>4 DEF Write
<1>6. CASE ~users[p].exists
  BY <1>3, <1>5, <1>6, EndKeeps DEF AnswerIdle
<1>7. CASE users[p].exists
  <2>1. row \in Row /\ ~row.is_superuser
    BY <1>1, <1>2 DEF Row
  <2> HIDE DEF row
  <2>2. users' = [users EXCEPT ![p] = row]
    BY <1>5, <1>7
  <2>3. users' \in [People -> Row]
    BY <1>1, <1>2, <2>1, <2>2
  <2>4. Idle \in Job
    BY SomebodyThere, DemotingPeopled
  <2>5. job' \in [Workers -> Job] /\ \A v \in Workers : job'[v] = IF v = w THEN Idle ELSE job[v]
    BY <1>1, <1>3, <2>4
  <2>6. \A q \in People : users'[q] = IF q = p THEN row ELSE users[q]
    BY <1>1, <2>2
  <2> HIDE DEF p
  <2>7. \A q \in People : users'[q].is_superuser =>
          /\ users[q].is_superuser
          /\ users'[q].exists /\ users'[q].is_active /\ users'[q].password # Unusable
    BY <2>1, <2>6 DEF AccountsInv, SuperusersSignIn
  <2>8. ASSUME NEW v \in Workers, job'[v] = job[v], NEW q \in job[v].held, users[q].is_superuser
        PROVE  users'[q].is_superuser
    <3>1. q \in People
      BY <1>1 DEF Job
    <3>2. CASE v = w
      BY <1>1, <2>5, <2>8, <3>2 DEF Idle
    <3>3. CASE v # w
      <4>1. q # p
        BY <1>1, <3>3 DEF HeldByOthers, p
      <4> QED BY <2>6, <2>8, <3>1, <4>1
    <3> QED BY <3>2, <3>3
  <2>9. OneRemains'
    <3>1. PICK q \in People : users[q].is_superuser /\ q # p
      <4>1. CASE users[p].is_superuser
        <5>1. PICK q \in job[w].held \ {p} : users[q].is_superuser
          BY <1>1, <4>1 DEF JobFits, p
        <5> QED BY <1>1, <5>1 DEF Job
      <4>2. CASE ~users[p].is_superuser
        BY <4>2 DEF AccountsInv, OneRemains
      <4> QED BY <4>1, <4>2
    <3> QED BY <2>6, <3>1 DEF OneRemains
  <2>10. stamp' \in Nat
    BY <1>1, <1>3
  <2>11. \A v \in Workers : job'[v] = job[v] \/ job'[v] = Idle
    BY <2>5
  <2> QED BY <2>3, <2>4, <2>5, <2>7, <2>8, <2>9, <2>10, <2>11, UsersStep
<1> QED BY <1>6, <1>7

LEMMA InsertKeeps ==
  ASSUME Demoting, AccountsInv, NEW w \in Workers, Insert(w)
  PROVE  AccountsInv'
<1> DEFINE p == job[w].person
           row == job[w].wanted
<1>1. /\ job[w] \in Job /\ JobFits(job[w]) /\ job[w].pc = "inserting"
      /\ users \in [People -> Row] /\ stamp \in Nat /\ job \in [Workers -> Job]
  BY DEF AccountsInv, Shape, JobsFit, Insert, At
<1>2. /\ job[w].kind = "invite" /\ ~row.is_superuser /\ ~users[p].is_superuser
      /\ p \in People /\ row \in Row
  BY <1>1 DEF JobFits, Job
<1>3. stamp' = stamp /\ job' = [job EXCEPT ![w] = Idle]
  BY <1>2 DEF Insert, AnswerIdle
<1>4. Saved(w) = row
  <2>1. /\ job[w].kind # "role" /\ job[w].kind # "accept"
        /\ job[w].kind \notin SetsPassword \ {"accept"}
    BY <1>2 DEF SetsPassword
  <2> QED BY <2>1, Zenon DEF Saved
<1>5. users' = users \/ users' = [users EXCEPT ![p] = row]
  BY <1>4 DEF Insert
<1>6. CASE users' = users
  BY <1>3, <1>6, EndKeeps DEF AnswerIdle
<1>7. CASE users' = [users EXCEPT ![p] = row]
  <2>1. users' \in [People -> Row]
    BY <1>1, <1>2, <1>7
  <2>2. Idle \in Job
    BY SomebodyThere, DemotingPeopled
  <2>3. job' \in [Workers -> Job] /\ \A v \in Workers : job'[v] = job[v] \/ job'[v] = Idle
    BY <1>1, <1>3, <2>2
  <2>4. \A q \in People : users'[q] = IF q = p THEN row ELSE users[q]
    BY <1>1, <1>7
  <2> HIDE DEF p, row
  <2>5. \A q \in People : users'[q].is_superuser =>
          /\ users[q].is_superuser
          /\ users'[q].exists /\ users'[q].is_active /\ users'[q].password # Unusable
    BY <1>2, <2>4 DEF AccountsInv, SuperusersSignIn
  <2>6. \A q \in People : users[q].is_superuser => users'[q].is_superuser
    BY <1>2, <2>4
  <2>7. \A v \in Workers : \A q \in job[v].held : q \in People
    BY <1>1 DEF Job
  <2>8. OneRemains'
    BY <2>6 DEF AccountsInv, OneRemains
  <2>9. stamp' \in Nat
    BY <1>1, <1>3
  <2> QED BY <2>1, <2>2, <2>3, <2>5, <2>6, <2>7, <2>8, <2>9, UsersStep
<1> QED BY <1>5, <1>6, <1>7

LEMMA SignInKeeps ==
  ASSUME Demoting, AccountsInv, NEW p \in People, SignIn(p)
  PROVE  AccountsInv'
<1>1. users \in [People -> Row] /\ stamp \in Nat /\ job \in [Workers -> Job]
  BY DEF AccountsInv, Shape
<1>2. stamp' = stamp + 1 /\ job' = job /\ users' = [users EXCEPT ![p].last_login = stamp + 1]
  BY DEF SignIn
<1>3. users' \in [People -> Row]
  BY <1>1, <1>2 DEF Row
<1>4. \A q \in People :
        /\ users'[q].is_superuser = users[q].is_superuser /\ users'[q].exists = users[q].exists
        /\ users'[q].is_active = users[q].is_active /\ users'[q].password = users[q].password
  BY <1>1, <1>2 DEF Row
<1>5. \A v \in Workers : \A q \in job[v].held : q \in People
  BY <1>1 DEF Job
<1>6. \A q \in People : users'[q].is_superuser =>
        /\ users[q].is_superuser
        /\ users'[q].exists /\ users'[q].is_active /\ users'[q].password # Unusable
  BY <1>4 DEF AccountsInv, SuperusersSignIn
<1>7. OneRemains'
  BY <1>4 DEF AccountsInv, OneRemains
<1>8. stamp' \in Nat /\ job' \in [Workers -> Job] /\ \A v \in Workers : job'[v] = job[v]
  BY <1>1, <1>2
<1> QED BY <1>3, <1>4, <1>5, <1>6, <1>7, <1>8, SomebodyThere, DemotingPeopled, UsersStep

-----------------------------------------------------------------------------
(* The theorem *)

LEMMA NextKeeps ==
  ASSUME Demoting, AccountsInv, [Next]_vars
  PROVE  AccountsInv'
<1>1. ASSUME NEW w \in Workers, Ask(w)
      PROVE  AccountsInv'
  BY <1>1, AskKeeps
<1>2. ASSUME NEW w \in Workers, GoOn(w)
      PROVE  AccountsInv'
  <2>1. CASE HandOutLink(w)
    BY <2>1, EndKeeps DEF HandOutLink
  <2>2. CASE Deadlocked(w)
    BY <2>2, EndKeeps DEF Deadlocked
  <2> QED BY <1>2, <2>1, <2>2, FindAdminsKeeps, LockAdminKeeps, DecideRoleKeeps, WriteKeeps,
             InsertKeeps DEF GoOn
<1>3. ASSUME NEW w \in Workers, Crash(w)
      PROVE  AccountsInv'
  BY <1>3, EndKeeps DEF Crash
<1>4. \A w \in Workers, actor, p \in People : ~AdminDelete(w, actor, p)
  BY DEF AdminDelete, Demoting, OnlyDemotions
<1>5. CASE Tick \/ UNCHANGED vars
  <2>1. UNCHANGED <<users, stamp, job>>
    BY <1>5 DEF Tick, vars
  <2> QED BY <2>1 DEF AccountsInv, Shape, SuperusersSignIn, JobsFit, JobFits, OneRemains
<1> QED BY <1>1, <1>2, <1>3, <1>4, <1>5, SignInKeeps DEF Next

LEMMA OneSignsIn ==
  ASSUME AccountsInv
  PROVE  AlwaysAnAdmin
BY DEF AccountsInv, OneRemains, SuperusersSignIn, AlwaysAnAdmin, IsAdmin, SignsIn

\* change_role's promise (accounts/services.py:62): as long as administrators are
\* only demoted, one who can sign in remains, for any number of accounts and of
\* requests that run side by side.
THEOREM AnAdminRemains == Demoting => (Spec => []AlwaysAnAdmin)
<1> SUFFICES ASSUME Demoting PROVE Spec => []AlwaysAnAdmin
  OBVIOUS
<1>1. Init => AccountsInv
  BY InitInv
<1>2. AccountsInv /\ [Next]_vars => AccountsInv'
  BY NextKeeps
<1>3. AccountsInv => AlwaysAnAdmin
  BY OneSignsIn
<1> QED BY <1>1, <1>2, <1>3, PTL DEF Spec

-----------------------------------------------------------------------------
(* One request at a time.  Between the reading and the writing of a request *)
(* there are only sign-ins, which stamp the accounts by name: whatever is   *)
(* saved is what was read, and still fits.                                  *)

OneAtATime == Peopled /\ \A v, w \in Workers : v = w

\* The admin site edits and adds accounts with a look at the exact spelling only.
NoAdminSite == Kinds \intersect {"admin", "admin_add"} = {}

\* An invitation is for an account without a password.
LinksFit ==
  \A l \in links : l.user \in People /\ (l.kind = "invitation" => l.password = Unusable)

OneEach == NoAdminSite => OneAccountPerAddress

\* What is going to be saved keeps the rights of the account it was read from,
\* unless it is about them; nothing has happened to the account in between; and
\* nobody else has got the address.
JobStillFits(j) ==
  /\ j.pc \in {"counting", "locking"} => j.kind = "role"
  /\ j.pc = "inserting" => /\ j.kind \in {"invite", "admin_add"}
                           /\ ~users[j.person].exists
                           /\ j.wanted.exists /\ j.wanted.password = Unusable
  /\ j.pc = "linking" => (j.kind = "resend" => j.row.password = Unusable)
  /\ j.pc = "writing" =>
       /\ j.kind \notin {"role", "admin"} =>
            /\ j.wanted.is_active = users[j.person].is_active
            /\ j.wanted.is_staff = users[j.person].is_staff
            /\ j.wanted.is_superuser = users[j.person].is_superuser
       /\ j.kind = "accept" => users[j.person].password = Unusable
  /\ j.pc \in {"writing", "inserting"} /\ j.kind # "role" /\ NoAdminSite =>
       ~Taken(j.wanted.email, j.person)

AloneInv == Shape /\ LinksFit /\ OneEach /\ \A w \in Workers : JobStillFits(job[w])

StepGrants == RightsAreGranted /\ NeverReplacesPassword

-----------------------------------------------------------------------------
(* Steps in general *)

\* Nothing but a request changes.
LEMMA JobStepAlone ==
  ASSUME AloneInv, NEW w \in Workers, NEW j \in Job, JobStillFits(j),
         UNCHANGED <<users, stamp, links>>, job' = [job EXCEPT ![w] = j]
  PROVE  AloneInv' /\ StepGrants
<1>1. Shape' /\ \A v \in Workers : job'[v] = IF v = w THEN j ELSE job[v]
  BY DEF AloneInv, Shape
<1>2. LinksFit'
  BY DEF AloneInv, LinksFit
<1>3. OneEach'
  BY DEF AloneInv, OneEach, OneAccountPerAddress
<1>4. ASSUME NEW v \in Workers
      PROVE  JobStillFits(job[v])'
  <2>1. JobStillFits(job'[v])
    BY <1>1 DEF AloneInv
  <2> QED BY <2>1 DEF JobStillFits, Taken
<1>5. RightsAreGranted
  BY DEF RightsAreGranted, Flags
<1>6. NeverReplacesPassword
  BY DEF NeverReplacesPassword, Accepting
<1> QED BY <1>1, <1>2, <1>3, <1>4, <1>5, <1>6 DEF AloneInv, StepGrants

\* The only request ends.
LEMMA LastStepAlone ==
  ASSUME OneAtATime, AloneInv, NEW w \in Workers, AnswerIdle(w),
         users' \in [People -> Row], stamp' \in Nat, LinksFit', OneEach'
  PROVE  AloneInv'
<1>1. Idle \in Job
  BY SomebodyThere DEF OneAtATime
<1>2. job' \in [Workers -> Job] /\ \A v \in Workers : job'[v] = Idle
  BY <1>1 DEF AnswerIdle, AloneInv, Shape, OneAtATime
<1>3. \A v \in Workers : JobStillFits(job[v])'
  BY <1>2 DEF JobStillFits, Idle
<1> QED BY <1>2, <1>3 DEF AloneInv, Shape

LEMMA EndAlone ==
  ASSUME OneAtATime, AloneInv, NEW w \in Workers, UNCHANGED <<users, stamp, links>>, AnswerIdle(w)
  PROVE  AloneInv' /\ StepGrants
<1>1. Idle \in Job
  BY SomebodyThere DEF OneAtATime
<1>2. JobStillFits(Idle)
  BY DEF JobStillFits, Idle
<1> QED BY <1>1, <1>2, JobStepAlone DEF AnswerIdle

-----------------------------------------------------------------------------
(* Each step *)

LEMMA AskedAlone ==
  ASSUME OneAtATime, AloneInv, NEW w \in Workers, NEW p \in People, NEW pc, NEW kind,
         NEW wanted \in Row, Asked(w, pc, kind, p, wanted),
         pc \in {"counting", "writing", "inserting", "linking"},
         pc = "counting" => kind = "role",
         pc = "inserting" => /\ kind \in {"invite", "admin_add"}
                             /\ ~users[p].exists
                             /\ wanted.exists /\ wanted.password = Unusable,
         pc = "linking" => (kind = "resend" => users[p].password = Unusable),
         pc = "writing" /\ kind \notin {"role", "admin"} =>
            /\ wanted.is_active = users[p].is_active
            /\ wanted.is_staff = users[p].is_staff
            /\ wanted.is_superuser = users[p].is_superuser,
         pc = "writing" /\ kind = "accept" => users[p].password = Unusable,
         pc \in {"writing", "inserting"} /\ kind # "role" /\ NoAdminSite => ~Taken(wanted.email, p)
  PROVE  AloneInv' /\ StepGrants
<1> DEFINE j == [Idle EXCEPT !.pc = pc, !.kind = kind, !.person = p,
                             !.row = users[p], !.wanted = wanted]
<1>1. users[p] \in Row /\ kind \in Kinds
  BY DEF AloneInv, Shape, Asked
<1>2. j \in Job
  BY <1>1, SomebodyThere DEF Job, OneAtATime
<1>3. j.pc = pc /\ j.kind = kind /\ j.person = p /\ j.wanted = wanted /\ j.row = users[p]
  BY DEF Idle
<1>4. UNCHANGED <<users, stamp, links>> /\ job' = [job EXCEPT ![w] = j]
  BY DEF Asked
<1> HIDE DEF j
<1>5. JobStillFits(j)
  BY <1>3 DEF JobStillFits
<1> QED BY <1>2, <1>4, <1>5, JobStepAlone

\* An account's own address is nobody else's.
LEMMA OwnAddress ==
  ASSUME OneEach, NoAdminSite, NEW p \in People, users[p].exists
  PROVE  ~Taken(users[p].email, p)
BY DEF OneEach, OneAccountPerAddress, Taken

LEMMA NewRowAlone ==
  ASSUME OneAtATime, NEW a \in Addresses, NEW staff \in BOOLEAN
  PROVE  LET row == [NoUser EXCEPT !.exists = TRUE, !.is_active = TRUE, !.email = a, !.is_staff = staff]
         IN row \in Row /\ row.exists /\ row.password = Unusable /\ row.email = a
BY SomebodyThere DEF NoUser, Row, OneAtATime

LEMMA AskAlone ==
  ASSUME OneAtATime, AloneInv, NEW w \in Workers, Ask(w)
  PROVE  AloneInv' /\ StepGrants
<1>1. \A p \in People : users[p] \in Row
  BY DEF AloneInv, Shape
<1>2. Grantable \subseteq Roles
  BY DEF OneAtATime, Peopled, AccountConstants
<1>3. ASSUME NEW p \in People, NEW kind, Asked(w, "writing", kind, p, users[p]),
             users[p].exists, kind = "accept" => users[p].password = Unusable
      PROVE  AloneInv' /\ StepGrants
  <2>1. NoAdminSite => ~Taken(users[p].email, p)
    BY <1>3, OwnAddress DEF AloneInv
  <2> QED BY <1>1, <1>3, <2>1, AskedAlone
<1>4. ASSUME NEW actor \in People, NEW p \in People, NEW role \in Grantable,
             AskRole(w, actor, p, role)
      PROVE  AloneInv' /\ StepGrants
  <2>1. WithRole(users[p], role) \in Row
    BY <1>1, <1>2, FirstRow
  <2>2. PlanForRole(users[p], role) \in {"counting", "writing"}
    BY DEF PlanForRole
  <2>3. Asked(w, PlanForRole(users[p], role), "role", p, WithRole(users[p], role))
    BY <1>4 DEF AskRole
  <2> HIDE DEF PlanForRole, WithRole
  <2> QED BY <2>1, <2>2, <2>3, AskedAlone
<1>5. ASSUME NEW actor \in People, NEW p \in People, NEW a \in Addresses,
             NEW active \in BOOLEAN, NEW staff \in BOOLEAN, NEW super \in BOOLEAN,
             AskAdminSite(w, actor, p, a, active, staff, super)
      PROVE  AloneInv' /\ StepGrants
  <2> DEFINE row == [users[p] EXCEPT !.email = a, !.is_active = active, !.is_staff = staff,
                                     !.is_superuser = super]
  <2>1. row \in Row
    BY <1>1 DEF Row
  <2>2. Asked(w, "writing", "admin", p, row)
    BY <1>5 DEF AskAdminSite
  <2>3. ~NoAdminSite
    BY <2>2 DEF Asked, NoAdminSite
  <2> HIDE DEF row
  <2> QED BY <2>1, <2>2, <2>3, AskedAlone
<1>6. ASSUME NEW actor \in People, NEW p \in People, AskAdminPassword(w, actor, p)
      PROVE  AloneInv' /\ StepGrants
  BY <1>3, <1>6 DEF AskAdminPassword
<1>7. ASSUME NEW actor \in People, NEW p \in People, NEW a \in Addresses,
             AskAdminAdd(w, actor, p, a)
      PROVE  AloneInv' /\ StepGrants
  <2> DEFINE row == [NoUser EXCEPT !.exists = TRUE, !.is_active = TRUE, !.email = a]
  <2>1. row \in Row /\ row.exists /\ row.password = Unusable
    BY SomebodyThere DEF NoUser, Row, OneAtATime
  <2>2. Asked(w, "inserting", "admin_add", p, row) /\ ~users[p].exists
    BY <1>7 DEF AskAdminAdd, NewAccount
  <2>3. ~NoAdminSite
    BY <2>2 DEF Asked, NoAdminSite
  <2> HIDE DEF row
  <2> QED BY <2>1, <2>2, <2>3, AskedAlone
<1>8. ASSUME NEW actor \in People, NEW p \in People, NEW a \in Addresses, NEW staff \in BOOLEAN,
             AskInvite(w, actor, p, a, staff)
      PROVE  AloneInv' /\ StepGrants
  <2> DEFINE row == [NoUser EXCEPT !.exists = TRUE, !.is_active = TRUE, !.email = a, !.is_staff = staff]
  <2>1. row \in Row /\ row.exists /\ row.password = Unusable /\ row.email = a
    BY NewRowAlone
  <2>2. Asked(w, "inserting", "invite", p, row) /\ ~users[p].exists /\ ~Taken(a, p)
    BY <1>8 DEF AskInvite, NewAccount
  <2> HIDE DEF row
  <2> QED BY <2>1, <2>2, AskedAlone
<1>9. ASSUME NEW actor \in People, NEW p \in People, AskResend(w, actor, p)
      PROVE  AloneInv' /\ StepGrants
  <2>1. Asked(w, "linking", "resend", p, users[p]) /\ users[p].password = Unusable
    BY <1>9 DEF AskResend
  <2> QED BY <1>1, <2>1, AskedAlone
<1>10. ASSUME NEW p \in People, NEW a \in Addresses, AskProfile(w, p, a)
       PROVE  AloneInv' /\ StepGrants
  <2> DEFINE row == [users[p] EXCEPT !.email = a]
  <2>1. /\ row \in Row /\ row.email = a /\ row.is_active = users[p].is_active
        /\ row.is_staff = users[p].is_staff /\ row.is_superuser = users[p].is_superuser
    BY <1>1 DEF Row
  <2>2. Asked(w, "writing", "profile", p, row) /\ ~Taken(a, p)
    BY <1>10 DEF AskProfile
  <2> HIDE DEF row
  <2> QED BY <2>1, <2>2, AskedAlone
<1>11. ASSUME NEW p \in People, AskPassword(w, p)
       PROVE  AloneInv' /\ StepGrants
  BY <1>3, <1>11 DEF AskPassword, SignsIn
<1>12. ASSUME NEW p \in People, AskReset(w, p)
       PROVE  AloneInv' /\ StepGrants
  <2>1. Asked(w, "linking", "reset", p, users[p])
    BY <1>12 DEF AskReset
  <2> QED BY <1>1, <2>1, AskedAlone
<1>13. ASSUME NEW l \in links, AskUse(w, l)
       PROVE  AloneInv' /\ StepGrants
  <2>1. l.user \in People /\ (l.kind = "invitation" => l.password = Unusable)
    BY DEF AloneInv, LinksFit
  <2>2. users[l.user].exists /\ l.password = users[l.user].password
    BY <1>13 DEF AskUse, CheckToken
  <2>3. CASE l.kind = "invitation"
    BY <1>3, <1>13, <2>1, <2>2, <2>3 DEF AskUse
  <2>4. CASE l.kind # "invitation"
    BY <1>3, <1>13, <2>1, <2>2, <2>4 DEF AskUse
  <2> QED BY <2>3, <2>4
<1> QED BY <1>4, <1>5, <1>6, <1>7, <1>8, <1>9, <1>10, <1>11, <1>12, <1>13 DEF Ask

LEMMA FindAdminsAlone ==
  ASSUME OneAtATime, AloneInv, NEW w \in Workers, FindAdmins(w)
  PROVE  AloneInv' /\ StepGrants
<1> DEFINE j == [job[w] EXCEPT !.pc = "locking", !.scan = Admins]
<1>1. job[w] \in Job /\ JobStillFits(job[w]) /\ job[w].pc = "counting"
  BY DEF AloneInv, Shape, FindAdmins, At
<1>2. Admins \subseteq People
  BY DEF Admins
<1>3. j \in Job /\ j.pc = "locking" /\ j.kind = job[w].kind
  BY <1>1, <1>2 DEF Job
<1>4. job' = [job EXCEPT ![w] = j] /\ UNCHANGED <<users, stamp, links>>
  BY DEF FindAdmins, AloneInv, Shape
<1> HIDE DEF j
<1>5. JobStillFits(j)
  BY <1>1, <1>3 DEF JobStillFits
<1> QED BY <1>3, <1>4, <1>5, JobStepAlone

LEMMA LockAdminAlone ==
  ASSUME OneAtATime, AloneInv, NEW w \in Workers, LockAdmin(w)
  PROVE  AloneInv' /\ StepGrants
<1>1. PICK p \in Lockable(w) \ HeldByOthers(w) :
        job' = [job EXCEPT ![w].held = @ \union {p},
                           ![w].scan = IF StillFound(p) THEN @ ELSE @ \ {p}]
  BY DEF LockAdmin
<1> DEFINE j == [job[w] EXCEPT !.held = @ \union {p},
                               !.scan = IF StillFound(p) THEN @ ELSE @ \ {p}]
<1>2. job[w] \in Job /\ JobStillFits(job[w]) /\ job[w].pc = "locking"
  BY DEF AloneInv, Shape, LockAdmin, At
<1>3. p \in People
  BY <1>1, <1>2 DEF Lockable, Job
<1>4. j \in Job /\ j.pc = "locking" /\ j.kind = job[w].kind
  BY <1>2, <1>3 DEF Job
<1>5. job' = [job EXCEPT ![w] = j] /\ UNCHANGED <<users, stamp, links>>
  BY <1>1 DEF LockAdmin, AloneInv, Shape
<1> HIDE DEF j
<1>6. JobStillFits(j)
  BY <1>2, <1>4 DEF JobStillFits
<1> QED BY <1>4, <1>5, <1>6, JobStepAlone

LEMMA DecideRoleAlone ==
  ASSUME OneAtATime, AloneInv, NEW w \in Workers, DecideRole(w)
  PROVE  AloneInv' /\ StepGrants
<1>1. /\ job[w] \in Job /\ JobStillFits(job[w]) /\ job[w].pc = "locking"
      /\ UNCHANGED <<users, stamp, links>>
  BY DEF AloneInv, Shape, DecideRole, At
<1>2. CASE job' = [job EXCEPT ![w] = Idle]
  BY <1>1, <1>2, EndAlone DEF AnswerIdle
<1>3. CASE job' = [job EXCEPT ![w].pc = "writing"]
  <2> DEFINE j == [job[w] EXCEPT !.pc = "writing"]
  <2>1. j \in Job /\ j.pc = "writing" /\ j.kind = "role"
    BY <1>1 DEF Job, JobStillFits
  <2>2. job' = [job EXCEPT ![w] = j]
    BY <1>3 DEF AloneInv, Shape
  <2> HIDE DEF j
  <2>3. JobStillFits(j)
    BY <2>1 DEF JobStillFits
  <2> QED BY <1>1, <2>1, <2>2, <2>3, JobStepAlone
<1> QED BY <1>2, <1>3 DEF DecideRole

\* What a request saves.
LEMMA SavedRow ==
  ASSUME AloneInv, NEW w \in Workers
  PROVE  /\ Saved(w) \in Row
         /\ job[w].kind = "role" =>
              /\ Saved(w).exists = users[job[w].person].exists
              /\ Saved(w).email = users[job[w].person].email
         /\ job[w].kind # "role" =>
              /\ Saved(w).exists = job[w].wanted.exists
              /\ Saved(w).email = job[w].wanted.email
              /\ Saved(w).is_active = job[w].wanted.is_active
              /\ Saved(w).is_staff = job[w].wanted.is_staff
              /\ Saved(w).is_superuser = job[w].wanted.is_superuser
<1>1. /\ job[w].person \in People /\ job[w].wanted \in Row /\ users[job[w].person] \in Row
      /\ stamp + 1 \in Nat
  BY DEF AloneInv, Shape, Job
<1>2. CASE job[w].kind = "role"
  <2>1. Saved(w) = [users[job[w].person] EXCEPT !.is_staff = job[w].wanted.is_staff,
                                                !.is_superuser = job[w].wanted.is_superuser]
    <3>1. job[w].kind # "accept" /\ job[w].kind \notin SetsPassword \ {"accept"}
      BY <1>2 DEF SetsPassword
    <3> QED BY <1>2, <3>1, SMT DEF Saved
  <2> QED BY <1>1, <1>2, <2>1 DEF Row
<1>3. CASE job[w].kind = "accept"
  <2>1. Saved(w) = [job[w].wanted EXCEPT !.password = stamp + 1, !.last_login = stamp + 1]
    <3>1. job[w].kind # "role" /\ job[w].kind \notin SetsPassword \ {"accept"}
      BY <1>3
    <3> QED BY <1>3, <3>1, SMT DEF Saved
  <2> QED BY <1>1, <1>3, <2>1 DEF Row
<1>4. CASE job[w].kind \in SetsPassword \ {"accept"}
  <2>1. Saved(w) = [job[w].wanted EXCEPT !.password = stamp + 1]
    <3>1. job[w].kind # "role" /\ job[w].kind # "accept"
      BY <1>4 DEF SetsPassword
    <3> QED BY <1>4, <3>1, SMT DEF Saved
  <2> QED BY <1>1, <1>4, <2>1 DEF Row, SetsPassword
<1>5. CASE job[w].kind \notin SetsPassword \union {"role"}
  <2>1. Saved(w) = job[w].wanted
    <3>1. /\ job[w].kind # "role" /\ job[w].kind # "accept"
          /\ job[w].kind \notin SetsPassword \ {"accept"}
      BY <1>5 DEF SetsPassword
    <3> QED BY <3>1, Zenon DEF Saved
  <2> QED BY <1>1, <1>5, <2>1
<1> QED BY <1>2, <1>3, <1>4, <1>5

\* A saved address that nobody else has keeps every mailbox with one account.
LEMMA SavedAddress ==
  ASSUME OneEach, NEW p \in People, NEW row, users \in [People -> Row],
         users' = [users EXCEPT ![p] = row],
         NoAdminSite => \/ row.exists = users[p].exists /\ row.email = users[p].email
                        \/ ~Taken(row.email, p)
  PROVE  OneEach'
<1> SUFFICES ASSUME NoAdminSite, NEW q \in People, NEW r \in People, q # r,
                    users'[q].exists, users'[r].exists
             PROVE  Mailbox(users'[q].email) # Mailbox(users'[r].email)
  BY DEF OneEach, OneAccountPerAddress, NoAdminSite
<1>1. \A s \in People : users'[s] = IF s = p THEN row ELSE users[s]
  OBVIOUS
<1>2. CASE row.exists = users[p].exists /\ row.email = users[p].email
  BY <1>1, <1>2 DEF OneEach, OneAccountPerAddress
<1>3. CASE ~Taken(row.email, p)
  BY <1>1, <1>3 DEF OneEach, OneAccountPerAddress, Taken
<1> QED BY <1>2, <1>3

LEMMA WriteAlone ==
  ASSUME OneAtATime, AloneInv, NEW w \in Workers, Write(w)
  PROVE  AloneInv' /\ StepGrants
<1> DEFINE p == job[w].person
           row == Saved(w)
<1>1. /\ job[w] \in Job /\ JobStillFits(job[w]) /\ job[w].pc = "writing"
      /\ users \in [People -> Row] /\ stamp \in Nat /\ p \in People
  BY DEF AloneInv, Shape, Job, Write, At
<1>2. row \in Row
  BY SavedRow
<1>3. users' = users \/ users' = [users EXCEPT ![p] = row]
  BY DEF Write
<1>4. stamp' \in Nat /\ AnswerIdle(w) /\ links' = links
  BY <1>1 DEF Write
<1>5. \A v \in Workers : v = w
  BY DEF OneAtATime
<1>6. job'[w].pc = "idle"
  BY <1>4 DEF AnswerIdle, Idle, AloneInv, Shape
<1> HIDE DEF row
<1>7. AloneInv'
  <2>1. users' \in [People -> Row]
    BY <1>1, <1>2, <1>3
  <2>2. LinksFit'
    BY <1>4 DEF AloneInv, LinksFit
  <2>3. OneEach'
    <3>1. CASE users' = users
      BY <3>1 DEF AloneInv, OneEach, OneAccountPerAddress
    <3>2. CASE users' = [users EXCEPT ![p] = row]
      <4>1. NoAdminSite => \/ row.exists = users[p].exists /\ row.email = users[p].email
                           \/ ~Taken(row.email, p)
        BY <1>1, SavedRow DEF JobStillFits, row
      <4> QED BY <1>1, <3>2, <4>1, SavedAddress DEF AloneInv
    <3> QED BY <1>3, <3>1, <3>2
  <2> QED BY <1>4, <2>1, <2>2, <2>3, LastStepAlone
<1>8. RightsAreGranted
  <2> SUFFICES ASSUME NEW q \in People, Flags(q)' # Flags(q), job[w].kind \notin {"role", "admin"}
               PROVE  FALSE
    <3>1. ASSUME NEW q \in People, q # p
          PROVE  Flags(q)' = Flags(q)
      BY <1>1, <1>3, <3>1 DEF Flags
    <3> QED BY <1>6, <3>1 DEF RightsAreGranted
  <2>1. q = p /\ users' = [users EXCEPT ![p] = row]
    BY <1>1, <1>3 DEF Flags
  <2>2. users'[p] = row
    BY <1>1, <2>1
  <2>3. /\ row.is_active = users[p].is_active /\ row.is_staff = users[p].is_staff
        /\ row.is_superuser = users[p].is_superuser
    BY <1>1, SavedRow DEF JobStillFits, row
  <2> QED BY <2>1, <2>2, <2>3 DEF Flags
<1>9. NeverReplacesPassword
  BY <1>1, <1>5 DEF NeverReplacesPassword, Accepting, JobStillFits
<1> QED BY <1>7, <1>8, <1>9 DEF StepGrants

LEMMA InsertAlone ==
  ASSUME OneAtATime, AloneInv, NEW w \in Workers, Insert(w)
  PROVE  AloneInv' /\ StepGrants
<1> DEFINE p == job[w].person
           row == Saved(w)
<1>1. /\ job[w] \in Job /\ JobStillFits(job[w]) /\ job[w].pc = "inserting"
      /\ users \in [People -> Row] /\ stamp \in Nat /\ p \in People
  BY DEF AloneInv, Shape, Job, Insert, At
<1>2. row \in Row /\ job[w].kind \in {"invite", "admin_add"} /\ ~users[p].exists
  BY <1>1, SavedRow DEF JobStillFits
<1>3. AnswerIdle(w)
  BY DEF Insert
<1>4. CASE UNCHANGED <<users, links, stamp>>
  BY <1>3, <1>4, EndAlone
<1>5. CASE /\ users' = [users EXCEPT ![p] = row]
           /\ stamp' = IF job[w].kind = "admin_add" THEN stamp + 1 ELSE stamp
           /\ links' = IF job[w].kind = "admin_add" THEN links
                       ELSE links \union {LinkFor("invitation", p, job[w].wanted)}
  <2> HIDE DEF row
  <2>1. users' \in [People -> Row]
    BY <1>1, <1>2, <1>5
  <2>2. LinksFit'
    <3>1. \A l \in links' : l \in links \/ l = LinkFor("invitation", p, job[w].wanted)
      BY <1>5
    <3>2. /\ LinkFor("invitation", p, job[w].wanted).user = p
          /\ LinkFor("invitation", p, job[w].wanted).password = Unusable
      BY <1>1 DEF LinkFor, JobStillFits
    <3> QED BY <1>1, <3>1, <3>2 DEF LinksFit, AloneInv
  <2>3. OneEach'
    <3>1. NoAdminSite => ~Taken(row.email, p)
      BY <1>1, <1>2, SavedRow DEF JobStillFits, row
    <3> QED BY <1>1, <1>5, <3>1, SavedAddress DEF AloneInv
  <2>4. AloneInv'
    <3>1. stamp' \in Nat
      BY <1>1, <1>5
    <3> QED BY <1>3, <2>1, <2>2, <2>3, <3>1, LastStepAlone
  <2>5. \A q \in People : users'[q] = IF q = p THEN row ELSE users[q]
    BY <1>1, <1>5
  <2>6. RightsAreGranted
    <3> SUFFICES ASSUME NEW q \in People, Flags(q)' # Flags(q)
                 PROVE  users[q].exists # users'[q].exists
      BY DEF RightsAreGranted
    <3>1. q = p
      BY <2>5 DEF Flags
    <3>2. row.exists
      BY <1>1, <1>2, SavedRow DEF row, JobStillFits
    <3> QED BY <1>2, <2>5, <3>1, <3>2
  <2>7. NeverReplacesPassword
    BY <1>1, <1>2 DEF NeverReplacesPassword, Accepting, OneAtATime, At
  <2> QED BY <2>4, <2>6, <2>7 DEF StepGrants
<1> QED BY <1>4, <1>5 DEF Insert

LEMMA HandOutAlone ==
  ASSUME OneAtATime, AloneInv, NEW w \in Workers, HandOutLink(w)
  PROVE  AloneInv' /\ StepGrants
<1> DEFINE kind == IF job[w].kind = "resend" THEN "invitation" ELSE "reset"
           l == LinkFor(kind, job[w].person, job[w].row)
<1>1. /\ job[w] \in Job /\ JobStillFits(job[w]) /\ job[w].pc = "linking"
      /\ users \in [People -> Row] /\ stamp \in Nat /\ job[w].person \in People
  BY DEF AloneInv, Shape, Job, HandOutLink, At
<1>2. links' = links \/ links' = links \union {l}
  BY DEF HandOutLink
<1>3. UNCHANGED <<users, stamp>> /\ AnswerIdle(w)
  BY DEF HandOutLink
<1>4. l.user = job[w].person /\ l.kind = kind /\ l.password = job[w].row.password
  BY DEF LinkFor
<1> HIDE DEF l
<1>5. LinksFit'
  <2>1. l.kind = "invitation" => l.password = Unusable
    BY <1>1, <1>4 DEF JobStillFits
  <2> QED BY <1>1, <1>2, <1>4, <2>1 DEF AloneInv, LinksFit
<1>6. OneEach'
  BY <1>3 DEF AloneInv, OneEach, OneAccountPerAddress
<1>7. AloneInv'
  BY <1>1, <1>3, <1>5, <1>6, LastStepAlone
<1>8. RightsAreGranted /\ NeverReplacesPassword
  BY <1>3 DEF RightsAreGranted, Flags, NeverReplacesPassword, Accepting
<1> QED BY <1>7, <1>8 DEF StepGrants

\* A sign-in changes nothing that a request has read and is going to save.
LEMMA SignInAlone ==
  ASSUME OneAtATime, AloneInv, NEW p \in People, SignIn(p)
  PROVE  AloneInv' /\ StepGrants
<1>1. users \in [People -> Row] /\ stamp \in Nat /\ job \in [Workers -> Job]
  BY DEF AloneInv, Shape
<1>2. /\ stamp' = stamp + 1 /\ UNCHANGED <<links, job>>
      /\ users' = [users EXCEPT ![p].last_login = stamp + 1]
  BY DEF SignIn
<1>3. users' \in [People -> Row]
  BY <1>1, <1>2 DEF Row
<1>4. \A q \in People :
        /\ users'[q].is_superuser = users[q].is_superuser /\ users'[q].exists = users[q].exists
        /\ users'[q].is_active = users[q].is_active /\ users'[q].is_staff = users[q].is_staff
        /\ users'[q].password = users[q].password /\ users'[q].email = users[q].email
  BY <1>1, <1>2 DEF Row
<1>5. \A v \in Workers : job[v].person \in People
  BY <1>1 DEF Job
<1>6. \A a, q : Taken(a, q)' = Taken(a, q)
  BY <1>4 DEF Taken
<1>7. ASSUME NEW v \in Workers
      PROVE  JobStillFits(job[v])'
  <2>1. JobStillFits(job[v])
    BY DEF AloneInv
  <2> QED BY <1>2, <1>4, <1>5, <1>6, <2>1 DEF JobStillFits
<1>8. LinksFit'
  BY <1>2 DEF AloneInv, LinksFit
<1>9. OneEach'
  BY <1>4 DEF AloneInv, OneEach, OneAccountPerAddress
<1>10. Shape'
  BY <1>1, <1>2, <1>3 DEF Shape
<1>11. RightsAreGranted
  BY <1>4 DEF RightsAreGranted, Flags
<1>12. NeverReplacesPassword
  <2> SUFFICES ASSUME NEW w \in Workers, Accepting(w)
               PROVE  FALSE
    BY DEF NeverReplacesPassword
  <2> QED BY <1>2 DEF Accepting, At
<1> QED BY <1>7, <1>8, <1>9, <1>10, <1>11, <1>12 DEF AloneInv, StepGrants

\* An account is deleted when no request is under way.
LEMMA DeleteAlone ==
  ASSUME OneAtATime, AloneInv, NEW w \in Workers, NEW actor \in People, NEW p \in People,
         AdminDelete(w, actor, p)
  PROVE  AloneInv' /\ StepGrants
<1>1. users \in [People -> Row] /\ stamp \in Nat /\ job \in [Workers -> Job]
  BY DEF AloneInv, Shape
<1>2. /\ users' = [users EXCEPT ![p] = NoUser] /\ UNCHANGED <<stamp, links, job>>
      /\ users[p].exists /\ \A v \in Workers : job[v].pc = "idle"
  BY DEF AdminDelete, At, OneAtATime
<1>3. NoUser \in Row /\ ~NoUser.exists
  BY SomebodyThere DEF OneAtATime, NoUser
<1>4. \A q \in People : users'[q] = IF q = p THEN NoUser ELSE users[q]
  BY <1>1, <1>2
<1>5. Shape' /\ LinksFit'
  BY <1>1, <1>2, <1>3 DEF Shape, AloneInv, LinksFit
<1>6. OneEach'
  BY <1>3, <1>4 DEF AloneInv, OneEach, OneAccountPerAddress
<1>7. \A v \in Workers : JobStillFits(job[v])'
  BY <1>2 DEF JobStillFits
<1>8. RightsAreGranted
  <2> SUFFICES ASSUME NEW q \in People, Flags(q)' # Flags(q)
               PROVE  users[q].exists # users'[q].exists
    BY DEF RightsAreGranted
  <2> QED BY <1>2, <1>3, <1>4 DEF Flags
<1>9. NeverReplacesPassword
  BY <1>2 DEF NeverReplacesPassword, Accepting
<1> QED BY <1>5, <1>6, <1>7, <1>8, <1>9 DEF AloneInv, StepGrants

\* Time passes, or nothing happens.
LEMMA QuietAlone ==
  ASSUME AloneInv, UNCHANGED <<users, links, stamp, job>>
  PROVE  AloneInv' /\ StepGrants
<1>1. Shape' /\ LinksFit' /\ OneEach'
  BY DEF AloneInv, Shape, LinksFit, OneEach, OneAccountPerAddress
<1>2. \A v \in Workers : JobStillFits(job[v])'
  BY DEF AloneInv, JobStillFits, Taken
<1>3. RightsAreGranted /\ NeverReplacesPassword
  BY DEF RightsAreGranted, Flags, NeverReplacesPassword, Accepting
<1> QED BY <1>1, <1>2, <1>3 DEF AloneInv, StepGrants

-----------------------------------------------------------------------------
(* The theorems *)

LEMMA InitAlone ==
  ASSUME OneAtATime, Init
  PROVE  AloneInv
<1>1. Peopled /\ ~NoUser.exists
  BY DEF OneAtATime, NoUser
<1>2. Shape
  BY <1>1, FirstRows
<1>3. LinksFit
  BY DEF Init, LinksFit
<1>4. OneAccountPerAddress
  <2>1. \A p \in People : users[p].exists => p \in DOMAIN InitialRoles /\ users[p].email = <<p, "a">>
    BY <1>1, FirstRows
  <2>2. \A p \in People : users[p].exists => Mailbox(users[p].email) = p
    BY <2>1 DEF Mailbox
  <2> QED BY <2>2 DEF OneAccountPerAddress
<1>5. \A w \in Workers : JobStillFits(job[w])
  BY DEF Init, Idle, JobStillFits
<1> QED BY <1>2, <1>3, <1>4, <1>5 DEF AloneInv, OneEach

LEMMA NextAlone ==
  ASSUME OneAtATime, AloneInv, [Next]_vars
  PROVE  AloneInv' /\ StepGrants
<1>1. ASSUME NEW w \in Workers, Ask(w)
      PROVE  AloneInv' /\ StepGrants
  BY <1>1, AskAlone
<1>2. ASSUME NEW w \in Workers, GoOn(w)
      PROVE  AloneInv' /\ StepGrants
  <2>1. CASE Deadlocked(w)
    BY <2>1, EndAlone DEF Deadlocked
  <2> QED BY <1>2, <2>1, FindAdminsAlone, LockAdminAlone, DecideRoleAlone, WriteAlone,
             InsertAlone, HandOutAlone DEF GoOn
<1>3. ASSUME NEW w \in Workers, Crash(w)
      PROVE  AloneInv' /\ StepGrants
  BY <1>3, EndAlone DEF Crash
<1>4. CASE Tick \/ UNCHANGED vars
  BY <1>4, QuietAlone DEF Tick, vars
<1> QED BY <1>1, <1>2, <1>3, <1>4, SignInAlone, DeleteAlone DEF Next

LEMMA AloneHolds == OneAtATime => (Spec => []AloneInv /\ [][StepGrants]_vars)
<1> SUFFICES ASSUME OneAtATime PROVE Spec => []AloneInv /\ [][StepGrants]_vars
  OBVIOUS
<1>1. Init => AloneInv
  BY InitAlone
<1>2. AloneInv /\ [Next]_vars => AloneInv' /\ [StepGrants]_vars
  BY NextAlone
<1> QED BY <1>1, <1>2, PTL DEF Spec

\* What somebody may do changes only when a role is given, on the admin site or by
\* invitation (the forms of accounts/forms.py leave the rights alone, "neither of
\* those is theirs to grant"): one's own details, a password or a link never give
\* or take a right, as long as requests come one at a time.
THEOREM RightsAreOnlyGranted == OneAtATime => (Spec => [][RightsAreGranted]_vars)
<1>1. [StepGrants]_vars => [RightsAreGranted]_vars
  BY DEF StepGrants
<1> QED BY <1>1, AloneHolds, PTL

\* "the link stops working the moment the invitee sets a password"
\* (accounts/tokens.py): one request at a time, an accepted invitation never
\* replaces a password, by whatever page and however often links were handed out.
THEOREM InvitationsOpenNoAccountTwice == OneAtATime => (Spec => [][NeverReplacesPassword]_vars)
<1>1. [StepGrants]_vars => [NeverReplacesPassword]_vars
  BY DEF StepGrants
<1> QED BY <1>1, AloneHolds, PTL

\* Two accounts never share a mailbox in two spellings (clean_email of
\* accounts/forms.py), as long as requests come one at a time and the admin site,
\* whose forms compare the exact spelling only, is left alone.
THEOREM MailboxesAreOwned == OneAtATime /\ NoAdminSite => (Spec => []OneAccountPerAddress)
<1> SUFFICES ASSUME OneAtATime, NoAdminSite PROVE Spec => []OneAccountPerAddress
  OBVIOUS
<1>1. AloneInv => OneAccountPerAddress
  BY DEF AloneInv, OneEach
<1> QED BY <1>1, AloneHolds, PTL

-----------------------------------------------------------------------------
(* Natural numbers *)

\* Every nonempty set of naturals has a least element.
LEMMA LeastNumber ==
  ASSUME NEW T, T \subseteq Nat, T # {}
  PROVE  \E m \in T : \A n \in T : m <= n
<1> DEFINE R == OpToRel(<, Nat)
<1>1. IsWellFoundedOn(R, Nat)
  BY NatLessThanWellFounded
<1>2. \A m, n \in Nat : n < m => <<n, m>> \in R
  BY DEF OpToRel
<1> HIDE DEF R
<1>3. PICK m \in T : \A n \in T : ~(<<n, m>> \in R)
  BY <1>1, WFMin
<1>4. \A n \in T : ~(n < m)
  BY <1>2, <1>3
<1>5. \A n \in T : m <= n
  BY <1>4
<1> QED BY <1>5

-----------------------------------------------------------------------------
(***************************************************************************)
(* What one account owns (Ownership): its profiles, rosters and seasons    *)
(***************************************************************************)

CONSTANTS Seasons, Profiles, Rosters, Nicknames, Names, Folded, DefaultNickname,
          Unused, Deleted, None
VARIABLES season, nick_name, roster

\* One account's dialogs, any number of them at the same time.
Own == INSTANCE Ownership

AnyName == Nicknames \union Names \union {DefaultNickname, None}

RosterRow == [manager : Profiles, season : Seasons, name : AnyName]

\* The current seasons are counted.
OwnConstants == Own!OwnershipConstants /\ IsFiniteSet(Seasons)

LEMMA OwnMarks ==
  ASSUME OwnConstants
  PROVE  /\ Profiles \subseteq Nat /\ Rosters \subseteq Nat /\ IsFiniteSet(Seasons)
         /\ None \notin Profiles
         /\ {Unused, Deleted} \intersect (RosterRow \union {"current", "plain"}) = {}
         /\ Unused # Deleted
BY DEF OwnConstants, Own!OwnershipConstants, RosterRow, AnyName

ProfileKinds == {"create_profile", "rename_profile", "delete_profile"}
RosterKinds == {"create_roster", "rename_roster", "delete_roster"}
SeasonKinds == {"save_season", "delete_season"}

Dialog ==
  [pc : {"idle", "look", "collect", "write", "sweep", "lock", "error"},
   kind : ProfileKinds \union RosterKinds \union SeasonKinds \union {None},
   id : Profiles \union Rosters \union Seasons \union {None}, name : AnyName,
   season : Seasons \union {None}, ticked : BOOLEAN, swept : SUBSET Seasons,
   gone : SUBSET (Seasons \union Rosters), known : SUBSET Rosters, alone : BOOLEAN]

\* A dialog is about a row of its kind; only a season that is ticked takes the box
\* off others, and never off itself.
DialogFits(j) ==
  /\ j.pc # "idle" =>
       /\ j.kind = "create_profile" => j.id = None
       /\ j.kind \in {"rename_profile", "delete_profile"} => j.id \in Profiles
       /\ j.kind = "create_roster" => j.id \in Profiles \union {None} /\ j.season \in Seasons
       /\ j.kind \in {"rename_roster", "delete_roster"} => j.id \in Rosters
       /\ j.kind \in SeasonKinds => j.id \in Seasons
  /\ j.kind = "save_season" /\ j.pc \in {"sweep", "lock"} => j.ticked
  /\ j.kind = "save_season" /\ j.pc = "lock" => j.id \notin j.gone
  /\ j.swept # {} => j.kind = "save_season" /\ j.ticked /\ j.id \notin j.swept

DialogsFit ==
  /\ job \in [Workers -> Dialog]
  /\ \A w \in Workers : DialogFits(job[w])

RowsFit ==
  /\ season \in [Seasons -> {"current", "plain", Unused, Deleted}]
  /\ nick_name \in [Profiles -> AnyName \union {Unused, Deleted}]
  /\ roster \in [Rosters -> RosterRow \union {Unused, Deleted}]

\* only_one_current_season: never two seasons are current.
OneCurrent == \A s, t \in Own!Current : s = t

\* What a request that has met no other has found out, and is so still.
FoundOut(w) ==
  LET j == job[w]
  IN /\ j.kind \in {"create_profile", "rename_profile"} /\ j.pc = "write" =>
          ~Own!Taken(j.name, j.id)
     /\ j.kind = "rename_profile" /\ j.pc \in {"look", "write"} =>
          j.id \in Own!There(nick_name)
     /\ j.kind = "delete_profile" /\ j.pc \in {"collect", "write"} =>
          Own!OfProfile(j.id) = {}
     /\ j.kind = "delete_profile" /\ j.pc = "write" => j.gone = {}
     /\ j.kind = "create_roster" /\ j.pc = "look" =>
          /\ Own!There(nick_name) # {}
          /\ j.id \in Own!There(nick_name) \union {None}
          /\ j.season \in Own!There(season)
     /\ j.kind = "create_roster" /\ j.pc = "write" =>
          /\ j.id \in Own!There(nick_name)
          /\ j.season \in Own!There(season)
          /\ ~Own!NameTaken(j.id, j.season, j.name)
     /\ j.kind = "save_season" /\ j.pc = "lock" => j.gone = Own!Current \ {j.id}
     /\ j.kind = "save_season" /\ j.pc = "write" /\ j.ticked =>
          Own!Current \subseteq j.swept \union {j.id}
     /\ j.kind = "delete_season" /\ j.pc \in {"collect", "write"} =>
          Own!OfSeason(j.id) = {}
     /\ j.pc = "error" => j.kind = "rename_roster"

OthersIdle(w) == \A v \in Workers \ {w} : job[v].pc = "idle"

AloneKnows ==
  \A w \in Workers : job[w].alone /\ job[w].pc # "idle" => OthersIdle(w) /\ FoundOut(w)

OwnInv == DialogsFit /\ RowsFit /\ OneCurrent /\ AloneKnows

-----------------------------------------------------------------------------
\* The dialog of one request moves on, the others' stay.
LEMMA OneDialogMoves ==
  ASSUME DialogsFit, NEW w \in Workers, NEW new \in Dialog, DialogFits(new),
         job' = [job EXCEPT ![w] = new]
  PROVE  /\ DialogsFit' /\ job'[w] = new
         /\ \A v \in Workers \ {w} : job'[v] = job[v]
BY DEF DialogsFit

\* It knows what it found out, when it was alone before.
LEMMA AloneStays ==
  ASSUME AloneKnows, DialogsFit, NEW w \in Workers, job[w].pc # "idle",
         \A v \in Workers \ {w} : job'[v] = job[v],
         job'[w].alone /\ job'[w].pc # "idle" =>
           job[w].alone /\ (OthersIdle(w) /\ FoundOut(w) => FoundOut(w)')
  PROVE  AloneKnows'
<1> SUFFICES ASSUME NEW u \in Workers, job'[u].alone, job'[u].pc # "idle"
             PROVE  OthersIdle(u)' /\ FoundOut(u)'
  BY DEF AloneKnows
<1>1. CASE u = w
  BY <1>1 DEF AloneKnows, OthersIdle
<1>2. CASE u # w
  BY <1>2 DEF AloneKnows, OthersIdle
<1> QED BY <1>1, <1>2

LEMMA IdleFits == Own!Idle \in Dialog /\ DialogFits(Own!Idle) /\ Own!Idle.pc = "idle"
BY DEF Own!Idle, Dialog, DialogFits, AnyName

LEMMA PcMoves ==
  ASSUME DialogsFit, NEW w \in Workers, NEW pc \in {"look", "collect", "write", "error"},
         job[w].pc # "idle"
  PROVE  /\ [job[w] EXCEPT !.pc = pc] \in Dialog /\ DialogFits([job[w] EXCEPT !.pc = pc])
         /\ [job EXCEPT ![w].pc = pc] = [job EXCEPT ![w] = [job[w] EXCEPT !.pc = pc]]
BY DEF DialogsFit, Dialog, DialogFits

\* A request that starts: nobody is alone any more who was.
LEMMA BeginFits ==
  ASSUME OwnInv, NEW w \in Workers, NEW r \in Dialog, DialogFits(r), Own!Begin(w, r),
         r.pc # "idle",
         job'[w].alone => FoundOut(w)'
  PROVE  OwnInv'
<1> DEFINE then(v) == IF v = w THEN [r EXCEPT !.alone = OthersIdle(w)]
                      ELSE [job[v] EXCEPT !.alone = @ /\ job[v].pc = "idle"]
<1>0. job' = [v \in Workers |-> then(v)]
  BY DEF Own!Begin, OthersIdle
<1>1. /\ job'[w] = [r EXCEPT !.alone = OthersIdle(w)]
      /\ \A v \in Workers \ {w} : job'[v] = [job[v] EXCEPT !.alone = @ /\ job[v].pc = "idle"]
  BY <1>0
<1>2. ASSUME NEW v \in Workers
      PROVE  job'[v] \in Dialog /\ DialogFits(job'[v])
  <2>1. CASE v = w
    <3>1. job'[w] \in Dialog
      BY <1>1 DEF Dialog, OthersIdle
    <3>2. DialogFits(job'[w])
      BY <1>1 DEF Dialog, DialogFits
    <3> QED BY <2>1, <3>1, <3>2
  <2>2. CASE v # w
    <3>1. job[v] \in Dialog /\ DialogFits(job[v])
      BY DEF OwnInv, DialogsFit
    <3>2. job'[v] = [job[v] EXCEPT !.alone = job[v].alone /\ job[v].pc = "idle"]
      BY <2>2, <1>1
    <3>3. job'[v] \in Dialog
      BY <3>1, <3>2 DEF Dialog
    <3>4. DialogFits(job'[v])
      BY <3>1, <3>2 DEF Dialog, DialogFits
    <3> QED BY <3>3, <3>4
  <2> QED BY <2>1, <2>2
<1>3. DialogsFit'
  BY <1>0, <1>2 DEF DialogsFit
<1>4. RowsFit' /\ OneCurrent'
  BY DEF OwnInv, RowsFit, OneCurrent, Own!Begin, Own!Current
<1>5. ASSUME NEW v \in Workers \ {w}
      PROVE  job'[v].pc = job[v].pc /\ (job'[v].alone => job[v].pc = "idle")
  <2>1. job[v] \in Dialog
    BY DEF OwnInv, DialogsFit
  <2>2. job'[v] = [job[v] EXCEPT !.alone = job[v].alone /\ job[v].pc = "idle"]
    BY <1>1
  <2> QED BY <2>1, <2>2 DEF Dialog
<1>6. job'[w].alone => OthersIdle(w)
  BY <1>1 DEF Dialog
<1>7. AloneKnows'
  BY <1>5, <1>6 DEF AloneKnows, OthersIdle
<1> QED BY <1>3, <1>4, <1>7 DEF OwnInv

\* A request that ends, whatever it wrote.
LEMMA DialogEndKeeps ==
  ASSUME OwnInv, NEW w \in Workers, job[w].pc # "idle", Own!Ends(w), RowsFit', OneCurrent'
  PROVE  OwnInv'
<1>1. DialogsFit' /\ job'[w] = Own!Idle /\ \A v \in Workers \ {w} : job'[v] = job[v]
  BY OneDialogMoves, IdleFits DEF OwnInv, Own!Ends
<1>2. AloneKnows'
  BY <1>1, AloneStays, IdleFits DEF OwnInv
<1> QED BY <1>1, <1>2 DEF OwnInv

\* A request that is refused ends and changes nothing.
LEMMA RefusalKeeps ==
  ASSUME OwnInv, NEW w \in Workers, job[w].pc # "idle", Own!Refused(w)
  PROVE  OwnInv'
<1>1. RowsFit' /\ OneCurrent'
  BY DEF OwnInv, RowsFit, OneCurrent, Own!Refused, Own!Current
<1> QED BY <1>1, DialogEndKeeps DEF Own!Refused

\* A request that goes on and changes nothing but what it knows.
LEMMA LookKeeps ==
  ASSUME OwnInv, NEW w \in Workers, job[w].pc # "idle", NEW new \in Dialog, DialogFits(new),
         job' = [job EXCEPT ![w] = new], UNCHANGED <<season, nick_name, roster>>,
         new.alone = job[w].alone,
         job[w].alone /\ OthersIdle(w) /\ FoundOut(w) => FoundOut(w)'
  PROVE  OwnInv'
<1>1. DialogsFit' /\ job'[w] = new /\ \A v \in Workers \ {w} : job'[v] = job[v]
  BY OneDialogMoves DEF OwnInv
<1>2. AloneKnows'
  BY <1>1, AloneStays DEF OwnInv
<1>3. RowsFit' /\ OneCurrent'
  BY DEF OwnInv, RowsFit, OneCurrent, Own!Current
<1> QED BY <1>1, <1>2, <1>3 DEF OwnInv

LEMMA PcKeeps ==
  ASSUME OwnInv, NEW w \in Workers, job[w].pc # "idle",
         NEW pc \in {"look", "collect", "write", "error"}, Own!LooksOn(w, pc),
         job[w].alone /\ OthersIdle(w) /\ FoundOut(w) => FoundOut(w)'
  PROVE  OwnInv'
<1>1. DialogsFit /\ job[w] \in Dialog
  BY DEF OwnInv, DialogsFit
<1>2. /\ [job[w] EXCEPT !.pc = pc] \in Dialog /\ DialogFits([job[w] EXCEPT !.pc = pc])
      /\ job' = [job EXCEPT ![w] = [job[w] EXCEPT !.pc = pc]]
  BY <1>1, PcMoves DEF Own!LooksOn, Own!Goes
<1>3. [job[w] EXCEPT !.pc = pc].alone = job[w].alone
  BY <1>1 DEF Dialog
<1>4. UNCHANGED <<season, nick_name, roster>>
  BY DEF Own!LooksOn
<1> QED BY <1>2, <1>3, <1>4, LookKeeps

\* An error is no surprise to a request that met no other, but for one kind.
LEMMA FailureKeeps ==
  ASSUME OwnInv, NEW w \in Workers, job[w].pc # "idle", Own!Fails(w),
         job[w].alone /\ OthersIdle(w) /\ FoundOut(w) => job[w].kind = "rename_roster"
  PROVE  OwnInv'
<1>1. Own!LooksOn(w, "error")
  BY DEF Own!Fails, Own!LooksOn
<1>2. job'[w].kind = job[w].kind /\ job'[w].pc = "error"
  BY <1>1 DEF OwnInv, DialogsFit, Dialog, Own!LooksOn, Own!Goes
<1>3. job[w].alone /\ OthersIdle(w) /\ FoundOut(w) => FoundOut(w)'
  BY <1>2 DEF FoundOut
<1> QED BY <1>1, <1>3, PcKeeps

-----------------------------------------------------------------------------
(* Profiles *)

LEMMA Begun ==
  ASSUME NEW w \in Workers, NEW r \in Dialog, Own!Begin(w, r)
  PROVE  /\ job'[w].kind = r.kind /\ job'[w].pc = r.pc /\ job'[w].id = r.id
         /\ job'[w].name = r.name /\ job'[w].season = r.season /\ job'[w].ticked = r.ticked
         /\ job'[w].swept = r.swept /\ job'[w].gone = r.gone
         /\ UNCHANGED <<season, nick_name, roster>> /\ job[w].pc = "idle"
BY DEF Own!Begin, Dialog

LEMMA BeginProfileKeeps ==
  ASSUME OwnInv, NEW w \in Workers, Own!BeginProfile(w)
  PROVE  OwnInv'
<1>1. PICK kind \in ProfileKinds, n \in Nicknames :
        \E p \in IF kind = "create_profile" THEN {None} ELSE Own!There(nick_name) :
          Own!Begin(w, [Own!Idle EXCEPT !.kind = kind, !.pc = "look", !.id = p, !.name = n])
  BY DEF Own!BeginProfile, ProfileKinds
<1>2. PICK p \in IF kind = "create_profile" THEN {None} ELSE Own!There(nick_name) :
        Own!Begin(w, [Own!Idle EXCEPT !.kind = kind, !.pc = "look", !.id = p, !.name = n])
  BY <1>1
<1> DEFINE r == [Own!Idle EXCEPT !.kind = kind, !.pc = "look", !.id = p, !.name = n]
<1>3. p \in Profiles \union {None} /\ (kind # "create_profile" => p \in Own!There(nick_name))
  BY <1>2 DEF OwnInv, RowsFit, Own!There
<1>4. r \in Dialog /\ r.kind = kind /\ r.pc = "look" /\ r.id = p /\ r.swept = {}
  BY <1>2, <1>3, IdleFits DEF Dialog, AnyName, Own!Idle
<1>5. DialogFits(r)
  <2>1. kind # "create_profile" => p \in Profiles
    BY <1>3 DEF OwnInv, RowsFit, Own!There
  <2>2. kind = "create_profile" => p = None
    BY <1>2
  <2> QED BY <1>2, <1>4, <2>1, <2>2 DEF DialogFits, ProfileKinds, SeasonKinds
<1>6. Own!Begin(w, r)
  BY <1>2
<1> HIDE DEF r
<1>7. /\ job'[w].pc = "look" /\ job'[w].kind = kind /\ job'[w].id = p
      /\ UNCHANGED nick_name
  BY <1>4, <1>6, Begun
<1>8. Own!There(nick_name)' = Own!There(nick_name)
  BY <1>7 DEF Own!There
<1>9. FoundOut(w)'
  BY <1>3, <1>7, <1>8 DEF FoundOut, ProfileKinds
<1> QED BY <1>4, <1>5, <1>6, <1>9, BeginFits

LEMMA CheckNicknameKeeps ==
  ASSUME OwnInv, NEW w \in Workers, Own!CheckNickname(w)
  PROVE  OwnInv'
<1>1. CASE Own!Taken(job[w].name, job[w].id)
  BY <1>1, RefusalKeeps DEF Own!CheckNickname
<1>2. CASE ~Own!Taken(job[w].name, job[w].id)
  <2>1. Own!LooksOn(w, "write") /\ job[w].pc = "look" /\ job[w].kind \in {"create_profile", "rename_profile"}
    BY <1>2 DEF Own!CheckNickname
  <2>2. /\ job'[w] = [job[w] EXCEPT !.pc = "write"] /\ job[w] \in Dialog
        /\ UNCHANGED nick_name
    BY <2>1 DEF Own!LooksOn, Own!Goes, OwnInv, DialogsFit
  <2>3. /\ job'[w].pc = "write" /\ job'[w].kind = job[w].kind
        /\ job'[w].id = job[w].id /\ job'[w].name = job[w].name
    BY <2>2 DEF Dialog
  <2>4. Own!Taken(job[w].name, job[w].id)' = Own!Taken(job[w].name, job[w].id)
    BY <2>2, <2>3 DEF Own!Taken, Own!There
  <2>5. Own!There(nick_name)' = Own!There(nick_name)
    BY <2>2 DEF Own!There
  <2>6. FoundOut(w) => FoundOut(w)'
    BY <1>2, <2>1, <2>3, <2>4, <2>5 DEF FoundOut
  <2> QED BY <2>1, <2>6, PcKeeps
<1> QED BY <1>1, <1>2

\* A nickname that differs in more than case differs.
LEMMA FreeNeverClashes ==
  ASSUME NEW n, NEW p, ~Own!Taken(n, p)
  PROVE  ~Own!Clashes(n, p)
BY DEF Own!Taken, Own!Clashes

\* Writing neither rosters nor seasons.
LEMMA ProfileWritten ==
  ASSUME OwnInv, NEW p, NEW n \in AnyName \union {Deleted},
         nick_name' = [nick_name EXCEPT ![p] = n], UNCHANGED <<season, roster>>
  PROVE  RowsFit' /\ OneCurrent'
BY DEF OwnInv, RowsFit, OneCurrent, Own!Current

LEMMA CreateProfileKeeps ==
  ASSUME OwnInv, NEW w \in Workers, Own!CreateProfile(w)
  PROVE  OwnInv'
<1>1. job[w] \in Dialog /\ DialogFits(job[w]) /\ job[w].pc = "write" /\ job[w].kind = "create_profile"
  BY DEF OwnInv, DialogsFit, Own!CreateProfile, Own!Is
<1>2. CASE Own!Clashes(job[w].name, None)
  <2>1. job[w].id = None
    BY <1>1 DEF DialogFits
  <2>2. ~FoundOut(w)
    BY <1>1, <1>2, <2>1, FreeNeverClashes DEF FoundOut
  <2> QED BY <1>1, <1>2, <2>2, FailureKeeps DEF Own!CreateProfile
<1>3. CASE ~Own!Clashes(job[w].name, None)
  <2>1. PICK p \in Own!Fresh(nick_name) : nick_name' = [nick_name EXCEPT ![p] = job[w].name]
    BY <1>3 DEF Own!CreateProfile
  <2>2. RowsFit' /\ OneCurrent'
    BY <1>1, <1>3, <2>1, ProfileWritten DEF Own!CreateProfile, Dialog
  <2> QED BY <1>1, <1>3, <2>2, DialogEndKeeps DEF Own!CreateProfile
<1> QED BY <1>2, <1>3

LEMMA RenameProfileKeeps ==
  ASSUME OwnInv, NEW w \in Workers, Own!RenameProfile(w)
  PROVE  OwnInv'
<1>1. job[w] \in Dialog /\ DialogFits(job[w]) /\ job[w].pc = "write" /\ job[w].kind = "rename_profile"
  BY DEF OwnInv, DialogsFit, Own!RenameProfile, Own!Is
<1> DEFINE refused == \/ job[w].id \notin Own!There(nick_name)
                      \/ Own!Clashes(job[w].name, job[w].id)
<1>2. CASE refused
  <2>1. ~FoundOut(w)
    BY <1>1, <1>2, FreeNeverClashes DEF FoundOut
  <2> QED BY <1>1, <1>2, <2>1, FailureKeeps DEF Own!RenameProfile
<1>3. CASE ~refused
  <2>1. nick_name' = [nick_name EXCEPT ![job[w].id] = job[w].name]
    BY <1>3 DEF Own!RenameProfile
  <2>2. RowsFit' /\ OneCurrent'
    BY <1>1, <1>3, <2>1, ProfileWritten DEF Own!RenameProfile, Dialog
  <2> QED BY <1>1, <1>3, <2>2, DialogEndKeeps DEF Own!RenameProfile
<1> QED BY <1>2, <1>3

LEMMA CheckHeldKeeps ==
  ASSUME OwnInv, NEW w \in Workers, Own!CheckHeld(w)
  PROVE  OwnInv'
<1>1. job[w].pc = "look" /\ job[w].kind = "delete_profile" /\ job[w] \in Dialog
  BY DEF OwnInv, DialogsFit, Own!CheckHeld, Own!Is
<1>2. CASE Own!Held(job[w].id) # {}
  BY <1>1, <1>2, RefusalKeeps DEF Own!CheckHeld
<1>3. CASE Own!Held(job[w].id) = {}
  <2> DEFINE new == [job[w] EXCEPT !.pc = "collect", !.known = Own!There(roster)]
  <2>1. job' = [job EXCEPT ![w] = new] /\ UNCHANGED <<season, nick_name, roster>>
    BY <1>3 DEF Own!CheckHeld
  <2>2. Own!There(roster) \subseteq Rosters
    BY DEF Own!There, OwnInv, RowsFit
  <2>3. /\ new \in Dialog /\ new.pc = "collect" /\ new.kind = "delete_profile"
        /\ new.id = job[w].id /\ new.alone = job[w].alone /\ new.swept = job[w].swept
    BY <1>1, <2>2 DEF Dialog
  <2> HIDE DEF new
  <2>4. DialogFits(new)
    BY <1>1, <2>3 DEF DialogFits, SeasonKinds, OwnInv, DialogsFit
  <2>5. job'[w] = new
    BY <2>1 DEF OwnInv, DialogsFit
  <2>6. Own!OfProfile(job[w].id)' = Own!OfProfile(job[w].id)
    BY <2>1, <2>3, <2>5 DEF Own!OfProfile, Own!There
  <2>7. FoundOut(w)'
    BY <1>3, <2>3, <2>5, <2>6 DEF FoundOut, Own!Held
  <2> QED BY <1>1, <2>1, <2>3, <2>4, <2>7, LookKeeps
<1> QED BY <1>2, <1>3

LEMMA CollectRostersKeeps ==
  ASSUME OwnInv, NEW w \in Workers, Own!CollectRosters(w)
  PROVE  OwnInv'
<1>1. job[w].pc = "collect" /\ job[w].kind = "delete_profile" /\ job[w] \in Dialog
      /\ DialogFits(job[w]) /\ UNCHANGED <<season, nick_name, roster>>
  BY DEF OwnInv, DialogsFit, Own!CollectRosters, Own!Is
<1> DEFINE new == [job[w] EXCEPT !.pc = "write", !.gone = Own!OfProfile(job[w].id)]
<1>2. Own!OfProfile(job[w].id) \subseteq Rosters
  BY DEF Own!OfProfile, Own!There, OwnInv, RowsFit
<1>3. /\ new \in Dialog /\ new.pc = "write" /\ new.kind = "delete_profile"
      /\ new.id = job[w].id /\ new.gone = Own!OfProfile(job[w].id) /\ new.alone = job[w].alone
      /\ new.swept = job[w].swept
  BY <1>1, <1>2 DEF Dialog
<1>4. job' = [job EXCEPT ![w] = new]
  BY DEF Own!CollectRosters
<1> HIDE DEF new
<1>5. DialogFits(new)
  BY <1>1, <1>3 DEF DialogFits, SeasonKinds
<1>6. job'[w] = new
  BY <1>4 DEF OwnInv, DialogsFit
<1>7. Own!OfProfile(job[w].id)' = Own!OfProfile(job[w].id)
  BY <1>1, <1>3, <1>6 DEF Own!OfProfile, Own!There
<1>8. FoundOut(w) => FoundOut(w)'
  BY <1>1, <1>3, <1>6, <1>7 DEF FoundOut
<1> QED BY <1>1, <1>3, <1>4, <1>5, <1>8, LookKeeps

LEMMA DeleteProfileKeeps ==
  ASSUME OwnInv, NEW w \in Workers, Own!DeleteProfile(w)
  PROVE  OwnInv'
<1>1. job[w] \in Dialog /\ job[w].pc = "write" /\ job[w].kind = "delete_profile"
  BY DEF OwnInv, DialogsFit, Own!DeleteProfile, Own!Is
<1>2. CASE ~(Own!OfProfile(job[w].id) \subseteq job[w].gone)
  <2>1. ~FoundOut(w)
    BY <1>1, <1>2 DEF FoundOut
  <2> QED BY <1>1, <1>2, <2>1, FailureKeeps DEF Own!DeleteProfile
<1>3. CASE Own!OfProfile(job[w].id) \subseteq job[w].gone
  <2>1. /\ nick_name' = [nick_name EXCEPT ![job[w].id] = Deleted]
        /\ roster' = [r \in Rosters |-> IF r \in job[w].gone THEN Deleted ELSE roster[r]]
        /\ Own!Ends(w) /\ UNCHANGED season
    BY <1>3 DEF Own!DeleteProfile
  <2>2. RowsFit' /\ OneCurrent'
    BY <2>1 DEF OwnInv, RowsFit, OneCurrent, Own!Current
  <2> QED BY <1>1, <2>1, <2>2, DialogEndKeeps
<1> QED BY <1>2, <1>3

-----------------------------------------------------------------------------
(* Rosters *)

\* There is an oldest profile wherever there is one.
LEMMA OldestIsOne ==
  ASSUME OwnConstants, RowsFit
  PROVE  /\ Own!There(nick_name) # {} => Own!Oldest # {}
         /\ Own!Oldest \subseteq Own!There(nick_name) /\ Own!There(nick_name) \subseteq Profiles
         /\ \A p, q \in Own!Oldest : p = q
<1> DEFINE T == Own!There(nick_name)
<1>1. T \subseteq Profiles /\ T \subseteq Nat
  BY OwnMarks DEF Own!There, RowsFit
<1> HIDE DEF T
<1>2. ASSUME T # {} PROVE Own!Oldest # {}
  <2>1. PICK p \in T : \A q \in T : p <= q
    BY <1>1, <1>2, LeastNumber
  <2> QED BY <2>1 DEF Own!Oldest, T
<1>3. \A p, q \in Own!Oldest : p = q
  BY <1>1 DEF Own!Oldest, T
<1>4. Own!Oldest \subseteq T
  BY DEF Own!Oldest, T
<1> QED BY <1>1, <1>2, <1>3, <1>4 DEF T

LEMMA BeginRosterKeeps ==
  ASSUME OwnConstants, OwnInv, NEW w \in Workers, Own!BeginRoster(w)
  PROVE  OwnInv'
<1>1. PICK n \in Names, s \in Own!Current, p \in Own!There(nick_name) \union {None} :
        /\ Own!There(nick_name) # {}
        /\ Own!Begin(w, [Own!Idle EXCEPT !.kind = "create_roster", !.pc = "look", !.id = p,
                                         !.name = n, !.season = s])
  BY DEF Own!BeginRoster
<1> DEFINE r == [Own!Idle EXCEPT !.kind = "create_roster", !.pc = "look", !.id = p,
                                 !.name = n, !.season = s]
<1>2. p \in Profiles \union {None} /\ s \in Seasons /\ s \in Own!There(season)
  BY <1>1, OwnMarks DEF OwnInv, RowsFit, Own!There, Own!Current
<1>3. /\ r \in Dialog /\ r.kind = "create_roster" /\ r.pc = "look" /\ r.id = p
      /\ r.swept = {} /\ r.season = s
  BY <1>1, <1>2 DEF Dialog, AnyName, Own!Idle, RosterKinds
<1>4. DialogFits(r)
  BY <1>2, <1>3 DEF DialogFits, SeasonKinds
<1> HIDE DEF r
<1>5. Own!Begin(w, r)
  BY <1>1 DEF r
<1>6. FoundOut(w)'
  BY <1>1, <1>2, <1>3, <1>5, Begun DEF FoundOut, Own!There
<1> QED BY <1>3, <1>4, <1>5, <1>6, BeginFits

LEMMA CheckRosterNameKeeps ==
  ASSUME OwnConstants, OwnInv, NEW w \in Workers, Own!CheckRosterName(w)
  PROVE  OwnInv'
<1> DEFINE j == job[w]
           choice == Own!Chosen(j.id)
           refused == \/ j.id # None /\ choice = {}
                      \/ \E p \in choice : Own!NameTaken(p, j.season, j.name)
           chosen == IF choice = {} THEN None ELSE CHOOSE p \in choice : TRUE
           new == [j EXCEPT !.pc = "write", !.id = chosen]
<1>1. j \in Dialog /\ DialogFits(j) /\ j.pc = "look" /\ j.kind = "create_roster"
  BY DEF OwnInv, DialogsFit, Own!CheckRosterName, Own!Is
<1>2. /\ choice \subseteq Own!There(nick_name) /\ Own!There(nick_name) \subseteq Profiles
      /\ Own!There(nick_name) # {} /\ j.id \in Own!There(nick_name) \union {None} => choice # {}
  BY OldestIsOne DEF OwnInv, Own!Chosen
<1>3. CASE refused
  BY <1>1, <1>3, RefusalKeeps DEF Own!CheckRosterName
<1>4. CASE ~refused
  <2>1. /\ UNCHANGED <<season, nick_name, roster>>
        /\ job' = [job EXCEPT ![w].pc = "write", ![w].id = chosen]
    BY <1>4 DEF Own!CheckRosterName
  <2>2. chosen \in choice \/ (choice = {} /\ chosen = None)
    OBVIOUS
  <2> HIDE DEF chosen
  <2>3. job' = [job EXCEPT ![w] = new]
    BY <2>1
  <2>4. chosen \in Profiles \union {None}
    BY <1>2, <2>2
  <2>5. /\ new \in Dialog /\ new.pc = "write" /\ new.kind = "create_roster" /\ new.id = chosen
        /\ new.season = j.season /\ new.name = j.name /\ new.alone = j.alone
        /\ new.swept = j.swept
    BY <1>1, <2>4 DEF Dialog
  <2> HIDE DEF new
  <2>6. DialogFits(new)
    BY <1>1, <2>4, <2>5 DEF DialogFits, SeasonKinds
  <2>7. job'[w] = new
    BY <2>3 DEF OwnInv, DialogsFit
  <2>8. \A p, t, n : Own!NameTaken(p, t, n)' = Own!NameTaken(p, t, n)
    BY <2>1 DEF Own!NameTaken, Own!OfProfile, Own!OfSeason, Own!There
  <2>9. FoundOut(w) => FoundOut(w)'
    BY <1>1, <1>2, <1>4, <2>1, <2>2, <2>5, <2>7, <2>8 DEF FoundOut, Own!There
  <2> QED BY <1>1, <2>1, <2>3, <2>5, <2>6, <2>9, LookKeeps
<1> QED BY <1>3, <1>4

LEMMA CreateRosterKeeps ==
  ASSUME OwnConstants, OwnInv, NEW w \in Workers, Own!CreateRoster(w)
  PROVE  OwnInv'
<1> DEFINE j == job[w]
           makes == j.id = None /\ Own!Oldest = {}
           manager == IF j.id # None THEN {j.id}
                      ELSE IF makes THEN Own!Fresh(nick_name) ELSE Own!Oldest
           refused(p) == \/ ~makes /\ p \notin Own!There(nick_name)
                         \/ j.season \notin Own!There(season)
                         \/ Own!NameTaken(p, j.season, j.name)
<1>1. j \in Dialog /\ DialogFits(j) /\ j.pc = "write" /\ j.kind = "create_roster"
  BY DEF OwnInv, DialogsFit, Own!CreateRoster, Own!Is
<1>2. PICK p \in manager, signings \in {"open", "closed"} :
        IF signings = "open" /\ refused(p)
        THEN Own!Fails(w)
        ELSE /\ nick_name' = IF makes THEN [nick_name EXCEPT ![p] = DefaultNickname] ELSE nick_name
             /\ IF signings = "closed" THEN UNCHANGED roster
                ELSE \E r \in Own!Fresh(roster) :
                       roster' = [roster EXCEPT ![r] =
                                    [manager |-> p, season |-> j.season, name |-> j.name]]
             /\ Own!Ends(w) /\ UNCHANGED season
  BY DEF Own!CreateRoster
<1>3. p \in Profiles /\ j.season \in Seasons /\ j.name \in AnyName
  <2>1. j.id \in Profiles \union {None} /\ j.season \in Seasons /\ j.name \in AnyName
    BY <1>1 DEF Dialog, DialogFits
  <2>2. Own!Oldest \subseteq Profiles /\ Own!Fresh(nick_name) \subseteq Profiles
    BY OldestIsOne DEF OwnInv, RowsFit, Own!Fresh
  <2> QED BY <1>2, <2>1, <2>2
<1>4. CASE signings = "open" /\ refused(p)
  <2>1. ASSUME FoundOut(w) PROVE FALSE
    <3>1. /\ j.id \in Own!There(nick_name) /\ j.season \in Own!There(season)
          /\ ~Own!NameTaken(j.id, j.season, j.name)
      BY <1>1, <2>1 DEF FoundOut
    <3>2. p = j.id
      BY <1>2, <3>1, OldestIsOne, OwnMarks DEF OwnInv
    <3> QED BY <1>4, <3>1, <3>2
  <2>2. Own!Fails(w)
    BY <1>2, <1>4
  <2> QED BY <1>1, <2>1, <2>2, FailureKeeps
<1>5. CASE ~(signings = "open" /\ refused(p))
  <2> DEFINE row == [manager |-> p, season |-> j.season, name |-> j.name]
  <2>1. /\ nick_name' \in {[nick_name EXCEPT ![p] = DefaultNickname], nick_name}
        /\ roster' = roster \/ \E r \in Own!Fresh(roster) : roster' = [roster EXCEPT ![r] = row]
        /\ Own!Ends(w) /\ UNCHANGED season
    BY <1>2, <1>5
  <2>2. row \in RosterRow
    BY <1>3 DEF RosterRow
  <2> HIDE DEF row
  <2>3. RowsFit'
    <3>1. nick_name' \in [Profiles -> AnyName \union {Unused, Deleted}]
      BY <2>1 DEF OwnInv, RowsFit, AnyName
    <3>2. roster' \in [Rosters -> RosterRow \union {Unused, Deleted}]
      BY <2>1, <2>2 DEF OwnInv, RowsFit
    <3> QED BY <2>1, <3>1, <3>2 DEF OwnInv, RowsFit
  <2>4. OneCurrent'
    BY <2>1 DEF OwnInv, OneCurrent, Own!Current
  <2> QED BY <1>1, <2>1, <2>3, <2>4, DialogEndKeeps
<1> QED BY <1>4, <1>5

LEMMA BeginOnRosterKeeps ==
  ASSUME OwnInv, NEW w \in Workers, Own!BeginOnRoster(w)
  PROVE  OwnInv'
<1>1. PICK kind \in {"rename_roster", "delete_roster"}, r \in Own!There(roster), n \in Names :
        Own!Begin(w, [Own!Idle EXCEPT !.kind = kind, !.pc = "write", !.id = r, !.name = n,
                                      !.ticked = roster[r].name # n])
  BY DEF Own!BeginOnRoster
<1> DEFINE new == [Own!Idle EXCEPT !.kind = kind, !.pc = "write", !.id = r, !.name = n,
                                   !.ticked = roster[r].name # n]
<1>2. r \in Rosters
  BY DEF Own!There, OwnInv, RowsFit
<1>3. new \in Dialog /\ new.kind = kind /\ new.pc = "write" /\ new.id = r /\ new.swept = {}
  BY <1>1, <1>2 DEF Dialog, AnyName, Own!Idle, RosterKinds
<1>4. DialogFits(new)
  BY <1>1, <1>2, <1>3 DEF DialogFits, SeasonKinds
<1> HIDE DEF new
<1>5. Own!Begin(w, new)
  BY <1>1 DEF new
<1>6. FoundOut(w)'
  BY <1>1, <1>3, <1>5, Begun DEF FoundOut
<1> QED BY <1>3, <1>4, <1>5, <1>6, BeginFits

LEMMA RenameRosterKeeps ==
  ASSUME OwnConstants, OwnInv, NEW w \in Workers, Own!RenameRoster(w)
  PROVE  OwnInv'
<1> DEFINE r == job[w].id
           refused == r \in Own!There(roster) =>
             \E q \in Own!OfProfile(roster[r].manager) \intersect Own!OfSeason(roster[r].season) :
               q # r /\ roster[q].name = job[w].name
<1>1. /\ job[w] \in Dialog /\ DialogFits(job[w]) /\ job[w].pc = "write"
      /\ job[w].kind = "rename_roster" /\ r \in Rosters
  BY DEF OwnInv, DialogsFit, Own!RenameRoster, Own!Is, DialogFits
<1>2. CASE ~job[w].ticked
  BY <1>1, <1>2, RefusalKeeps DEF Own!RenameRoster
<1>3. CASE job[w].ticked /\ refused
  <2>1. Own!Fails(w)
    BY <1>3 DEF Own!RenameRoster
  <2> QED BY <1>1, <2>1, FailureKeeps
<1>4. CASE job[w].ticked /\ ~refused
  <2>1. /\ roster' = [roster EXCEPT ![r].name = job[w].name]
        /\ Own!Ends(w) /\ UNCHANGED <<season, nick_name>> /\ r \in Own!There(roster)
    BY <1>4 DEF Own!RenameRoster
  <2>2. roster[r] \in RosterRow /\ job[w].name \in AnyName
    BY <1>1, <2>1 DEF Own!There, OwnInv, RowsFit, Dialog
  <2>3. [roster[r] EXCEPT !.name = job[w].name] \in RosterRow
    BY <2>2 DEF RosterRow
  <2>4. RowsFit' /\ OneCurrent'
    BY <2>1, <2>3 DEF OwnInv, RowsFit, OneCurrent, Own!Current
  <2> QED BY <1>1, <2>1, <2>4, DialogEndKeeps
<1> QED BY <1>2, <1>3, <1>4

LEMMA DeleteRosterKeeps ==
  ASSUME OwnInv, NEW w \in Workers, Own!DeleteRoster(w)
  PROVE  OwnInv'
<1>1. job[w].pc = "write"
  BY DEF Own!DeleteRoster, Own!Is
<1>2. RowsFit' /\ OneCurrent'
  BY DEF OwnInv, RowsFit, OneCurrent, Own!Current, Own!DeleteRoster
<1> QED BY <1>1, <1>2, DialogEndKeeps DEF Own!DeleteRoster

-----------------------------------------------------------------------------
(* Seasons *)

LEMMA BeginSeasonKeeps ==
  ASSUME OwnInv, NEW w \in Workers, Own!BeginSeason(w)
  PROVE  OwnInv'
<1> DEFINE first(kind, ticked) == IF kind = "save_season" /\ ticked THEN "sweep"
                                  ELSE IF kind = "save_season" THEN "write" ELSE "look"
<1>1. PICK kind \in SeasonKinds, s \in Seasons, ticked \in BOOLEAN :
        Own!Begin(w, [Own!Idle EXCEPT !.kind = kind, !.id = s, !.ticked = ticked,
                                      !.pc = first(kind, ticked)])
  BY DEF Own!BeginSeason, SeasonKinds
<1> DEFINE new == [Own!Idle EXCEPT !.kind = kind, !.id = s, !.ticked = ticked,
                                   !.pc = first(kind, ticked)]
<1>2. /\ first(kind, ticked) \in {"sweep", "write", "look"}
      /\ first(kind, ticked) = "sweep" => ticked
      /\ first(kind, ticked) = "look" => kind = "delete_season"
      /\ first(kind, ticked) = "write" => kind = "save_season" /\ ~ticked
  BY <1>1 DEF SeasonKinds
<1>3. /\ new \in Dialog /\ new.kind = kind /\ new.pc = first(kind, ticked) /\ new.id = s
      /\ new.ticked = ticked /\ new.swept = {}
  BY <1>1, <1>2 DEF Dialog, AnyName, Own!Idle, SeasonKinds
<1> HIDE DEF first
<1>4. DialogFits(new)
  BY <1>1, <1>2, <1>3 DEF DialogFits, SeasonKinds
<1> HIDE DEF new
<1>5. Own!Begin(w, new)
  BY <1>1 DEF new
<1>6. FoundOut(w)'
  BY <1>1, <1>2, <1>3, <1>5, Begun DEF FoundOut, SeasonKinds
<1> QED BY <1>2, <1>3, <1>4, <1>5, <1>6, BeginFits

LEMMA FindCurrentKeeps ==
  ASSUME OwnInv, NEW w \in Workers, Own!FindCurrent(w)
  PROVE  OwnInv'
<1> DEFINE new == [job[w] EXCEPT !.pc = "lock", !.gone = Own!Current \ {job[w].id}]
<1>1. /\ job[w] \in Dialog /\ DialogFits(job[w]) /\ job[w].pc = "sweep"
      /\ job[w].kind = "save_season" /\ job' = [job EXCEPT ![w] = new]
      /\ UNCHANGED <<season, nick_name, roster>>
  BY DEF OwnInv, DialogsFit, Own!FindCurrent, Own!Is
<1>2. Own!Current \subseteq Seasons
  BY DEF Own!Current
<1>3. /\ new \in Dialog /\ new.pc = "lock" /\ new.kind = "save_season" /\ new.id = job[w].id
      /\ new.gone = Own!Current \ {job[w].id} /\ new.alone = job[w].alone
      /\ new.ticked = job[w].ticked /\ new.swept = job[w].swept
  BY <1>1, <1>2 DEF Dialog
<1> HIDE DEF new
<1>4. DialogFits(new)
  BY <1>1, <1>3 DEF DialogFits, SeasonKinds
<1>5. job'[w] = new
  BY <1>1 DEF OwnInv, DialogsFit
<1>6. Own!Current' = Own!Current
  BY <1>1 DEF Own!Current
<1>7. FoundOut(w) => FoundOut(w)'
  BY <1>1, <1>3, <1>5, <1>6 DEF FoundOut
<1> QED BY <1>1, <1>3, <1>4, <1>7, LookKeeps

LEMMA SweepKeeps ==
  ASSUME OwnInv, NEW w \in Workers, Own!Sweep(w)
  PROVE  OwnInv'
<1> DEFINE new == [job[w] EXCEPT !.pc = "write", !.swept = job[w].gone \intersect Own!Current,
                                 !.gone = {}]
<1>1. /\ job[w] \in Dialog /\ DialogFits(job[w]) /\ job[w].pc = "lock"
      /\ job[w].kind = "save_season" /\ job' = [job EXCEPT ![w] = new]
      /\ UNCHANGED <<season, nick_name, roster>>
  BY DEF OwnInv, DialogsFit, Own!Sweep, Own!Is
<1>2. Own!Current \subseteq Seasons
  BY DEF Own!Current
<1>3. /\ new \in Dialog /\ new.pc = "write" /\ new.kind = "save_season" /\ new.id = job[w].id
      /\ new.swept = job[w].gone \intersect Own!Current /\ new.alone = job[w].alone
      /\ new.ticked = job[w].ticked
  BY <1>1, <1>2 DEF Dialog
<1> HIDE DEF new
<1>4. DialogFits(new)
  BY <1>1, <1>3 DEF DialogFits, SeasonKinds
<1>5. job'[w] = new
  BY <1>1 DEF OwnInv, DialogsFit
<1>6. Own!Current' = Own!Current
  BY <1>1 DEF Own!Current
<1>7. FoundOut(w) => FoundOut(w)'
  BY <1>1, <1>3, <1>5, <1>6 DEF FoundOut
<1> QED BY <1>1, <1>3, <1>4, <1>7, LookKeeps

\* What saving writes: the ticked season alone is current afterwards.
LEMMA SavedSeasons ==
  ASSUME OwnConstants, OwnInv, NEW w \in Workers, Own!SaveSeason(w),
         ~(job[w].ticked /\ ~(Own!Current \subseteq job[w].swept \union {job[w].id}))
  PROVE  /\ job[w].id \in Seasons /\ Own!Ends(w) /\ UNCHANGED <<nick_name, roster>>
         /\ season' \in [Seasons -> {"current", "plain", Unused, Deleted}]
         /\ season'[job[w].id] = (IF job[w].ticked THEN "current" ELSE "plain")
         /\ job[w].ticked => \A s \in Seasons : season'[s] = "current" <=> s = job[w].id
         /\ ~job[w].ticked => \A s \in Seasons \ {job[w].id} : season'[s] = season[s]
<1> DEFINE j == job[w]
<1>1. j \in Dialog /\ DialogFits(j) /\ j.pc = "write" /\ j.kind = "save_season"
  BY DEF OwnInv, DialogsFit, Own!SaveSeason, Own!Is
<1>2. j.id \in Seasons /\ (~j.ticked => j.swept = {}) /\ j.ticked \in BOOLEAN
  BY <1>1 DEF DialogFits, SeasonKinds, Dialog
<1>3. /\ season' = [s \in Seasons |-> CASE s = j.id -> IF j.ticked THEN "current" ELSE "plain"
                                         [] s \in j.swept -> "plain"
                                         [] OTHER -> season[s]]
      /\ Own!Ends(w) /\ UNCHANGED <<nick_name, roster>>
  BY DEF Own!SaveSeason
<1>4. ASSUME NEW s \in Seasons
      PROVE  /\ s = j.id => season'[s] = IF j.ticked THEN "current" ELSE "plain"
             /\ s # j.id /\ s \in j.swept => season'[s] = "plain"
             /\ s # j.id /\ s \notin j.swept => season'[s] = season[s]
  <2>1. season'[s] = CASE s = j.id -> IF j.ticked THEN "current" ELSE "plain"
                       [] s \in j.swept -> "plain"
                       [] OTHER -> season[s]
    BY <1>3, Zenon
  <2>2. j.id \notin j.swept
    BY <1>1 DEF DialogFits
  <2>3. ASSUME s = j.id PROVE season'[s] = IF j.ticked THEN "current" ELSE "plain"
    BY <2>1, <2>2, <2>3, Zenon
  <2>4. ASSUME s # j.id, s \in j.swept PROVE season'[s] = "plain"
    BY <2>1, <2>4, Zenon
  <2>5. ASSUME s # j.id, s \notin j.swept PROVE season'[s] = season[s]
    BY <2>1, <2>5, Zenon
  <2> QED BY <2>3, <2>4, <2>5
<1>5. ASSUME j.ticked, NEW s \in Seasons
      PROVE  season'[s] = "current" <=> s = j.id
  <2>1. s # j.id /\ s \notin j.swept => season[s] # "current"
    BY <1>5 DEF Own!Current
  <2> QED BY <1>4, <1>5, <2>1
<1>6. season' \in [Seasons -> {"current", "plain", Unused, Deleted}]
  <2>1. \A s \in Seasons : season'[s] \in {"current", "plain", Unused, Deleted}
    BY <1>2, <1>4 DEF OwnInv, RowsFit
  <2>2. season' = [s \in Seasons |-> season'[s]]
    BY <1>3
  <2> QED BY <2>1, <2>2
<1> QED BY <1>2, <1>3, <1>4, <1>5, <1>6

LEMMA SaveSeasonKeeps ==
  ASSUME OwnConstants, OwnInv, NEW w \in Workers, Own!SaveSeason(w)
  PROVE  OwnInv'
<1> DEFINE refused == job[w].ticked /\ ~(Own!Current \subseteq job[w].swept \union {job[w].id})
<1>1. /\ job[w] \in Dialog /\ job[w].pc = "write" /\ job[w].kind = "save_season"
  BY DEF OwnInv, DialogsFit, Own!SaveSeason, Own!Is
<1>2. CASE refused
  <2>1. ~FoundOut(w)
    BY <1>1, <1>2 DEF FoundOut
  <2> QED BY <1>1, <1>2, <2>1, FailureKeeps DEF Own!SaveSeason
<1>3. CASE ~refused
  <2>1. RowsFit'
    BY <1>3, SavedSeasons DEF OwnInv, RowsFit
  <2>2. ASSUME NEW s \in Own!Current', NEW t \in Own!Current' PROVE s = t
    <3>1. s \in Seasons /\ t \in Seasons /\ season'[s] = "current" /\ season'[t] = "current"
      BY <2>2 DEF Own!Current
    <3>2. CASE job[w].ticked
      BY <1>3, <3>1, <3>2, SavedSeasons
    <3>3. CASE ~job[w].ticked
      <4>1. s \in Own!Current /\ t \in Own!Current
        BY <1>3, <3>1, <3>3, SavedSeasons DEF Own!Current
      <4> QED BY <4>1 DEF OwnInv, OneCurrent
    <3> QED BY <3>2, <3>3
  <2>3. OneCurrent'
    BY <2>2 DEF OneCurrent
  <2> QED BY <1>1, <1>3, <2>1, <2>3, SavedSeasons, DialogEndKeeps
<1> QED BY <1>2, <1>3

LEMMA CheckSeasonKeeps ==
  ASSUME OwnInv, NEW w \in Workers, Own!CheckSeason(w)
  PROVE  OwnInv'
<1>1. job[w].pc \in {"look", "collect"} /\ job[w].kind = "delete_season" /\ job[w] \in Dialog
  BY DEF OwnInv, DialogsFit, Own!CheckSeason
<1>2. CASE Own!OfSeason(job[w].id) # {}
  BY <1>1, <1>2, RefusalKeeps DEF Own!CheckSeason
<1>3. CASE Own!OfSeason(job[w].id) = {}
  <2>1. PICK pc \in {"collect", "write"} : Own!LooksOn(w, pc)
    BY <1>3 DEF Own!CheckSeason
  <2>2. job'[w].pc = pc /\ job'[w].kind = job[w].kind /\ job'[w].id = job[w].id
    BY <1>1, <2>1 DEF Own!LooksOn, Own!Goes, OwnInv, DialogsFit, Dialog
  <2>3. Own!OfSeason(job[w].id)' = Own!OfSeason(job[w].id)
    BY <2>1, <2>2 DEF Own!LooksOn, Own!OfSeason, Own!There
  <2>4. FoundOut(w)'
    BY <1>1, <1>3, <2>1, <2>2, <2>3 DEF FoundOut
  <2> QED BY <1>1, <2>1, <2>4, PcKeeps
<1> QED BY <1>2, <1>3

LEMMA DeleteSeasonKeeps ==
  ASSUME OwnConstants, OwnInv, NEW w \in Workers, Own!DeleteSeason(w)
  PROVE  OwnInv'
<1>1. job[w].pc = "write" /\ job[w].kind = "delete_season"
  BY DEF Own!DeleteSeason, Own!Is
<1>2. CASE Own!OfSeason(job[w].id) # {}
  <2>1. ~FoundOut(w)
    BY <1>1, <1>2 DEF FoundOut
  <2> QED BY <1>1, <1>2, <2>1, FailureKeeps DEF Own!DeleteSeason
<1>3. CASE Own!OfSeason(job[w].id) = {}
  <2>1. /\ season' = [season EXCEPT ![job[w].id] = Deleted]
        /\ Own!Ends(w) /\ UNCHANGED <<nick_name, roster>>
    BY <1>3 DEF Own!DeleteSeason
  <2>2. RowsFit'
    BY <2>1 DEF OwnInv, RowsFit
  <2>3. Own!Current' \subseteq Own!Current
    BY <2>1, OwnMarks DEF Own!Current, OwnInv, RowsFit
  <2>4. OneCurrent'
    BY <2>3 DEF OneCurrent, OwnInv
  <2> QED BY <1>1, <2>1, <2>2, <2>4, DialogEndKeeps
<1> QED BY <1>2, <1>3

-----------------------------------------------------------------------------
(* All of it *)

LEMMA LeaveKeeps ==
  ASSUME OwnInv, NEW w \in Workers, Own!Leave(w)
  PROVE  OwnInv'
BY RefusalKeeps DEF Own!Leave

\* Ownership counts as everybody does.
LEMMA OwnCounts == \A S : Own!Cardinality(S) = Cardinality(S)
BY Zenon DEF Own!Cardinality, Cardinality, Own!IsFiniteSet, IsFiniteSet

LEMMA OwnInvBegins == OwnConstants /\ Own!Init => OwnInv
<1> SUFFICES ASSUME OwnConstants, Own!Init PROVE OwnInv
  OBVIOUS
<1>1. DialogsFit
  BY IdleFits DEF Own!Init, DialogsFit
<1>2. RowsFit
  BY DEF Own!Init, RowsFit, AnyName
<1>3. ASSUME NEW s \in Own!Current, NEW t \in Own!Current, s # t PROVE FALSE
  <2>1. Own!Current \subseteq Seasons /\ IsFiniteSet(Seasons)
    BY OwnMarks DEF Own!Current
  <2>2. IsFiniteSet(Own!Current) /\ {s, t} \subseteq Own!Current
    BY <2>1, <1>3, FS_Subset
  <2>3. Cardinality({s, t}) <= Cardinality(Own!Current)
    BY <2>2, FS_Subset
  <2>4. Cardinality({s, t}) = 2
    <3>1. IsFiniteSet({t}) /\ Cardinality({t}) = 1
      BY FS_Singleton
    <3>2. Cardinality({t} \union {s}) = 2
      BY <1>3, <3>1, FS_AddElement
    <3> QED BY <3>2, {t} \union {s} = {s, t}
  <2>5. Cardinality(Own!Current) <= 1 /\ Cardinality(Own!Current) \in Nat
    BY <2>2, FS_CardinalityType, OwnCounts DEF Own!Init
  <2> QED BY <2>3, <2>4, <2>5
<1>4. OneCurrent
  BY <1>3 DEF OneCurrent
<1>5. AloneKnows
  BY IdleFits DEF Own!Init, AloneKnows
<1> QED BY <1>1, <1>2, <1>4, <1>5 DEF OwnInv

LEMMA OwnInvStays == OwnConstants /\ OwnInv /\ [Own!Next]_Own!vars => OwnInv'
<1> SUFFICES ASSUME OwnConstants, OwnInv, [Own!Next]_Own!vars PROVE OwnInv'
  OBVIOUS
<1>1. CASE UNCHANGED Own!vars
  <2>1. UNCHANGED <<season, nick_name, roster, job>>
    BY <1>1 DEF Own!vars
  <2>2. DialogsFit' /\ RowsFit' /\ OneCurrent'
    BY <2>1 DEF OwnInv, DialogsFit, RowsFit, OneCurrent, Own!Current
  <2>3. \A w \in Workers : FoundOut(w)' = FoundOut(w)
    BY <2>1 DEF FoundOut, Own!Taken, Own!There, Own!OfProfile, Own!OfSeason, Own!NameTaken, Own!Current
  <2>4. AloneKnows'
    BY <2>1, <2>3 DEF OwnInv, AloneKnows, OthersIdle
  <2> QED BY <2>2, <2>4 DEF OwnInv
<1>2. ASSUME NEW w \in Workers, Own!OfProfiles(w) PROVE OwnInv'
  BY <1>2, BeginProfileKeeps, CheckNicknameKeeps, CreateProfileKeeps, RenameProfileKeeps,
     CheckHeldKeeps, CollectRostersKeeps, DeleteProfileKeeps DEF Own!OfProfiles
<1>3. ASSUME NEW w \in Workers, Own!OfRosters(w) PROVE OwnInv'
  BY <1>3, BeginRosterKeeps, CheckRosterNameKeeps, CreateRosterKeeps, BeginOnRosterKeeps,
     RenameRosterKeeps, DeleteRosterKeeps DEF Own!OfRosters
<1>4. ASSUME NEW w \in Workers, Own!OfSeasons(w) PROVE OwnInv'
  BY <1>4, BeginSeasonKeeps, FindCurrentKeeps, SweepKeeps, SaveSeasonKeeps, CheckSeasonKeeps,
     DeleteSeasonKeeps DEF Own!OfSeasons
<1> QED BY <1>1, <1>2, <1>3, <1>4, LeaveKeeps DEF Own!Next

LEMMA OwnInvHolds == OwnConstants => (Own!Spec => []OwnInv)
<1> SUFFICES ASSUME OwnConstants PROVE Own!Spec => []OwnInv
  OBVIOUS
<1>1. Own!Init => OwnInv
  BY OwnInvBegins
<1>2. OwnInv /\ [Own!Next]_Own!vars => OwnInv'
  BY OwnInvStays
<1> QED BY <1>1, <1>2, PTL DEF Own!Spec

-----------------------------------------------------------------------------
(* Who writes what *)

\* A step of w's request.
StepOf(w) == Own!OfProfiles(w) \/ Own!OfRosters(w) \/ Own!OfSeasons(w) \/ Own!Leave(w)

LEMMA WhoWrites ==
  ASSUME OwnInv, NEW w \in Workers, StepOf(w)
  PROVE  /\ season' = season \/ Own!SaveSeason(w) \/ Own!DeleteSeason(w)
         /\ \/ roster' = roster
            \/ Own!DeleteProfile(w) \/ Own!CreateRoster(w)
            \/ Own!RenameRoster(w) \/ Own!DeleteRoster(w)
         /\ \/ nick_name' = nick_name
            \/ Own!CreateProfile(w) \/ Own!RenameProfile(w)
            \/ Own!DeleteProfile(w) \/ Own!CreateRoster(w)
         /\ \A v \in Workers \ {w} :
              /\ job'[v].pc = job[v].pc /\ job'[v].kind = job[v].kind /\ job'[v].id = job[v].id
              /\ job'[v].gone = job[v].gone /\ job'[v].known = job[v].known
<1> USE DEF Own!Ends, Own!Goes, Own!Refused, Own!Fails, Own!LooksOn
<1>0. job \in [Workers -> Dialog]
  BY DEF OwnInv, DialogsFit
<1>1. ASSUME NEW r, Own!Begin(w, r)
      PROVE  /\ UNCHANGED <<season, nick_name, roster>>
             /\ \A v \in Workers \ {w} :
                  /\ job'[v].pc = job[v].pc /\ job'[v].kind = job[v].kind
                  /\ job'[v].id = job[v].id /\ job'[v].gone = job[v].gone
                  /\ job'[v].known = job[v].known
  <2>1. ASSUME NEW v \in Workers \ {w}
        PROVE  /\ job'[v].pc = job[v].pc /\ job'[v].kind = job[v].kind
               /\ job'[v].id = job[v].id /\ job'[v].gone = job[v].gone
               /\ job'[v].known = job[v].known
    <3>1. job'[v] = [job[v] EXCEPT !.alone = job[v].alone /\ job[v].pc = "idle"]
      BY <1>1 DEF Own!Begin
    <3> QED BY <1>0, <3>1 DEF Dialog
  <2> QED BY <1>1, <2>1 DEF Own!Begin
<1>2. CASE Own!BeginProfile(w)
  BY <1>2, <1>1 DEF Own!BeginProfile
<1>3. CASE Own!CheckNickname(w)
  BY <1>3, <1>0 DEF Own!CheckNickname
<1>4. CASE Own!CreateProfile(w)
  BY <1>4, <1>0 DEF Own!CreateProfile
<1>5. CASE Own!RenameProfile(w)
  BY <1>5, <1>0 DEF Own!RenameProfile
<1>6. CASE Own!CheckHeld(w)
  BY <1>6, <1>0 DEF Own!CheckHeld
<1>7. CASE Own!CollectRosters(w)
  BY <1>7, <1>0 DEF Own!CollectRosters
<1>8. CASE Own!DeleteProfile(w)
  BY <1>8, <1>0 DEF Own!DeleteProfile
<1>9. CASE Own!BeginRoster(w)
  BY <1>9, <1>1 DEF Own!BeginRoster
<1>10. CASE Own!CheckRosterName(w)
  BY <1>10, <1>0 DEF Own!CheckRosterName
<1>11. CASE Own!CreateRoster(w)
  BY <1>11, <1>0 DEF Own!CreateRoster
<1>12. CASE Own!BeginOnRoster(w)
  BY <1>12, <1>1 DEF Own!BeginOnRoster
<1>13. CASE Own!RenameRoster(w)
  BY <1>13, <1>0 DEF Own!RenameRoster
<1>14. CASE Own!DeleteRoster(w)
  BY <1>14, <1>0 DEF Own!DeleteRoster
<1>15. CASE Own!BeginSeason(w)
  BY <1>15, <1>1 DEF Own!BeginSeason
<1>16. CASE Own!FindCurrent(w)
  BY <1>16, <1>0 DEF Own!FindCurrent
<1>17. CASE Own!Sweep(w)
  BY <1>17, <1>0 DEF Own!Sweep
<1>18. CASE Own!SaveSeason(w)
  BY <1>18, <1>0 DEF Own!SaveSeason
<1>19. CASE Own!CheckSeason(w)
  BY <1>19, <1>0 DEF Own!CheckSeason
<1>20. CASE Own!DeleteSeason(w)
  BY <1>20, <1>0 DEF Own!DeleteSeason
<1>21. CASE Own!Leave(w)
  BY <1>21, <1>0 DEF Own!Leave
<1> QED BY <1>2, <1>3, <1>4, <1>5, <1>6, <1>7, <1>8, <1>9, <1>10, <1>11,
       <1>12, <1>13, <1>14, <1>15, <1>16, <1>17, <1>18, <1>19, <1>20, <1>21
       DEF StepOf, Own!OfProfiles, Own!OfRosters, Own!OfSeasons

-----------------------------------------------------------------------------
(* What a profile's deletion takes *)

Deleting(j) == j.kind = "delete_profile" /\ j.pc \in {"collect", "write"}

\* A profile had no roster when its deletion looked, and gets none of those that
\* were there: rows are never used twice, and no roster changes its profile.
TakesNoneItKnew ==
  \A w \in Workers : Deleting(job[w]) =>
    /\ \A r \in job[w].known : roster[r] # Unused
    /\ Own!OfProfile(job[w].id) \intersect job[w].known = {}
    /\ job[w].pc = "write" => job[w].gone \intersect job[w].known = {}

LEMMA RostersKeepTheirProfile ==
  ASSUME OwnConstants, OwnInv, NEW w \in Workers, StepOf(w),
         NEW r \in Rosters, roster[r] # Unused
  PROVE  /\ roster'[r] # Unused
         /\ \A p : r \in Own!OfProfile(p)' => r \in Own!OfProfile(p)
<1> USE DEF Own!OfProfile, Own!There, Own!Fails, Own!Goes, Own!Refused
<1>0. roster \in [Rosters -> RosterRow \union {Unused, Deleted}] /\ Unused # Deleted
  BY OwnMarks DEF OwnInv, RowsFit
<1>1. CASE roster' = roster
  BY <1>1
<1>2. CASE Own!DeleteProfile(w)
  <2>1. \/ roster' = roster
        \/ roster' = [q \in Rosters |-> IF q \in job[w].gone THEN Deleted ELSE roster[q]]
    BY <1>2 DEF Own!DeleteProfile
  <2> QED BY <1>0, <1>1, <2>1
<1>3. CASE Own!CreateRoster(w)
  <2>1. \/ roster' = roster
        \/ \E q \in Own!Fresh(roster) : \E row : roster' = [roster EXCEPT ![q] = row]
    BY <1>3 DEF Own!CreateRoster
  <2> QED BY <1>0, <1>1, <2>1 DEF Own!Fresh
<1>4. CASE Own!RenameRoster(w)
  <2>1. \/ roster' = roster
        \/ /\ roster' = [roster EXCEPT ![job[w].id].name = job[w].name]
           /\ job[w].id \in Own!There(roster) /\ job[w].name \in AnyName
    BY <1>4 DEF Own!RenameRoster, OwnInv, DialogsFit, Dialog
  <2>2. ASSUME roster' = [roster EXCEPT ![job[w].id].name = job[w].name], job[w].id = r,
               r \in Own!There(roster), job[w].name \in AnyName
        PROVE  roster'[r] \in RosterRow /\ roster'[r].manager = roster[r].manager
    BY <1>0, <2>2 DEF RosterRow
  <2> QED BY <1>0, <1>1, <2>1, <2>2, OwnMarks
<1>5. CASE Own!DeleteRoster(w)
  BY <1>0, <1>5 DEF Own!DeleteRoster
<1> QED BY <1>1, <1>2, <1>3, <1>4, <1>5, WhoWrites

\* Whose request it is that looks and collects.
LEMMA WhoDeletes ==
  ASSUME OwnInv, NEW w \in Workers, StepOf(w), Deleting(job'[w])
  PROVE  Own!CheckHeld(w) \/ Own!CollectRosters(w)
<1> USE DEF Own!Ends, Own!Goes, Own!Refused, Own!Fails, Own!LooksOn, Deleting, Own!Is, Own!Idle
<1>0. job \in [Workers -> Dialog]
  BY DEF OwnInv, DialogsFit
<1>1. ASSUME NEW r, {"pc", "kind"} \subseteq DOMAIN r, Own!Begin(w, r)
      PROVE  job'[w].pc = r.pc /\ job'[w].kind = r.kind
  <2>1. PICK a : job'[w] = [r EXCEPT !.alone = a]
    BY <1>0, <1>1 DEF Own!Begin
  <2> QED BY <1>1, <2>1
<1>2. ~Own!BeginProfile(w)
  <2> SUFFICES ASSUME Own!BeginProfile(w) PROVE FALSE
    OBVIOUS
  <2>1. PICK k, n, p :
          Own!Begin(w, [Own!Idle EXCEPT !.kind = k, !.pc = "look", !.id = p, !.name = n])
    BY DEF Own!BeginProfile
  <2> DEFINE r == [Own!Idle EXCEPT !.kind = k, !.pc = "look", !.id = p, !.name = n]
  <2>2. {"pc", "kind"} \subseteq DOMAIN r /\ r.pc = "look"
    OBVIOUS
  <2> HIDE DEF r
  <2>3. Own!Begin(w, r)
    BY <2>1 DEF r
  <2> QED BY <1>1, <2>2, <2>3
<1>3. ~Own!BeginRoster(w)
  <2> SUFFICES ASSUME Own!BeginRoster(w) PROVE FALSE
    OBVIOUS
  <2>1. PICK n, s, p :
          Own!Begin(w, [Own!Idle EXCEPT !.kind = "create_roster", !.pc = "look",
                                     !.id = p, !.name = n, !.season = s])
    BY DEF Own!BeginRoster
  <2> DEFINE r == [Own!Idle EXCEPT !.kind = "create_roster", !.pc = "look",
                              !.id = p, !.name = n, !.season = s]
  <2>2. {"pc", "kind"} \subseteq DOMAIN r /\ r.pc = "look"
    OBVIOUS
  <2> HIDE DEF r
  <2>3. Own!Begin(w, r)
    BY <2>1 DEF r
  <2> QED BY <1>1, <2>2, <2>3
<1>4. ~Own!BeginOnRoster(w)
  <2> SUFFICES ASSUME Own!BeginOnRoster(w) PROVE FALSE
    OBVIOUS
  <2>1. PICK k \in {"rename_roster", "delete_roster"}, q \in Own!There(roster), n \in Names :
          Own!Begin(w, [Own!Idle EXCEPT !.kind = k, !.pc = "write", !.id = q, !.name = n,
                                        !.ticked = roster[q].name # n])
    BY DEF Own!BeginOnRoster
  <2> DEFINE r == [Own!Idle EXCEPT !.kind = k, !.pc = "write", !.id = q, !.name = n,
                                   !.ticked = roster[q].name # n]
  <2>2. {"pc", "kind"} \subseteq DOMAIN r /\ r.kind = k
    OBVIOUS
  <2> HIDE DEF r
  <2>3. Own!Begin(w, r)
    BY <2>1 DEF r
  <2> QED BY <1>1, <2>2, <2>3
<1>5. ~Own!BeginSeason(w)
  <2> SUFFICES ASSUME Own!BeginSeason(w) PROVE FALSE
    OBVIOUS
  <2> DEFINE first(k, t) == IF k = "save_season" /\ t THEN "sweep"
                            ELSE IF k = "save_season" THEN "write" ELSE "look"
  <2>1. PICK k \in {"save_season", "delete_season"}, s \in Seasons, t \in BOOLEAN :
          Own!Begin(w, [Own!Idle EXCEPT !.kind = k, !.id = s, !.ticked = t, !.pc = first(k, t)])
    <3> HIDE DEF Own!Idle, Own!Is, Own!LooksOn, Own!Fails, Own!Refused, Own!Ends, Own!Goes, Deleting
    <3> QED BY DEF Own!BeginSeason
  <2> DEFINE r == [Own!Idle EXCEPT !.kind = k, !.id = s, !.ticked = t, !.pc = first(k, t)]
  <2>2. {"pc", "kind"} \subseteq DOMAIN r /\ r.kind = k
    OBVIOUS
  <2> HIDE DEF r
  <2>3. Own!Begin(w, r)
    BY <2>1 DEF r
  <2> QED BY <1>1, <2>2, <2>3
<1>6. CASE Own!OfProfiles(w)
  <2>1. ~Own!CheckNickname(w)
    BY <1>0 DEF Own!CheckNickname, Dialog
  <2>2. ~Own!CreateProfile(w) /\ ~Own!RenameProfile(w)
    BY <1>0 DEF Own!CreateProfile, Own!RenameProfile, Dialog
  <2>3. ~Own!DeleteProfile(w)
    BY <1>0 DEF Own!DeleteProfile, Dialog
  <2> QED BY <1>2, <1>6, <2>1, <2>2, <2>3 DEF Own!OfProfiles
<1>7. CASE Own!OfRosters(w)
  <2>1. ~Own!CheckRosterName(w)
    <3> SUFFICES ASSUME Own!CheckRosterName(w) PROVE FALSE
      OBVIOUS
    <3>1. (job'[w].kind = job[w].kind /\ job[w].kind = "create_roster") \/ job'[w].pc = "idle"
      BY <1>0 DEF Own!CheckRosterName, Dialog
    <3> QED BY <3>1
  <2>2. ~Own!CreateRoster(w)
    <3> SUFFICES ASSUME Own!CreateRoster(w) PROVE FALSE
      OBVIOUS
    <3>1. Own!Fails(w) \/ Own!Ends(w)
      BY DEF Own!CreateRoster
    <3> QED BY <1>0, <3>1 DEF Dialog
  <2>3. ~Own!RenameRoster(w) /\ ~Own!DeleteRoster(w)
    BY <1>0 DEF Own!RenameRoster, Own!DeleteRoster, Dialog
  <2> QED BY <1>3, <1>4, <1>7, <2>1, <2>2, <2>3 DEF Own!OfRosters
<1>8. CASE Own!OfSeasons(w)
  <2>1. ~Own!FindCurrent(w) /\ ~Own!Sweep(w)
    BY <1>0 DEF Own!FindCurrent, Own!Sweep, Dialog
  <2>2. ~Own!SaveSeason(w)
    <3> SUFFICES ASSUME Own!SaveSeason(w) PROVE FALSE
      OBVIOUS
    <3>1. Own!Fails(w) \/ Own!Ends(w)
      BY DEF Own!SaveSeason
    <3> QED BY <1>0, <3>1 DEF Dialog
  <2>3. ~Own!CheckSeason(w)
    BY <1>0 DEF Own!CheckSeason, Dialog
  <2>4. ~Own!DeleteSeason(w)
    BY <1>0 DEF Own!DeleteSeason, Dialog
  <2> QED BY <1>5, <1>8, <2>1, <2>2, <2>3, <2>4 DEF Own!OfSeasons
<1>9. CASE Own!Leave(w)
  BY <1>0, <1>9 DEF Own!Leave
<1> QED BY <1>9, <1>6, <1>7, <1>8 DEF StepOf

LEMMA KnewStays ==
  ASSUME OwnConstants, OwnInv, TakesNoneItKnew, NEW w \in Workers, StepOf(w)
  PROVE  TakesNoneItKnew'
<1> SUFFICES ASSUME NEW v \in Workers, Deleting(job'[v])
             PROVE  /\ \A r \in job'[v].known : roster'[r] # Unused
                    /\ Own!OfProfile(job[v].id)' \intersect job'[v].known = {}
                    /\ job'[v].pc = "write" => job'[v].gone \intersect job'[v].known = {}
  BY DEF TakesNoneItKnew
<1>0. job \in [Workers -> Dialog] /\ Own!There(roster) \subseteq Rosters
  BY DEF OwnInv, DialogsFit, RowsFit, Own!There
<1>1. CASE v # w
  <2>1. /\ job'[v].pc = job[v].pc /\ job'[v].kind = job[v].kind /\ job'[v].id = job[v].id
        /\ job'[v].gone = job[v].gone /\ job'[v].known = job[v].known
    BY <1>1, WhoWrites
  <2>2. Deleting(job[v]) /\ job[v].known \subseteq Rosters
    BY <1>0, <2>1 DEF Deleting, Dialog
  <2>3. \A r \in job[v].known : r \in Rosters /\ roster[r] # Unused
    BY <2>2 DEF TakesNoneItKnew
  <2>4. \A r \in job[v].known : roster'[r] # Unused
    BY <2>3, RostersKeepTheirProfile
  <2>5. ASSUME NEW r \in job[v].known, r \in Own!OfProfile(job[v].id)' PROVE FALSE
    <3>1. PICK p : p = job'[v].id
      OBVIOUS
    <3>2. r \in Own!OfProfile(p)'
      BY <2>5, <3>1 DEF Own!OfProfile
    <3>3. r \in Own!OfProfile(p)
      BY <2>3, <3>2, RostersKeepTheirProfile
    <3> QED BY <2>1, <2>2, <3>1, <3>3 DEF TakesNoneItKnew
  <2> QED BY <2>1, <2>2, <2>4, <2>5 DEF TakesNoneItKnew
<1>2. CASE v = w /\ Own!CheckHeld(w)
  <2>1. /\ job' = [job EXCEPT ![w].pc = "collect", ![w].known = Own!There(roster)]
        /\ UNCHANGED roster /\ Own!OfProfile(job[w].id) = {}
    BY <1>0, <1>2 DEF Own!CheckHeld, Own!Held, Own!Refused, Own!Ends, Own!Idle, Deleting
  <2>2. /\ job'[w].pc = "collect" /\ job'[w].id = job[w].id
        /\ job'[w].known = Own!There(roster)
    BY <1>0, <2>1 DEF Dialog
  <2>3. Own!OfProfile(job[w].id)' = Own!OfProfile(job[w].id)
    BY <2>1, <2>2 DEF Own!OfProfile, Own!There
  <2> QED BY <1>2, <2>1, <2>2, <2>3 DEF Own!There
<1>3. CASE v = w /\ Own!CollectRosters(w)
  <2>1. /\ job' = [job EXCEPT ![w].pc = "write", ![w].gone = Own!OfProfile(job[w].id)]
        /\ UNCHANGED roster /\ Deleting(job[w])
    BY <1>3 DEF Own!CollectRosters, Own!Is, Deleting
  <2>2. /\ job'[w].id = job[w].id /\ job'[w].gone = Own!OfProfile(job[w].id)
        /\ job'[w].known = job[w].known
    BY <1>0, <2>1 DEF Dialog
  <2>3. Own!OfProfile(job[w].id)' = Own!OfProfile(job[w].id)
    BY <2>1, <2>2 DEF Own!OfProfile, Own!There
  <2> QED BY <1>3, <2>1, <2>2, <2>3 DEF TakesNoneItKnew
<1> QED BY <1>1, <1>2, <1>3, WhoDeletes

-----------------------------------------------------------------------------
(* What no step does *)

LEMMA CurrentIsHanded ==
  ASSUME OwnConstants, OwnInv, NEW w \in Workers, StepOf(w)
  PROVE  Own!CurrentHandedOver
<1> SUFFICES ASSUME NEW s \in Own!Current, season'[s] # "current"
             PROVE  \/ season'[s] = Deleted
                    \/ \E t \in Seasons \ {s} : season'[t] = "current"
                    \/ \E v \in Workers : /\ Own!Is(v, "save_season", "write")
                                          /\ job[v].id = s /\ ~job[v].ticked
  BY DEF Own!CurrentHandedOver
<1>1. s \in Seasons /\ season[s] = "current"
  BY DEF Own!Current
<1>2. season' # season
  BY <1>1
<1>3. CASE Own!SaveSeason(w)
  <2>1. Own!Is(w, "save_season", "write")
    BY <1>3 DEF Own!SaveSeason
  <2>2. ~(job[w].ticked /\ ~(Own!Current \subseteq job[w].swept \union {job[w].id}))
    BY <1>2, <1>3 DEF Own!SaveSeason, Own!Fails
  <2>3. CASE job[w].ticked
    BY <1>1, <1>3, <2>2, <2>3, SavedSeasons
  <2>4. CASE ~job[w].ticked
    BY <1>1, <1>3, <2>1, <2>2, <2>4, SavedSeasons
  <2> QED BY <2>3, <2>4
<1>4. CASE Own!DeleteSeason(w)
  <2>1. season' = [season EXCEPT ![job[w].id] = Deleted]
    BY <1>2, <1>4 DEF Own!DeleteSeason, Own!Fails
  <2> QED BY <1>1, <2>1 DEF OwnInv, RowsFit
<1> QED BY <1>2, <1>3, <1>4, WhoWrites

LEMMA TheLastTickWins ==
  ASSUME OwnConstants, OwnInv, NEW v \in Workers, StepOf(v)
  PROVE  Own!LastTickWins
<1> SUFFICES ASSUME NEW w \in Workers, Own!Is(w, "save_season", "write"), job[w].ticked,
                    job'[w].pc = "idle"
             PROVE  \A s \in Seasons : season'[s] = "current" <=> s = job[w].id
  BY DEF Own!LastTickWins
<1>1. job[w].kind = "save_season" /\ job[w].pc = "write"
  BY DEF Own!Is
<1>2. v = w
  BY <1>1, WhoWrites
<1>3. Own!SaveSeason(w)
  BY <1>1, <1>2 DEF StepOf, Own!OfProfiles, Own!OfRosters, Own!OfSeasons, Own!Leave, Own!Is,
     Own!BeginProfile, Own!CheckNickname, Own!CreateProfile, Own!RenameProfile, Own!CheckHeld,
     Own!CollectRosters, Own!DeleteProfile, Own!BeginRoster, Own!CheckRosterName,
     Own!CreateRoster, Own!BeginOnRoster, Own!RenameRoster, Own!DeleteRoster, Own!BeginSeason,
     Own!FindCurrent, Own!Sweep, Own!CheckSeason, Own!DeleteSeason, Own!Begin
<1>4. ~Own!Fails(w)
  BY DEF Own!Fails, Own!Goes, OwnInv, DialogsFit, Dialog
<1> QED BY <1>3, <1>4, SavedSeasons DEF Own!SaveSeason

LEMMA RostersStay ==
  ASSUME OwnConstants, OwnInv, TakesNoneItKnew, NEW w \in Workers, StepOf(w)
  PROVE  Own!RostersSurvive
<1> SUFFICES ASSUME NEW r \in Own!There(roster), roster'[r] = Deleted
             PROVE  \E v \in Workers :
                      \/ Own!Is(v, "delete_roster", "write") /\ job[v].id = r
                      \/ /\ Own!Is(v, "delete_profile", "write") /\ ~job[v].alone
                         /\ r \notin job[v].known
  BY DEF Own!RostersSurvive
<1>1. r \in Rosters /\ roster[r] \notin {Unused, Deleted} /\ roster[r] \in RosterRow
  BY DEF Own!There, OwnInv, RowsFit
<1>2. roster' # roster
  BY <1>1
<1>3. CASE Own!DeleteProfile(w)
  <2>1. /\ roster' = [q \in Rosters |-> IF q \in job[w].gone THEN Deleted ELSE roster[q]]
        /\ Own!Is(w, "delete_profile", "write")
    BY <1>2, <1>3 DEF Own!DeleteProfile, Own!Fails
  <2>2. r \in job[w].gone
    BY <1>1, <2>1
  <2>3. ~FoundOut(w) /\ job[w].pc # "idle"
    BY <2>1, <2>2 DEF FoundOut, Own!Is
  <2>4. r \notin job[w].known
    BY <2>1, <2>2 DEF TakesNoneItKnew, Deleting, Own!Is
  <2> QED BY <2>1, <2>3, <2>4 DEF OwnInv, AloneKnows
<1>4. ~Own!CreateRoster(w)
  <2> SUFFICES ASSUME Own!CreateRoster(w) PROVE FALSE
    OBVIOUS
  <2>1. PICK q \in Own!Fresh(roster) : \E row : roster' = [roster EXCEPT ![q] = row]
    BY <1>2 DEF Own!CreateRoster, Own!Fails, Own!LooksOn, Own!Goes
  <2> QED BY <1>1, <2>1 DEF Own!Fresh
<1>5. ~Own!RenameRoster(w)
  <2> SUFFICES ASSUME Own!RenameRoster(w) PROVE FALSE
    OBVIOUS
  <2>1. roster' = [roster EXCEPT ![job[w].id].name = job[w].name] /\ job[w].name \in AnyName
    BY <1>2 DEF Own!RenameRoster, Own!Fails, Own!Refused, OwnInv, DialogsFit, Dialog
  <2>2. roster'[r] \in RosterRow
    BY <1>1, <2>1 DEF OwnInv, RowsFit, RosterRow
  <2> QED BY <2>2, OwnMarks
<1>6. CASE Own!DeleteRoster(w)
  <2>1. roster' = [roster EXCEPT ![job[w].id] = Deleted] /\ Own!Is(w, "delete_roster", "write")
    BY <1>6 DEF Own!DeleteRoster
  <2>2. job[w].id = r
    BY <1>1, <2>1 DEF OwnInv, RowsFit
  <2> QED BY <2>1, <2>2
<1> QED BY <1>2, <1>3, <1>4, <1>5, <1>6, WhoWrites

LEMMA NicknamesAreTold ==
  ASSUME OwnConstants, OwnInv, NEW w \in Workers, StepOf(w)
  PROVE  Own!NicknamesTold
<1> SUFFICES ASSUME NEW p \in Profiles, NEW q \in Profiles, p # q,
                    p \in Own!There(nick_name)', q \in Own!There(nick_name)',
                    nick_name'[p] # nick_name[p],
                    Folded[nick_name'[p]] = Folded[nick_name'[q]]
             PROVE  job[w].pc = "write" /\ job'[w].pc = "idle" /\ ~job[w].alone
  BY DEF Own!NicknamesTold
<1> USE DEF Own!Is, Own!Fails
<1>0. /\ job[w] \in Dialog /\ DialogFits(job[w]) /\ nick_name' # nick_name
      /\ nick_name \in [Profiles -> AnyName \union {Unused, Deleted}]
      /\ job \in [Workers -> Dialog]
  BY DEF OwnInv, DialogsFit, RowsFit
<1>1. Own!Ends(w) => job'[w].pc = "idle"
  BY <1>0, IdleFits DEF Own!Ends
<1>2. job[w].alone /\ job[w].pc # "idle" => FoundOut(w)
  BY DEF OwnInv, AloneKnows
<1>3. CASE Own!CreateProfile(w)
  <2>1. PICK n \in Own!Fresh(nick_name) : nick_name' = [nick_name EXCEPT ![n] = job[w].name]
    BY <1>0, <1>3 DEF Own!CreateProfile
  <2>2. n = p /\ nick_name'[p] = job[w].name /\ nick_name'[q] = nick_name[q]
    BY <1>0, <2>1
  <2>3. q \in Own!There(nick_name) /\ job[w].id = None /\ None \notin Profiles
    BY <1>0, <1>3, <2>2, OwnMarks DEF Own!There, DialogFits, Own!CreateProfile
  <2>4. Own!Taken(job[w].name, job[w].id)
    BY <2>2, <2>3 DEF Own!Taken
  <2>5. ~FoundOut(w)
    BY <1>3, <2>4 DEF FoundOut, Own!CreateProfile
  <2> QED BY <1>0, <1>1, <1>2, <1>3, <2>5 DEF Own!CreateProfile
<1>4. CASE Own!RenameProfile(w)
  <2>1. nick_name' = [nick_name EXCEPT ![job[w].id] = job[w].name]
    BY <1>0, <1>4 DEF Own!RenameProfile
  <2>2. job[w].id = p /\ nick_name'[p] = job[w].name /\ nick_name'[q] = nick_name[q]
    BY <1>0, <2>1
  <2>3. q \in Own!There(nick_name)
    BY <1>0, <2>2 DEF Own!There
  <2>4. Own!Taken(job[w].name, job[w].id)
    BY <2>2, <2>3 DEF Own!Taken
  <2>5. ~FoundOut(w)
    BY <1>4, <2>4 DEF FoundOut, Own!RenameProfile
  <2> QED BY <1>0, <1>1, <1>2, <1>4, <2>5 DEF Own!RenameProfile
<1>5. ~Own!DeleteProfile(w)
  <2> SUFFICES ASSUME Own!DeleteProfile(w) PROVE FALSE
    OBVIOUS
  <2>1. nick_name' = [nick_name EXCEPT ![job[w].id] = Deleted]
    BY <1>0 DEF Own!DeleteProfile
  <2>2. nick_name'[p] = Deleted
    BY <1>0, <2>1
  <2> QED BY <2>2 DEF Own!There
<1>6. ~Own!CreateRoster(w)
  <2> SUFFICES ASSUME Own!CreateRoster(w) PROVE FALSE
    OBVIOUS
  <2>1. /\ Own!Oldest = {}
        /\ \E n \in Own!Fresh(nick_name) : nick_name' = [nick_name EXCEPT ![n] = DefaultNickname]
    BY <1>0 DEF Own!CreateRoster
  <2>2. Own!There(nick_name) = {}
    BY <2>1, OldestIsOne DEF OwnInv
  <2>3. nick_name'[q] = nick_name[q]
    BY <1>0, <2>1
  <2>4. q \in Own!There(nick_name)
    BY <1>0, <2>3 DEF Own!There
  <2> QED BY <2>2, <2>4
<1> QED BY <1>0, <1>3, <1>4, <1>5, <1>6, WhoWrites

(***************************************************************************)
(* The dialogs of one account refuse in a sentence what the database would *)
(* refuse: a request that meets no other is never answered by an error,    *)
(* save the renaming of a roster, which does not look.                     *)
(***************************************************************************)
THEOREM AloneADialogAnswers == OwnConstants => (Own!Spec => []Own!AloneNeverFails)
<1>1. OwnInv => Own!AloneNeverFails
  BY DEF OwnInv, AloneKnows, FoundOut, Own!AloneNeverFails
<1> QED BY <1>1, OwnInvHolds, PTL

\* Two seasons are never current at the same time (only_one_current_season), however
\* many administrators save seasons at once.
THEOREM OneSeasonIsCurrent == OwnConstants => (Own!Spec => []OneCurrent)
<1>1. OwnInv => OneCurrent
  BY DEF OwnInv
<1> QED BY <1>1, OwnInvHolds, PTL

(***************************************************************************)
(* Whatever the dialogs of an account do at the same time: its rosters go  *)
(* by the dialog that says so, a season stops being current for another,   *)
(* for an administrator who unticks it or with its row, the last tick that *)
(* gets no error wins, and a nickname given by a request that met no other *)
(* can be told from the others.  The deletion of a profile that met        *)
(* another request takes only rosters that were not there when it looked.  *)
(***************************************************************************)
THEOREM DialogsDoWhatTheySay == OwnConstants => (Own!Spec => [][Own!Steps]_Own!vars)
<1> SUFFICES ASSUME OwnConstants PROVE Own!Spec => [][Own!Steps]_Own!vars
  OBVIOUS
<1>1. OwnInv /\ TakesNoneItKnew /\ [Own!Next]_Own!vars => [Own!Steps]_Own!vars
  <2> SUFFICES ASSUME OwnInv, TakesNoneItKnew, Own!Next PROVE Own!Steps
    OBVIOUS
  <2>1. PICK w \in Workers : StepOf(w)
    BY DEF Own!Next, StepOf
  <2> QED BY <2>1, CurrentIsHanded, TheLastTickWins, RostersStay, NicknamesAreTold DEF Own!Steps
<1>2. Own!Init => TakesNoneItKnew
  BY IdleFits DEF Own!Init, TakesNoneItKnew, Deleting
<1>3. OwnInv /\ TakesNoneItKnew /\ [Own!Next]_Own!vars => TakesNoneItKnew'
  <2> SUFFICES ASSUME OwnInv, TakesNoneItKnew, [Own!Next]_Own!vars PROVE TakesNoneItKnew'
    OBVIOUS
  <2>1. CASE UNCHANGED Own!vars
    BY <2>1 DEF Own!vars, TakesNoneItKnew, Deleting, Own!OfProfile, Own!There
  <2>2. ASSUME NEW w \in Workers, StepOf(w) PROVE TakesNoneItKnew'
    BY <2>2, KnewStays
  <2> QED BY <2>1, <2>2 DEF Own!Next, StepOf
<1> QED BY <1>1, <1>2, <1>3, OwnInvHolds, PTL DEF Own!Spec

-----------------------------------------------------------------------------
(***************************************************************************)
(* The free trades of all rosters of one account (PayAll)                  *)
(***************************************************************************)

CONSTANT MaxGrants
VARIABLES due, received

\* Requests that pay one roster after the other.
Paying == INSTANCE PayAll

Payer ==
  [pc : {"idle", "fetch", "own", "list", "all"}, own : Rosters \union {None}, now : 0..MaxGrants,
   todo : SUBSET Rosters, pays : [Rosters -> 0..MaxGrants], held : SUBSET Rosters]

PayersFit ==
  /\ due \in 0..MaxGrants /\ received \in [Rosters -> 0..MaxGrants]
  /\ job \in [Workers -> Payer]
  /\ \A w \in Workers : job[w].pc \in {"fetch", "own"} => job[w].own \in Rosters

\* Nobody looks ahead; a roster is locked by one request only, which alone has paid
\* it something that is not committed, and never more than has fallen due.
PayInv ==
  /\ PayersFit
  /\ \A w \in Workers : job[w].now <= due
  /\ \A v, w \in Workers : v # w => job[v].held \intersect job[w].held = {}
  /\ \A w \in Workers, r \in Rosters :
       Paying!Seen(w, r) <= due /\ (job[w].pays[r] > 0 => r \in job[w].held)

LEMMA NextRosterIsOne ==
  ASSUME Paying!PayAllConstants, PayersFit, NEW w \in Workers, job[w].todo # {}
  PROVE  Paying!NextRoster(w) \in job[w].todo
<1>1. job[w].todo \subseteq Nat
  BY DEF Paying!PayAllConstants, PayersFit, Payer
<1>2. \E r \in job[w].todo : \A q \in job[w].todo : r <= q
  BY <1>1, LeastNumber
<1> QED BY <1>2 DEF Paying!NextRoster, Paying!Min

\* The request's job changes, the others' stay.
LEMMA PayerMoves ==
  ASSUME PayInv, NEW w \in Workers, NEW new \in Payer, job' = [job EXCEPT ![w] = new],
         UNCHANGED <<due, received>>, new.pc \in {"fetch", "own"} => new.own \in Rosters,
         new.now <= due,
         \A v \in Workers \ {w} : new.held \intersect job[v].held = {},
         \A r \in Rosters : received[r] + new.pays[r] <= due /\ (new.pays[r] > 0 => r \in new.held)
  PROVE  PayInv'
<1>1. PayersFit' /\ job'[w] = new /\ \A v \in Workers \ {w} : job'[v] = job[v]
  BY DEF PayInv, PayersFit
<1>2. \A v \in Workers : job'[v].now <= due'
  BY <1>1 DEF PayInv
<1>3. \A u, v \in Workers : u # v => job'[u].held \intersect job'[v].held = {}
  BY <1>1 DEF PayInv
<1>4. ASSUME NEW v \in Workers, NEW r \in Rosters
      PROVE  Paying!Seen(v, r)' <= due' /\ (job'[v].pays[r] > 0 => r \in job'[v].held)
  BY <1>1 DEF PayInv, Paying!Seen
<1> QED BY <1>1, <1>2, <1>3, <1>4 DEF PayInv

LEMMA IdlePays ==
  ASSUME Paying!PayAllConstants
  PROVE  /\ Paying!Idle \in Payer /\ Paying!Idle.pc = "idle" /\ Paying!Idle.now = 0
         /\ Paying!Idle.held = {} /\ \A r \in Rosters : Paying!Idle.pays[r] = 0
<1>1. 0 \in 0..MaxGrants
  BY DEF Paying!PayAllConstants
<1>2. [r \in Rosters |-> 0] \in [Rosters -> 0..MaxGrants]
  BY <1>1
<1> QED BY <1>1, <1>2 DEF Paying!Idle, Payer

\* Rolled back, nothing has been.
LEMMA AbortKeeps ==
  ASSUME Paying!PayAllConstants, PayInv, NEW w \in Workers, Paying!Abort(w)
  PROVE  PayInv'
<1>1. due \in 0..MaxGrants /\ received \in [Rosters -> 0..MaxGrants]
  BY DEF PayInv, PayersFit
<1>2. \A r \in Rosters : received[r] + Paying!Idle.pays[r] <= due
  <2> TAKE r \in Rosters
  <2>1. received[r] + job[w].pays[r] <= due /\ job[w].pays[r] \in 0..MaxGrants
    BY DEF PayInv, Paying!Seen, PayersFit, Payer
  <2>2. received[r] \in 0..MaxGrants /\ MaxGrants \in Nat
    BY <1>1 DEF Paying!PayAllConstants
  <2>3. received[r] <= due
    BY <1>1, <2>1, <2>2
  <2>4. Paying!Idle.pays[r] = 0
    BY IdlePays
  <2> QED BY <2>2, <2>3, <2>4
<1>3. job' = [job EXCEPT ![w] = Paying!Idle] /\ UNCHANGED <<due, received>> /\ 0 <= due
  BY <1>1 DEF Paying!Abort, Paying!PayAllConstants
<1>4. \A r \in Rosters : ~(Paying!Idle.pays[r] > 0)
  BY IdlePays
<1> QED BY <1>2, <1>3, <1>4, IdlePays, PayerMoves

\* Locked by nobody else, a roster is paid what it misses.
LEMMA LockedAndPaid ==
  ASSUME Paying!PayAllConstants, PayInv, NEW w \in Workers, NEW r \in Rosters, NEW until \in Nat,
         until <= due, NEW rest \in Payer, rest.pays = job[w].pays, rest.held = job[w].held,
         rest.now <= due, rest.pc \in {"fetch", "own"} => rest.own \in Rosters,
         Paying!LockAndPay(w, r, until, rest)
  PROVE  PayInv'
<1> DEFINE pays == [rest.pays EXCEPT ![r] = @ + Paying!Unpaid(w, r, until)]
           new == [rest EXCEPT !.pays[r] = @ + Paying!Unpaid(w, r, until),
                               !.held = @ \union {r}]
<1>1. /\ due \in 0..MaxGrants /\ received \in [Rosters -> 0..MaxGrants]
      /\ job[w].pays \in [Rosters -> 0..MaxGrants] /\ MaxGrants \in Nat
  BY DEF PayInv, PayersFit, Payer, Paying!PayAllConstants
<1>2. \A q \in Rosters : /\ received[q] + job[w].pays[q] <= due
                         /\ job[w].pays[q] > 0 => q \in job[w].held
  BY DEF PayInv, Paying!Seen
<1>3. pays[r] \in 0..MaxGrants /\ received[r] + pays[r] <= due
  BY <1>1, <1>2 DEF Paying!Unpaid, Paying!Seen
<1>4. /\ new \in Payer /\ new.pays = pays /\ new.held = job[w].held \union {r}
      /\ new.pc = rest.pc /\ new.own = rest.own /\ new.now = rest.now
  <2>1. pays \in [Rosters -> 0..MaxGrants]
    BY <1>1, <1>3
  <2>2. new = [rest EXCEPT !.pays = pays, !.held = job[w].held \union {r}]
    BY DEF Payer
  <2> HIDE DEF pays, new
  <2>3. job[w].held \union {r} \subseteq Rosters
    BY DEF PayInv, PayersFit, Payer
  <2>4. /\ new.pays = pays /\ new.held = job[w].held \union {r}
        /\ new.pc = rest.pc /\ new.own = rest.own /\ new.now = rest.now
    BY <2>2 DEF Payer
  <2>5. new \in Payer
    BY <2>1, <2>2, <2>3 DEF Payer
  <2> QED BY <2>4, <2>5
<1>5. \A q \in Rosters : received[q] + pays[q] <= due /\ (pays[q] > 0 => q \in job[w].held \union {r})
  <2> TAKE q \in Rosters
  <2>1. CASE q = r
    BY <1>3, <2>1
  <2>2. CASE q # r
    BY <1>1, <1>2, <2>2
  <2> QED BY <2>1, <2>2
<1>6. job' = [job EXCEPT ![w] = new] /\ UNCHANGED <<due, received>> /\ r \notin Paying!HeldByOthers(w)
  BY DEF Paying!LockAndPay
<1> HIDE DEF pays, new
<1>7. \A v \in Workers \ {w} : new.held \intersect job[v].held = {}
  BY <1>4, <1>6 DEF Paying!HeldByOthers, PayInv
<1> QED BY <1>4, <1>5, <1>6, <1>7, PayerMoves

LEMMA PaysStay == ASSUME Paying!PayAllConstants, PayInv, Paying!Next PROVE PayInv'
<1>0. /\ PayersFit /\ due \in Nat /\ MaxGrants \in Nat
      /\ \A w \in Workers : job[w] \in Payer /\ job[w].now <= due /\ job[w].now \in Nat
  <2>1. PayersFit /\ due \in Nat /\ MaxGrants \in Nat
    BY DEF PayInv, PayersFit, Paying!PayAllConstants
  <2> QED BY <2>1 DEF PayInv, PayersFit, Payer
<1> USE DEF Paying!At
<1>1. ASSUME NEW w \in Workers, Paying!Begin(w) PROVE PayInv'
  <2>1. PICK own \in Rosters \union {None} :
          job' = [job EXCEPT ![w].pc = IF own = None THEN "list" ELSE "fetch", ![w].own = own]
    BY <1>1 DEF Paying!Begin
  <2> DEFINE new == [job[w] EXCEPT !.pc = IF own = None THEN "list" ELSE "fetch", !.own = own]
  <2>2. /\ new \in Payer /\ new.own = own /\ new.pc = (IF own = None THEN "list" ELSE "fetch")
        /\ new.now = job[w].now /\ new.held = job[w].held /\ new.pays = job[w].pays
    BY <1>0 DEF Payer
  <2>3. job' = [job EXCEPT ![w] = new] /\ UNCHANGED <<due, received>>
    BY <1>1, <2>1 DEF Paying!Begin
  <2> HIDE DEF new
  <2>4. new.pc \in {"fetch", "own"} => new.own \in Rosters
    BY <2>2
  <2>5. \A v \in Workers \ {w} : new.held \intersect job[v].held = {}
    BY <2>2 DEF PayInv
  <2>6. \A r \in Rosters : received[r] + new.pays[r] <= due /\ (new.pays[r] > 0 => r \in new.held)
    BY <2>2 DEF PayInv, Paying!Seen
  <2>7. new.now <= due
    BY <1>0, <2>2
  <2> QED BY <2>2, <2>3, <2>4, <2>5, <2>6, <2>7, PayerMoves
<1>2. ASSUME NEW w \in Workers, Paying!Look(w) PROVE PayInv'
  <2> DEFINE misses == {r \in IF job[w].pc = "fetch" THEN {job[w].own} ELSE Rosters :
                          Paying!Unpaid(w, r, due) > 0}
             new == [job[w] EXCEPT !.pc = IF job[w].pc = "fetch" THEN "own" ELSE "all", !.now = due,
                                   !.todo = misses]
  <2>1. job' = [job EXCEPT ![w] = new] /\ UNCHANGED <<due, received>>
    BY <1>2 DEF Paying!Look
  <2>2. misses \subseteq Rosters
    BY <1>0 DEF PayersFit
  <2> HIDE DEF misses
  <2>3. /\ new \in Payer /\ new.own = job[w].own /\ new.now = due
        /\ new.pc = (IF job[w].pc = "fetch" THEN "own" ELSE "all")
        /\ new.held = job[w].held /\ new.pays = job[w].pays
    <3>1. job[w] \in Payer /\ due \in 0..MaxGrants
      BY <1>0 DEF PayersFit
    <3> QED BY <3>1, <2>2 DEF Payer
  <2> HIDE DEF new
  <2>4. new.pc \in {"fetch", "own"} => new.own \in Rosters
    BY <1>0, <2>3 DEF PayersFit
  <2>5. \A v \in Workers \ {w} : new.held \intersect job[v].held = {}
    BY <2>3 DEF PayInv
  <2>6. \A r \in Rosters : received[r] + new.pays[r] <= due /\ (new.pays[r] > 0 => r \in new.held)
    BY <2>3 DEF PayInv, Paying!Seen
  <2>7. new.now <= due
    BY <1>0, <2>3
  <2> QED BY <2>1, <2>3, <2>4, <2>5, <2>6, <2>7, PayerMoves
<1>3. ASSUME NEW w \in Workers, Paying!PayNext(w) PROVE PayInv'
  <2> DEFINE r == Paying!NextRoster(w)
             rest == [job[w] EXCEPT !.todo = @ \ {r}]
  <2>1. job[w].todo # {} /\ Paying!LockAndPay(w, r, job[w].now, rest)
    BY <1>3 DEF Paying!PayNext
  <2>2. r \in job[w].todo
    BY <1>0, <2>1, NextRosterIsOne
  <2> HIDE DEF r
  <2>3. r \in Rosters
    BY <1>0, <2>2 DEF Payer
  <2>4. /\ rest \in Payer /\ rest.pays = job[w].pays /\ rest.held = job[w].held
        /\ rest.now = job[w].now /\ rest.pc = job[w].pc /\ rest.own = job[w].own
    BY <1>0 DEF Payer
  <2> HIDE DEF rest
  <2>5. rest.pc \in {"fetch", "own"} => rest.own \in Rosters
    BY <1>0, <2>4 DEF PayersFit
  <2> QED BY <1>0, <2>1, <2>3, <2>4, <2>5, LockedAndPaid
<1>4. ASSUME NEW w \in Workers, Paying!Sign(w) PROVE PayInv'
  <2> DEFINE rest == [job[w] EXCEPT !.pc = "list"]
  <2>1. /\ rest \in Payer /\ rest.pays = job[w].pays /\ rest.held = job[w].held
        /\ rest.now = job[w].now /\ rest.pc = "list" /\ job[w].own \in Rosters
    BY <1>0, <1>4 DEF Payer, Paying!Sign, PayersFit
  <2>2. \/ Paying!LockAndPay(w, job[w].own, due, rest)
        \/ job' = [job EXCEPT ![w] = rest] /\ UNCHANGED <<due, received>>
    BY <1>4 DEF Paying!Sign
  <2> HIDE DEF rest
  <2>3. CASE Paying!LockAndPay(w, job[w].own, due, rest)
    BY <1>0, <2>1, <2>3, LockedAndPaid
  <2>4. CASE job' = [job EXCEPT ![w] = rest] /\ UNCHANGED <<due, received>>
    <3>1. \A v \in Workers \ {w} : rest.held \intersect job[v].held = {}
      BY <2>1 DEF PayInv
    <3>2. \A r \in Rosters : received[r] + rest.pays[r] <= due /\ (rest.pays[r] > 0 => r \in rest.held)
      BY <2>1 DEF PayInv, Paying!Seen
    <3>3. rest.now <= due
      BY <1>0, <2>1
    <3> QED BY <2>1, <2>4, <3>1, <3>2, <3>3, PayerMoves
  <2> QED BY <2>2, <2>3, <2>4
<1>5. ASSUME NEW w \in Workers, Paying!Answer(w) PROVE PayInv'
  <2>1. /\ received' = [r \in Rosters |-> Paying!Seen(w, r)] /\ due' = due
        /\ job' = [job EXCEPT ![w] = Paying!Idle]
    BY <1>5 DEF Paying!Answer
  <2>2. ASSUME NEW r \in Rosters
        PROVE  /\ received[r] \in 0..MaxGrants
               /\ \A v \in Workers : job[v].pays[r] \in 0..MaxGrants
               /\ received'[r] = received[r] + job[w].pays[r] /\ received'[r] <= due
               /\ received'[r] \in 0..MaxGrants
    <3>1. received[r] \in 0..MaxGrants /\ due \in 0..MaxGrants
      BY <1>0 DEF PayersFit
    <3>2. \A v \in Workers : job[v].pays[r] \in 0..MaxGrants
      BY <1>0 DEF Payer
    <3>3. received'[r] = received[r] + job[w].pays[r] /\ received'[r] <= due
      BY <2>1 DEF PayInv, Paying!Seen
    <3> QED BY <1>0, <3>1, <3>2, <3>3
  <2>3. /\ job'[w] = Paying!Idle /\ \A v \in Workers \ {w} : job'[v] = job[v]
        /\ job' \in [Workers -> Payer]
    BY <1>0, <2>1, IdlePays DEF PayersFit
  <2>4. PayersFit'
    <3>1. received' \in [Rosters -> 0..MaxGrants]
      BY <2>1, <2>2
    <3>2. due' \in 0..MaxGrants
      BY <1>0, <2>1 DEF PayersFit
    <3>3. \A v \in Workers : job'[v].pc \in {"fetch", "own"} => job'[v].own \in Rosters
      BY <1>0, <2>3, IdlePays DEF PayersFit
    <3> QED BY <2>3, <3>1, <3>2, <3>3 DEF PayersFit
  <2>5. \A v \in Workers : job'[v].now <= due'
    BY <1>0, <2>1, <2>3, IdlePays
  <2>6. \A u, v \in Workers : u # v => job'[u].held \intersect job'[v].held = {}
    BY <2>3, IdlePays DEF PayInv
  <2>7. ASSUME NEW v \in Workers, NEW r \in Rosters
        PROVE  Paying!Seen(v, r)' <= due' /\ (job'[v].pays[r] > 0 => r \in job'[v].held)
    <3>1. CASE v = w
      <4>1. job'[v].pays[r] = 0
        BY <2>3, <3>1, IdlePays
      <4> QED BY <1>0, <2>1, <2>2, <4>1 DEF Paying!Seen
    <3>2. CASE v # w
      <4>1. job'[v] = job[v] /\ (job[v].pays[r] > 0 => r \in job[v].held)
            /\ received[r] + job[v].pays[r] <= due /\ (job[w].pays[r] > 0 => r \in job[w].held)
            /\ job[v].held \intersect job[w].held = {}
        BY <2>3, <3>2 DEF PayInv, Paying!Seen
      <4>2. job[v].pays[r] = 0 \/ job[w].pays[r] = 0
        BY <2>2, <4>1
      <4>3. received'[r] + job[v].pays[r] <= due
        BY <1>0, <2>2, <4>1, <4>2
      <4> QED BY <2>1, <4>1, <4>3 DEF Paying!Seen
    <3> QED BY <3>1, <3>2
  <2> QED BY <2>4, <2>5, <2>6, <2>7 DEF PayInv
<1>6. ASSUME NEW w \in Workers, Paying!Deadlocked(w) \/ Paying!Crash(w) PROVE PayInv'
  BY <1>6, AbortKeeps DEF Paying!Deadlocked, Paying!Crash
<1>7. CASE Paying!FallsDue
  <2>1. due' = due + 1 /\ due' \in 0..MaxGrants /\ UNCHANGED <<received, job>>
    BY <1>0, <1>7 DEF Paying!FallsDue
  <2>2. PayersFit'
    BY <1>0, <2>1 DEF PayersFit
  <2>3. ASSUME NEW w \in Workers PROVE job'[w].now <= due'
    <3>1. job[w].now <= due /\ job[w].now \in Nat
      BY <1>0
    <3> QED BY <1>0, <2>1, <3>1
  <2>4. ASSUME NEW w \in Workers, NEW r \in Rosters
        PROVE  Paying!Seen(w, r)' <= due' /\ (job'[w].pays[r] > 0 => r \in job'[w].held)
    <3>1. /\ received[r] + job[w].pays[r] <= due /\ (job[w].pays[r] > 0 => r \in job[w].held)
          /\ received[r] \in Nat /\ job[w].pays[r] \in Nat
      <4>1. received[r] \in 0..MaxGrants /\ job[w].pays[r] \in 0..MaxGrants
        BY <1>0 DEF PayersFit, Payer
      <4> QED BY <1>0, <4>1 DEF PayInv, Paying!Seen
    <3>2. received[r] + job[w].pays[r] <= due + 1
      BY <1>0, <3>1
    <3> QED BY <2>1, <3>1, <3>2 DEF Paying!Seen
  <2>5. \A u, v \in Workers : u # v => job'[u].held \intersect job'[v].held = {}
    BY <2>1 DEF PayInv
  <2> QED BY <2>2, <2>3, <2>4, <2>5 DEF PayInv
<1> QED BY <1>1, <1>2, <1>3, <1>4, <1>5, <1>6, <1>7 DEF Paying!Next, Paying!GoOn

LEMMA PayingCounts == \A S : Paying!Cardinality(S) = Cardinality(S)
BY Zenon DEF Paying!Cardinality, Cardinality, Paying!IsFiniteSet, IsFiniteSet

LEMMA PayInvHolds == Paying!PayAllConstants => (Paying!Spec => []PayInv)
<1> SUFFICES ASSUME Paying!PayAllConstants PROVE Paying!Spec => []PayInv
  OBVIOUS
<1>1. ASSUME Paying!Init PROVE PayInv
  <2>1. due = 0 /\ received = [r \in Rosters |-> 0] /\ job = [w \in Workers |-> Paying!Idle]
        /\ 0 \in 0..MaxGrants
    BY <1>1 DEF Paying!Init, Paying!PayAllConstants
  <2>2. PayersFit
    BY <2>1, IdlePays DEF PayersFit
  <2>3. \A w \in Workers, r \in Rosters : received[r] = 0 /\ job[w].pays[r] = 0
    BY <2>1, IdlePays
  <2> QED BY <2>1, <2>2, <2>3, IdlePays DEF PayInv, Paying!Seen
<1>2. PayInv /\ UNCHANGED Paying!vars => PayInv'
  BY DEF PayInv, PayersFit, Paying!vars, Paying!Seen
<1>3. PayInv /\ [Paying!Next]_Paying!vars => PayInv'
  BY <1>2, PaysStay
<1> QED BY <1>1, <1>3, PTL DEF Paying!Spec

(***************************************************************************)
(* Requests over all rosters of an account pay each roster what is due and *)
(* no more, one request at a time: what is not committed is paid under the *)
(* roster's lock, whichever requests are ended on the way.                 *)
(***************************************************************************)
THEOREM RostersArePaidUnderLock ==
  Paying!PayAllConstants => (Paying!Spec => [](Paying!TypeOK /\ Paying!PaidUnderLock))
<1> SUFFICES ASSUME Paying!PayAllConstants PROVE Paying!Spec => [](Paying!TypeOK /\ Paying!PaidUnderLock)
  OBVIOUS
<1>1. PayInv => Paying!TypeOK
  BY DEF PayInv, PayersFit, Payer, Paying!TypeOK
<1>2. ASSUME PayInv PROVE Paying!PaidUnderLock
  <2>1. ASSUME NEW r \in Rosters
        PROVE  Paying!Cardinality({w \in Workers : r \in job[w].held}) <= 1
    <3> DEFINE H == {w \in Workers : r \in job[w].held}
    <3>1. \A v, w \in H : v = w
      BY <1>2 DEF PayInv
    <3> HIDE DEF H
    <3>2. ASSUME H = {} PROVE Cardinality(H) <= 1
      BY <3>2, FS_EmptySet
    <3>3. ASSUME H # {} PROVE Cardinality(H) <= 1
      <4>1. PICK w \in H : H = {w}
        BY <3>1, <3>3
      <4>2. Cardinality(H) = 1
        BY <4>1, FS_Singleton
      <4> QED BY <4>2
    <3>4. Paying!Cardinality(H) <= 1
      BY <3>2, <3>3, PayingCounts
    <3> QED BY <3>4 DEF H
  <2> QED BY <1>2, <2>1 DEF PayInv, Paying!PaidUnderLock
<1> QED BY <1>1, <1>2, PayInvHolds, PTL

-----------------------------------------------------------------------------
(***************************************************************************)
(* What accounts think of one player (Marks)                               *)
(***************************************************************************)

CONSTANTS Owners, Notes, Texts
VARIABLES entry, note

\* Any number of accounts and of tabs.
Marking == INSTANCE Marks WITH Accounts <- Owners

NoteRow == [user : Owners, content : Texts]

LEMMA NoteMarks ==
  ASSUME Marking!MarksConstants
  PROVE  /\ None \notin Marking!Stances /\ Unused # Deleted
         /\ {Unused, Deleted} \intersect NoteRow = {}
BY DEF Marking!MarksConstants, Marking!Stances, NoteRow

Tab ==
  [pc : {"idle", "look", "clear", "find", "insert", "again", "save", "delete"},
   user : Owners \union {None}, stance : Marking!Stances \union {None},
   note : Notes \union {None}, text : Texts \union {None}]

Pressed(j) == j.pc \in {"look", "clear", "find", "insert", "again"}
Edits(j) == j.pc \in {"save", "delete"}

TabFits(j) ==
  /\ Pressed(j) => j.user \in Owners /\ j.stance \in Marking!Stances
  /\ Edits(j) => j.user \in Owners /\ j.note \in Notes
  /\ j.pc = "save" => j.text \in Texts

\* Who has a note open is its author, also when it has gone meanwhile.
TabsFit ==
  /\ entry \in [Owners -> Marking!Stances \union {None}]
  /\ note \in [Notes -> NoteRow \union {Unused, Deleted}]
  /\ job \in [Workers -> Tab] /\ \A w \in Workers : TabFits(job[w])
AuthorsEdit ==
  /\ \A w \in Workers : Edits(job[w]) =>
       /\ note[job[w].note] # Unused
       /\ note[job[w].note] # Deleted => note[job[w].note].user = job[w].user
  /\ \A v, w \in Workers : Edits(job[v]) /\ Edits(job[w]) /\ job[v].note = job[w].note =>
       job[v].user = job[w].user

MarkInv == TabsFit /\ AuthorsEdit

LEMMA IdleTab == /\ Marking!Idle \in Tab /\ TabFits(Marking!Idle) /\ ~Edits(Marking!Idle)
                 /\ Marking!Idle.pc = "idle"
BY DEF Marking!Idle, Tab, TabFits, Pressed, Edits

\* The tab of one request changes, and no note.
LEMMA TabMoves ==
  ASSUME Marking!MarksConstants, MarkInv, NEW w \in Workers, NEW new \in Tab, TabFits(new),
         job' = [job EXCEPT ![w] = new], note' = note,
         entry' \in [Owners -> Marking!Stances \union {None}],
         Edits(new) => /\ note[new.note] \in NoteRow /\ note[new.note].user = new.user
  PROVE  MarkInv'
<1>1. job'[w] = new /\ \A v \in Workers \ {w} : job'[v] = job[v]
  BY DEF MarkInv, TabsFit
<1>2. TabsFit'
  BY <1>1 DEF MarkInv, TabsFit
<1>3. ASSUME NEW v \in Workers, Edits(job'[v])
      PROVE  /\ note'[job'[v].note] # Unused
             /\ note'[job'[v].note] # Deleted => note'[job'[v].note].user = job'[v].user
  BY <1>1, <1>3, NoteMarks DEF MarkInv, AuthorsEdit
<1>4. ASSUME NEW u \in Workers, NEW v \in Workers, Edits(job'[u]), Edits(job'[v]),
             job'[u].note = job'[v].note
      PROVE  job'[u].user = job'[v].user
  <2>1. CASE u # w /\ v # w
    BY <1>1, <1>4, <2>1 DEF MarkInv, AuthorsEdit
  <2>2. \A t \in Workers \ {w} : Edits(job[t]) /\ job[t].note = new.note /\ Edits(new) =>
          job[t].user = new.user
    BY NoteMarks DEF MarkInv, AuthorsEdit
  <2>3. CASE u = w \/ v = w
    BY <1>1, <1>4, <2>2, <2>3
  <2> QED BY <2>1, <2>3
<1>5. AuthorsEdit'
  BY <1>3, <1>4 DEF AuthorsEdit
<1> QED BY <1>2, <1>5 DEF MarkInv

\* What a note is after it was written.
Written == NoteRow \union {Deleted}

Rewritten(n, row) == note' = [note EXCEPT ![n] = row] /\ entry' = entry

\* Whoever edits the note is its author u.
EditedBy(n, u) == \A v \in Workers : Edits(job[v]) /\ job[v].note = n => job[v].user = u

\* A note changes, which those who have it open own.
LEMMA NoteMoves ==
  ASSUME Marking!MarksConstants, MarkInv, NEW n \in Notes, NEW row \in Written,
         Rewritten(n, row), job' \in [Workers -> Tab],
         \A v \in Workers : TabFits(job'[v]),
         \A v \in Workers : Edits(job'[v]) => job'[v] = job[v],
         NEW author \in Owners, row = Deleted \/ row.user = author, EditedBy(n, author)
  PROVE  MarkInv'
<1> USE DEF Rewritten, EditedBy
<1>1. TabsFit'
  BY DEF Written, MarkInv, TabsFit
<1>2. ASSUME NEW v \in Workers, Edits(job'[v])
      PROVE  /\ note'[job'[v].note] # Unused
             /\ note'[job'[v].note] # Deleted => note'[job'[v].note].user = job'[v].user
  <2>1. job'[v] = job[v] /\ Edits(job[v]) /\ job[v].note \in Notes
    BY <1>2 DEF MarkInv, TabsFit, TabFits
  <2>2. CASE job[v].note = n
    BY <2>1, <2>2, NoteMarks DEF MarkInv, TabsFit, Written
  <2>3. CASE job[v].note # n
    BY <2>1, <2>3 DEF MarkInv, TabsFit, AuthorsEdit
  <2> QED BY <2>2, <2>3
<1>3. \A u, v \in Workers : Edits(job'[u]) /\ Edits(job'[v]) /\ job'[u].note = job'[v].note =>
        job'[u].user = job'[v].user
  BY DEF MarkInv, AuthorsEdit
<1>4. AuthorsEdit'
  BY <1>2, <1>3 DEF AuthorsEdit
<1> QED BY <1>1, <1>4 DEF MarkInv

LEMMA MarksStep == ASSUME Marking!MarksConstants, MarkInv, Marking!Next PROVE MarkInv'
<1>0. /\ job \in [Workers -> Tab] /\ \A w \in Workers : job[w] \in Tab /\ TabFits(job[w])
      /\ entry \in [Owners -> Marking!Stances \union {None}]
      /\ note \in [Notes -> NoteRow \union {Unused, Deleted}]
  BY DEF MarkInv, TabsFit
<1> USE DEF Marking!At
\* The request goes on.
<1>a. ASSUME NEW w \in Workers, NEW pc \in {"clear", "find", "insert", "again"},
             job' = [job EXCEPT ![w].pc = pc], UNCHANGED <<entry, note>>, Pressed(job[w])
      PROVE  MarkInv'
  <2> DEFINE new == [job[w] EXCEPT !.pc = pc]
  <2>1. new \in Tab /\ new.pc = pc /\ new.user = job[w].user /\ new.stance = job[w].stance
    BY <1>0 DEF Tab
  <2>2. job' = [job EXCEPT ![w] = new] /\ note' = note /\ entry' = entry
    BY <1>a
  <2> HIDE DEF new
  <2>3. TabFits(new) /\ ~Edits(new)
    BY <1>0, <1>a, <2>1 DEF TabFits, Pressed, Edits
  <2> QED BY <1>0, <2>1, <2>2, <2>3, TabMoves
\* It ends, and has written no note.
<1>b. ASSUME NEW w \in Workers, Marking!Ends(w), note' = note,
             entry' \in [Owners -> Marking!Stances \union {None}]
      PROVE  MarkInv'
  BY <1>b, IdleTab, TabMoves DEF Marking!Ends
<1>c. ASSUME NEW w \in Workers, Marking!SetStance(w), Pressed(job[w]) PROVE MarkInv'
  <2>1. job[w].stance \in Marking!Stances
    BY <1>0, <1>c DEF TabFits
  <2>2. entry' \in [Owners -> Marking!Stances \union {None}]
    BY <1>0, <1>c, <2>1 DEF Marking!SetStance
  <2> QED BY <1>b, <1>c, <2>2 DEF Marking!SetStance
<1>1. ASSUME NEW w \in Workers, Marking!Press(w) PROVE MarkInv'
  <2>1. PICK u \in Owners, stance \in Marking!Stances :
          job' = [job EXCEPT ![w] = [Marking!Idle EXCEPT !.pc = "look", !.user = u, !.stance = stance]]
    BY <1>1 DEF Marking!Press
  <2> DEFINE new == [Marking!Idle EXCEPT !.pc = "look", !.user = u, !.stance = stance]
  <2>2. new \in Tab /\ new.pc = "look" /\ new.user = u /\ new.stance = stance
    BY DEF Tab, Marking!Idle
  <2>3. UNCHANGED <<entry, note>> /\ job' = [job EXCEPT ![w] = new]
    BY <1>1, <2>1 DEF Marking!Press
  <2> HIDE DEF new
  <2>4. TabFits(new) /\ ~Edits(new)
    BY <2>2 DEF TabFits, Pressed, Edits
  <2> QED BY <1>0, <2>2, <2>3, <2>4, TabMoves
<1>2. ASSUME NEW w \in Workers, Marking!Look(w) PROVE MarkInv'
  <2>1. PICK pc \in {"clear", "find"} : job' = [job EXCEPT ![w].pc = pc]
    BY <1>2 DEF Marking!Look, Marking!Goes
  <2>2. UNCHANGED <<entry, note>> /\ Pressed(job[w])
    BY <1>2 DEF Marking!Look, Pressed
  <2> QED BY <1>a, <2>1, <2>2
<1>3. ASSUME NEW w \in Workers, Marking!clear_player_stance(w) PROVE MarkInv'
  <2>1. entry' \in [Owners -> Marking!Stances \union {None}]
    BY <1>0, <1>3 DEF Marking!clear_player_stance, Marking!Without
  <2> QED BY <1>3, <1>b, <2>1 DEF Marking!clear_player_stance
<1>4. ASSUME NEW w \in Workers, Marking!Find(w) PROVE MarkInv'
  <2>1. Pressed(job[w])
    BY <1>4 DEF Marking!Find, Pressed
  <2>2. CASE entry[job[w].user] # None
    BY <1>4, <1>c, <2>1, <2>2 DEF Marking!Find, Marking!Found
  <2>3. CASE entry[job[w].user] = None
    BY <1>4, <1>a, <2>1, <2>3 DEF Marking!Find, Marking!Goes
  <2> QED BY <2>2, <2>3
<1>5. ASSUME NEW w \in Workers, Marking!Insert(w) PROVE MarkInv'
  <2>1. Pressed(job[w])
    BY <1>5 DEF Marking!Insert, Pressed
  <2>2. CASE entry[job[w].user] = None
    BY <1>5, <1>c, <2>1, <2>2 DEF Marking!Insert
  <2>3. CASE entry[job[w].user] # None
    BY <1>5, <1>a, <2>1, <2>3 DEF Marking!Insert, Marking!Goes
  <2> QED BY <2>2, <2>3
<1>6. ASSUME NEW w \in Workers, Marking!FindAgain(w) PROVE MarkInv'
  <2>1. Pressed(job[w])
    BY <1>6 DEF Marking!FindAgain, Pressed
  <2>2. CASE entry[job[w].user] # None
    BY <1>6, <1>c, <2>1, <2>2 DEF Marking!FindAgain, Marking!Found
  <2>3. CASE entry[job[w].user] = None
    BY <1>0, <1>6, <1>b, <2>3 DEF Marking!FindAgain, Marking!Refused
  <2> QED BY <2>2, <2>3
<1>7. ASSUME NEW w \in Workers, Marking!WriteNote(w) PROVE MarkInv'
  <2>1. PICK u \in Owners, text \in Texts, n \in Marking!Fresh :
          note' = [note EXCEPT ![n] = [user |-> u, content |-> text]]
    BY <1>7 DEF Marking!WriteNote
  <2> DEFINE row == [user |-> u, content |-> text]
  <2>2. row \in Written /\ row.user = u /\ n \in Notes /\ note[n] = Unused
    BY DEF Written, NoteRow, Marking!Fresh
  <2>3. note' = [note EXCEPT ![n] = row] /\ UNCHANGED <<entry, job>>
    BY <1>7, <2>1 DEF Marking!WriteNote
  <2> HIDE DEF row
  <2>4. EditedBy(n, u)
    BY <2>2 DEF MarkInv, AuthorsEdit, EditedBy
  <2>5. Rewritten(n, row) /\ job' = job
    BY <2>3 DEF Rewritten
  <2> QED BY <1>0, <2>2, <2>4, <2>5, NoteMoves
<1>8. ASSUME NEW w \in Workers, Marking!Open(w) PROVE MarkInv'
  <2>1. PICK u \in Owners, n \in Marking!There :
          /\ n \in Marking!OwnNotes(u)
          /\ \/ \E text \in Texts : job' = [job EXCEPT ![w] =
                  [Marking!Idle EXCEPT !.pc = "save", !.user = u, !.note = n, !.text = text]]
             \/ job' = [job EXCEPT ![w] = [Marking!Idle EXCEPT !.pc = "delete", !.user = u, !.note = n]]
    BY <1>8 DEF Marking!Open
  <2>2. n \in Notes /\ note[n] \in NoteRow /\ note[n].user = u
    BY <1>0, <2>1 DEF Marking!OwnNotes, Marking!There
  <2>3. \A text \in Texts :
          /\ [Marking!Idle EXCEPT !.pc = "save", !.user = u, !.note = n, !.text = text] \in Tab
          /\ TabFits([Marking!Idle EXCEPT !.pc = "save", !.user = u, !.note = n, !.text = text])
    BY <2>2 DEF Tab, Marking!Idle, TabFits, Pressed, Edits
  <2>4. /\ [Marking!Idle EXCEPT !.pc = "delete", !.user = u, !.note = n] \in Tab
        /\ TabFits([Marking!Idle EXCEPT !.pc = "delete", !.user = u, !.note = n])
    BY <2>2 DEF Tab, Marking!Idle, TabFits, Pressed, Edits
  <2>5. PICK new \in Tab : /\ job' = [job EXCEPT ![w] = new] /\ TabFits(new)
                           /\ new.note = n /\ new.user = u
    BY <2>1, <2>3, <2>4 DEF Marking!Idle
  <2>6. UNCHANGED <<entry, note>>
    BY <1>8 DEF Marking!Open
  <2> QED BY <1>0, <2>2, <2>5, <2>6, TabMoves
<1>9. ASSUME NEW w \in Workers, Marking!SaveNote(w) \/ Marking!DeleteNote(w) PROVE MarkInv'
  <2> DEFINE n == job[w].note
             row == IF job[w].pc = "save" THEN [user |-> job[w].user, content |-> job[w].text] ELSE Deleted
  <2>1. Edits(job[w]) /\ Marking!Ends(w) /\ entry' = entry /\ note' = [note EXCEPT ![n] = row]
    BY <1>9 DEF Marking!SaveNote, Marking!DeleteNote, Edits
  <2>2. n \in Notes /\ row \in Written /\ (row # Deleted => row.user = job[w].user)
    BY <1>0, <2>1 DEF Written, TabFits, Edits, NoteRow
  <2>3. \A v \in Workers : Edits(job[v]) /\ job[v].note = n => job[v].user = job[w].user
    BY <2>1 DEF MarkInv, AuthorsEdit
  <2>4. /\ job' \in [Workers -> Tab]
        /\ \A v \in Workers : TabFits(job'[v]) /\ (Edits(job'[v]) => job'[v] = job[v])
    <3>1. job' = [job EXCEPT ![w] = Marking!Idle]
      BY <2>1 DEF Marking!Ends
    <3>2. job' \in [Workers -> Tab]
      BY <1>0, <3>1, IdleTab
    <3>3. ASSUME NEW v \in Workers PROVE TabFits(job'[v]) /\ (Edits(job'[v]) => job'[v] = job[v])
      BY <1>0, <3>1, IdleTab
    <3> QED BY <3>2, <3>3
  <2> HIDE DEF row, n
  <2>5. PICK m \in Notes, written \in Written, author \in Owners :
          m = n /\ written = row /\ author = job[w].user
    BY <1>0, <2>1, <2>2 DEF TabFits
  <2>6. Rewritten(m, written) /\ (written = Deleted \/ written.user = author)
    BY <2>1, <2>2, <2>5 DEF Rewritten
  <2>7. EditedBy(m, author)
    BY <2>3, <2>5 DEF EditedBy
  <2> QED BY <2>4, <2>6, <2>7, NoteMoves
<1> QED BY <1>1, <1>2, <1>3, <1>4, <1>5, <1>6, <1>7, <1>8, <1>9 DEF Marking!Next

LEMMA MarkInvHolds == Marking!MarksConstants => (Marking!Spec => []MarkInv)
<1> SUFFICES ASSUME Marking!MarksConstants PROVE Marking!Spec => []MarkInv
  OBVIOUS
<1>1. Marking!Init => MarkInv
  BY IdleTab DEF Marking!Init, MarkInv, TabsFit, AuthorsEdit
<1>2. MarkInv /\ UNCHANGED Marking!vars => MarkInv'
  BY DEF MarkInv, TabsFit, AuthorsEdit, Marking!vars
<1>3. MarkInv /\ [Marking!Next]_Marking!vars => MarkInv'
  BY <1>2, MarksStep
<1> QED BY <1>1, <1>3, PTL DEF Marking!Spec

LEMMA MarksDoStay == ASSUME Marking!MarksConstants, MarkInv, Marking!Next PROVE Marking!MarksStay
<1> SUFFICES ASSUME NEW u \in Owners, entry[u] # None, entry'[u] = None
             PROVE  \E w \in Workers : /\ Marking!At(w, "clear") /\ job[w].user = u
                                       /\ job[w].stance = entry[u]
  BY DEF Marking!MarksStay
<1>0. /\ \A w \in Workers : TabFits(job[w]) /\ None \notin Marking!Stances
      /\ entry \in [Owners -> Marking!Stances \union {None}] /\ entry' # entry
  BY NoteMarks DEF MarkInv, TabsFit
<1> USE DEF Marking!Refused, Marking!At
<1>1. ASSUME NEW w \in Workers, Marking!SetStance(w), Pressed(job[w]) PROVE FALSE
  <2>1. entry' = [entry EXCEPT ![job[w].user] = job[w].stance] /\ job[w].stance # None
    BY <1>0, <1>1 DEF Marking!SetStance, TabFits
  <2> QED BY <1>0, <2>1
<1>2. ASSUME NEW w \in Workers, Marking!clear_player_stance(w)
      PROVE  Marking!At(w, "clear") /\ job[w].user = u /\ job[w].stance = entry[u]
  BY <1>0, <1>2 DEF Marking!clear_player_stance, Marking!Without
<1>3. ASSUME NEW w \in Workers, Marking!Find(w) \/ Marking!Insert(w) \/ Marking!FindAgain(w)
      PROVE  FALSE
  <2>1. Pressed(job[w]) /\ Marking!SetStance(w)
    BY <1>0, <1>3 DEF Marking!Find, Marking!Insert, Marking!FindAgain, Marking!Found, Pressed
  <2> QED BY <1>1, <2>1
<1>4. \A w \in Workers : ~(\/ Marking!Press(w) \/ Marking!Look(w) \/ Marking!WriteNote(w)
                           \/ Marking!Open(w) \/ Marking!SaveNote(w) \/ Marking!DeleteNote(w))
  BY <1>0 DEF Marking!Press, Marking!Look, Marking!WriteNote, Marking!Open, Marking!SaveNote,
              Marking!DeleteNote
<1> QED BY <1>2, <1>3, <1>4 DEF Marking!Next

\* Only the request that moves can end.
LEMMA OneTabMoves ==
  ASSUME MarkInv, NEW v \in Workers, NEW w \in Workers, v # w,
         \/ Marking!Press(v) \/ Marking!Look(v) \/ Marking!clear_player_stance(v)
         \/ Marking!Find(v) \/ Marking!Insert(v) \/ Marking!FindAgain(v)
         \/ Marking!WriteNote(v) \/ Marking!Open(v) \/ Marking!SaveNote(v) \/ Marking!DeleteNote(v)
  PROVE  job'[w] = job[w]
<1> USE DEF Marking!Ends, Marking!Goes, Marking!Refused, Marking!SetStance, Marking!Found
<1>0. job \in [Workers -> Tab]
  BY DEF MarkInv, TabsFit
<1>1. CASE Marking!Press(v)
  BY <1>0, <1>1 DEF Marking!Press
<1>2. CASE Marking!Look(v)
  BY <1>0, <1>2 DEF Marking!Look
<1>3. CASE Marking!clear_player_stance(v)
  BY <1>0, <1>3 DEF Marking!clear_player_stance
<1>4. CASE Marking!Find(v)
  BY <1>0, <1>4 DEF Marking!Find
<1>5. CASE Marking!Insert(v)
  BY <1>0, <1>5 DEF Marking!Insert
<1>6. CASE Marking!FindAgain(v)
  BY <1>0, <1>6 DEF Marking!FindAgain
<1>7. CASE Marking!WriteNote(v)
  BY <1>0, <1>7 DEF Marking!WriteNote
<1>8. CASE Marking!Open(v)
  BY <1>0, <1>8 DEF Marking!Open
<1>9. CASE Marking!SaveNote(v) \/ Marking!DeleteNote(v)
  BY <1>0, <1>9 DEF Marking!SaveNote, Marking!DeleteNote
<1> QED BY <1>1, <1>2, <1>3, <1>4, <1>5, <1>6, <1>7, <1>8, <1>9

LEMMA TheAnswerIsTrue == ASSUME Marking!MarksConstants, MarkInv, Marking!Next PROVE Marking!AnswerIsTrue
<1> USE DEF Marking!At
<1>1. SUFFICES ASSUME NEW w \in Workers, job'[w] = Marking!Idle
               PROVE  /\ job[w].pc = "clear" => entry'[job[w].user] # job[w].stance
                      /\ job[w].pc \in {"find", "insert"} => entry'[job[w].user] = job[w].stance
                      /\ job[w].pc = "again" => entry'[job[w].user] \in {job[w].stance, None}
  BY DEF Marking!AnswerIsTrue
<1>2. CASE ~Pressed(job[w])
  BY <1>2 DEF Pressed
<1>3. CASE Pressed(job[w])
  <2>1. /\ job[w].user \in Owners /\ job[w].stance # None /\ job \in [Workers -> Tab]
        /\ entry \in [Owners -> Marking!Stances \union {None}]
    BY <1>3, NoteMarks DEF MarkInv, TabsFit, TabFits
  <2>2. job'[w] # job[w] /\ job'[w].pc = "idle"
    BY <1>1, <1>3, IdleTab DEF Pressed
  <2>3. \/ Marking!Look(w) \/ Marking!clear_player_stance(w)
        \/ Marking!Find(w) \/ Marking!Insert(w) \/ Marking!FindAgain(w)
    <3>1. PICK v \in Workers :
            \/ Marking!Press(v) \/ Marking!Look(v) \/ Marking!clear_player_stance(v)
            \/ Marking!Find(v) \/ Marking!Insert(v) \/ Marking!FindAgain(v)
            \/ Marking!WriteNote(v) \/ Marking!Open(v) \/ Marking!SaveNote(v) \/ Marking!DeleteNote(v)
      BY DEF Marking!Next
    <3>2. v = w
      BY <2>2, <3>1, OneTabMoves
    <3> QED BY <1>3, <3>1, <3>2 DEF Pressed, Marking!Press, Marking!WriteNote, Marking!Open,
               Marking!SaveNote, Marking!DeleteNote
  <2>4. ASSUME NEW pc \in {"clear", "find", "insert", "again"}, Marking!Goes(w, pc) PROVE FALSE
    <3>1. job'[w] = [job[w] EXCEPT !.pc = pc] /\ job[w] \in Tab
      BY <2>1, <2>4 DEF Marking!Goes
    <3> QED BY <2>2, <3>1 DEF Tab
  <2>5. CASE Marking!Look(w)
    BY <2>4, <2>5 DEF Marking!Look
  <2>6. CASE Marking!clear_player_stance(w)
    BY <2>1, <2>6 DEF Marking!clear_player_stance, Marking!Without
  <2>7. CASE Marking!Find(w)
    BY <2>1, <2>4, <2>7 DEF Marking!Find, Marking!Found, Marking!SetStance
  <2>8. CASE Marking!Insert(w)
    BY <2>1, <2>4, <2>8 DEF Marking!Insert, Marking!SetStance
  <2>9. CASE Marking!FindAgain(w)
    BY <2>1, <2>9 DEF Marking!FindAgain, Marking!Found, Marking!SetStance, Marking!Refused
  <2> QED BY <2>3, <2>5, <2>6, <2>7, <2>8, <2>9
<1> QED BY <1>2, <1>3

LEMMA NotesStayPrivate == ASSUME Marking!MarksConstants, MarkInv, Marking!Next PROVE Marking!NotesArePrivate
<1>1. SUFFICES ASSUME NEW n \in Notes, note'[n] # note[n], note[n] # Unused
      PROVE  /\ note[n] # Deleted /\ note'[n] # Deleted => note'[n].user = note[n].user
             /\ \E w \in Workers : /\ job[w].note = n /\ job'[w] = Marking!Idle
                                   /\ note[n] # Deleted => job[w].user = note[n].user
                                   /\ note[n] = Deleted => Marking!At(w, "save")
  BY DEF Marking!NotesArePrivate
<1>0. /\ note \in [Notes -> NoteRow \union {Unused, Deleted}] /\ job \in [Workers -> Tab]
  BY DEF MarkInv, TabsFit
<1> USE DEF Marking!At
<1>2. PICK w \in Workers : Marking!SaveNote(w) \/ Marking!DeleteNote(w)
  <2>1. ASSUME NEW w \in Workers, Marking!WriteNote(w) PROVE FALSE
    <3>1. PICK m \in Marking!Fresh : \E row : note' = [note EXCEPT ![m] = row]
      BY <2>1 DEF Marking!WriteNote
    <3>2. note[m] = Unused
      BY DEF Marking!Fresh
    <3> QED BY <1>0, <1>1, <3>1, <3>2
  <2>2. \A w \in Workers : ~(\/ Marking!Press(w) \/ Marking!Look(w) \/ Marking!clear_player_stance(w)
                             \/ Marking!Find(w) \/ Marking!Insert(w) \/ Marking!FindAgain(w)
                             \/ Marking!Open(w))
    BY <1>1 DEF Marking!Press, Marking!Look, Marking!clear_player_stance, Marking!Find,
       Marking!Insert, Marking!FindAgain, Marking!Open, Marking!Found, Marking!SetStance,
       Marking!Refused
  <2> QED BY <2>1, <2>2 DEF Marking!Next
<1>3. PICK row : note' = [note EXCEPT ![job[w].note] = row]
  BY <1>2 DEF Marking!SaveNote, Marking!DeleteNote
<1>4. job[w].note = n /\ note'[n] = row
  BY <1>0, <1>1, <1>3
<1>5. Edits(job[w]) /\ job'[w] = Marking!Idle
  BY <1>0, <1>2 DEF Marking!SaveNote, Marking!DeleteNote, Marking!Ends, Edits
<1>6. note[n] # Deleted => note[n].user = job[w].user
  BY <1>4, <1>5 DEF MarkInv, AuthorsEdit
<1>7. CASE Marking!SaveNote(w)
  <2>1. note'[n] = [user |-> job[w].user, content |-> job[w].text] /\ job[w].pc = "save"
    BY <1>0, <1>4, <1>7 DEF Marking!SaveNote
  <2>2. note'[n].user = job[w].user
    BY <2>1
  <2> QED BY <1>4, <1>5, <1>6, <2>1, <2>2
<1>8. CASE Marking!DeleteNote(w)
  <2>1. note'[n] = Deleted
    BY <1>0, <1>4, <1>8 DEF Marking!DeleteNote
  <2> QED BY <1>1, <1>4, <1>5, <1>6, <2>1
<1> QED BY <1>2, <1>7, <1>8

(***************************************************************************)
(* However many tabs press the buttons of a player at once: a mark goes by *)
(* its own button only, the button pressed shows what is stored, and a     *)
(* note is written, changed and deleted by its author.                     *)
(***************************************************************************)
THEOREM MarksAndNotesAreOnesOwn ==
  Marking!MarksConstants => (Marking!Spec => [][Marking!MarkSteps]_Marking!vars)
<1> SUFFICES ASSUME Marking!MarksConstants PROVE Marking!Spec => [][Marking!MarkSteps]_Marking!vars
  OBVIOUS
<1>1. MarkInv /\ [Marking!Next]_Marking!vars => [Marking!MarkSteps]_Marking!vars
  BY MarksDoStay, TheAnswerIsTrue, NotesStayPrivate DEF Marking!MarkSteps
<1> QED BY <1>1, MarkInvHolds, PTL DEF Marking!Spec
=============================================================================
