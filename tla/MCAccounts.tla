----------------------------- MODULE MCAccounts -----------------------------
(***************************************************************************)
(* Small instances of Accounts for TLC.  The first state chooses which of  *)
(* them the behaviour is of, so that one run checks them all.  The         *)
(* extended module itself is of three administrators who demote each       *)
(* other; the other instances have variables of their own.                 *)
(***************************************************************************)
EXTENDS Accounts, TLC

CONSTANTS w1, w2, w3

VARIABLES
  setting,
  clock, stamps, rows, tokens, tasks       \* of requests one at a time

others == <<clock, stamps, rows, tokens, tasks>>
MCVars == <<setting, vars, others>>

Three == 1..3
Two == 1..2
AllAdmins == <<"admin", "admin", "admin">>
OneAdmin == <<"admin">>
OwnAddresses == {<<p, "a">> : p \in Three}
OneSpelling == {<<1, "a">>, <<2, "a">>}
TwoSpellings == {<<1, "a">>, <<2, "a">>, <<2, "b">>}
Every == {"role", "profile", "password", "admin", "admin_password", "admin_add", "delete",
          "invite", "resend", "reset", "accept", "reset_confirm", "sign_in"}
Inviting == {"invite", "profile", "accept", "resend", "delete"}
AllRoles == {"coach", "team", "admin"}
One == {w1}

\* One request at a time, of every kind.
Alone == INSTANCE Accounts WITH
  now <- clock, stamp <- stamps, users <- rows, links <- tokens, job <- tasks,
  Workers <- One, People <- Two, InitialRoles <- OneAdmin, Addresses <- OneSpelling,
  Kinds <- Every, Grantable <- AllRoles,
  InvitationTimeout <- 1, ResetTimeout <- 0, MaxStamp <- 3, LastInstant <- 0, MaxLinks <- 1

\* One request at a time, without the admin site's forms, while links expire.
Invitations == INSTANCE Accounts WITH
  now <- clock, stamp <- stamps, users <- rows, links <- tokens, job <- tasks,
  Workers <- One, People <- Two, InitialRoles <- OneAdmin, Addresses <- TwoSpellings,
  Kinds <- Inviting, Grantable <- {},
  InvitationTimeout <- 1, ResetTimeout <- 0, MaxStamp <- 4, LastInstant <- 2, MaxLinks <- 3

\* An administrator and a team member, whose roles change while requests wait.
AdminAndTeam == <<"admin", "team">>
Changing == INSTANCE Accounts WITH
  Workers <- {w1, w2}, People <- Two, InitialRoles <- AdminAndTeam,
  Addresses <- OneSpelling, Kinds <- {"role"}, Grantable <- {"coach", "admin"},
  InvitationTimeout <- 2, ResetTimeout <- 1, MaxStamp <- 1, LastInstant <- 0, MaxLinks <- 0

ASSUME
  /\ AccountConstants /\ OnlyDemotions
  /\ Alone!AccountConstants /\ Invitations!AccountConstants /\ Changing!AccountConstants

NoOthers == clock = 0 /\ stamps = 0 /\ rows = 0 /\ tokens = 0 /\ tasks = 0

MCInit ==
  \/ setting = "demotions" /\ Init /\ NoOthers
  \/ /\ Init
     /\ \/ setting = "alone" /\ Alone!Init
        \/ setting = "invitations" /\ Invitations!Init

MCNext ==
  /\ UNCHANGED setting
  /\ \/ setting = "demotions" /\ Next /\ UNCHANGED others
     \/ /\ UNCHANGED vars
        /\ \/ setting = "alone" /\ Alone!Next
           \/ setting = "invitations" /\ Invitations!Next

MCSpec == MCInit /\ [][MCNext]_MCVars

\* Roles given and taken while a request is under way.
ChangingSpec ==
  /\ setting = "changing" /\ Changing!Init /\ NoOthers
  /\ [][UNCHANGED <<setting, others>> /\ Changing!Next]_MCVars

-----------------------------------------------------------------------------
\* Saving one's own details, a password or a link never gives or takes a
\* right, as long as requests do not overlap.
AloneRightsAreGranted == [][setting = "alone" => Alone!RightsAreGranted]_MCVars

\* An invitation link never replaces a password that has been set, as long as
\* requests do not overlap.
AloneNeverReplaces == [][setting = "alone" => Alone!NeverReplacesPassword]_MCVars

\* Two accounts never share a mailbox in two spellings, as long as requests
\* do not overlap and the admin site is not used.
AloneOneAccount == setting = "invitations" => Invitations!OneAccountPerAddress

\* "The last active administrator cannot be demoted", however roles change side by
\* side.
AdminRemains == Changing!AlwaysAnAdmin

Symmetry == Permutations({w1, w2, w3})
=============================================================================
