----------------------------- MODULE Access ------------------------------
(***************************************************************************)
(* Accounts, invitations and memberships (auth/user-store.mjs) as the two  *)
(* consoles use them: dashboard/server.mjs, which calls the manager        *)
(* directly, and dashboard/management-access.mjs, which supersedes first.  *)
(* Every handler is synchronous once its body is read (the password hash   *)
(* is awaited but computed at once), so handlers do not interleave; none   *)
(* is a transaction, so the process may die between two of their writes.   *)
(***************************************************************************)
EXTENDS Integers, FiniteSets, FiniteSetsExt

CONSTANTS
    Emails, Projects, Roles,
    MaxInvitations, \* bound: invitations ever created, named in order
    AccessTime,     \* bound: the clock stops here
    InviteLife      \* the 24 hours an invitation is good for

ASSUME AccessAssumption == MaxInvitations \in Nat /\ AccessTime \in Nat /\ InviteLife \in Nat

Invitations == 1..MaxInvitations
NoInvitation == [status |-> "none"]
NoMember == "none"

VARIABLES
    acNow,
    users,      \* e-mail addresses with an account
    invitation, \* the rows of invitations
    member,     \* project_users: the role, or NoMember
    joined,     \* history: invitations through which a membership was written
    halfway     \* history: invitations whose acceptance the process did not survive

accessVars == <<acNow, users, invitation, member, joined, halfway>>

Invited == {i \in Invitations : invitation[i] # NoInvitation}
Of(email, project) == {i \in Invited : /\ invitation[i].email = email
                                       /\ invitation[i].project = project}
Pending(i) == invitation[i].status = "pending"

AccessInit ==
    /\ acNow = 0
    /\ users = {}
    /\ invitation = [i \in Invitations |-> NoInvitation]
    /\ member = [x \in Emails \X Projects |-> NoMember]
    /\ joined = {} /\ halfway = {}

Withdraw(rows, status) ==
    [i \in Invitations |-> IF i \in rows THEN [invitation[i] EXCEPT !.status = status]
                           ELSE invitation[i]]

---------------------------------------------------------------------------
(* InvitationManager.                                                      *)

\* create looks at the first row of the address and the project only.
Creatable(rows, email, project) ==
    /\ email \notin users
    /\ LET same == {i \in Invited : rows[i].email = email /\ rows[i].project = project}
       IN same # {} => rows[Min(same)].status # "pending"

Created(rows, email, project, role) ==
    [rows EXCEPT ![Cardinality(Invited) + 1] =
        [status |-> "pending", email |-> email, project |-> project, role |-> role,
         expires |-> acNow + InviteLife]]

\* POST /api/auth/invitations and /api/projects/:id/members without an account.
create(email, project, role) ==
    /\ Cardinality(Invited) < MaxInvitations
    /\ Creatable(invitation, email, project)
    /\ invitation' = Created(invitation, email, project, role)
    /\ UNCHANGED <<acNow, users, member, joined, halfway>>

\* management-access: what is pending is superseded, whether or not create then works.
invite(email, project, role) ==
    LET rows == Withdraw({i \in Of(email, project) : Pending(i)}, "superseded") IN
    /\ Cardinality(Invited) < MaxInvitations
    /\ invitation' = IF Creatable(rows, email, project)
                     THEN Created(rows, email, project, role) ELSE rows
    /\ UNCHANGED <<acNow, users, member, joined, halfway>>

\* Resending an invitation is inviting again; of a row that is pending only.
resend(i) ==
    /\ i \in Invited /\ Pending(i)
    /\ invite(invitation[i].email, invitation[i].project, invitation[i].role)

revoke(i) ==
    /\ i \in Invited /\ Pending(i)
    /\ \E status \in {"revoked", "cancelled"} : invitation' = Withdraw({i}, status)
    /\ UNCHANGED <<acNow, users, member, joined, halfway>>

Valid(i) == Pending(i) /\ invitation[i].expires >= acNow

\* The three writes of accept, in order; done of them reach the disk.
Written_marked(i, done) ==
    /\ users' = IF done >= 1 THEN users \cup {invitation[i].email} ELSE users
    /\ invitation' = IF done >= 2 THEN Withdraw({i}, "accepted") ELSE invitation
    /\ member' = IF done >= 3
                 THEN [member EXCEPT ![<<invitation[i].email, invitation[i].project>>] =
                          invitation[i].role]
                 ELSE member
    /\ joined' = IF done >= 3 THEN joined \cup {i} ELSE joined
Written(i, done) ==
    /\ users' = IF done >= 1 THEN users \cup {invitation[i].email} ELSE users
    /\ member' = IF done >= 2
                 THEN [member EXCEPT ![<<invitation[i].email, invitation[i].project>>] =
                          invitation[i].role]
                 ELSE member
    /\ joined' = IF done >= 2 THEN joined \cup {i} ELSE joined
    /\ invitation' = IF done >= 3 THEN Withdraw({i}, "accepted") ELSE invitation

\* An address with an account is refused by createUser.
accept(i) ==
    /\ i \in Invited /\ Valid(i) /\ invitation[i].email \notin users
    /\ Written(i, 3)
    /\ UNCHANGED <<acNow, halfway>>

acceptAndDie(i) ==
    /\ i \in Invited /\ Valid(i) /\ invitation[i].email \notin users
    /\ \E done \in 1..2 : Written(i, done)
    /\ halfway' = halfway \cup {i}
    /\ UNCHANGED acNow

---------------------------------------------------------------------------
(* The consoles' other writes.                                             *)

\* Registration, or the first single sign-on.
createUser(email) ==
    /\ email \notin users /\ users' = users \cup {email}
    /\ UNCHANGED <<acNow, invitation, member, joined, halfway>>

\* INSERT OR IGNORE of somebody who has an account.
addMember(email, project, role) ==
    /\ email \in users
    /\ member[<<email, project>>] = NoMember
    /\ member' = [member EXCEPT ![<<email, project>>] = role]
    /\ UNCHANGED <<acNow, users, invitation, joined, halfway>>

changeMembership(email, project, role) ==
    /\ member[<<email, project>>] # NoMember
    /\ member' = [member EXCEPT ![<<email, project>>] = role]
    /\ UNCHANGED <<acNow, users, invitation, joined, halfway>>

removeMember(email, project) ==
    /\ member[<<email, project>>] # NoMember
    /\ member' = [member EXCEPT ![<<email, project>>] = NoMember]
    /\ UNCHANGED <<acNow, users, invitation, joined, halfway>>

AccessClock ==
    /\ acNow < AccessTime /\ acNow' = acNow + 1
    /\ UNCHANGED <<users, invitation, member, joined, halfway>>

AccessNext ==
    \/ \E email \in Emails, project \in Projects :
          \/ \E role \in Roles :
                \/ create(email, project, role)
                \/ invite(email, project, role)
                \/ addMember(email, project, role)
                \/ changeMembership(email, project, role)
          \/ removeMember(email, project)
    \/ \E email \in Emails : createUser(email)
    \/ \E i \in Invitations : resend(i) \/ revoke(i) \/ accept(i) \/ acceptAndDie(i)
    \/ AccessClock

AccessSpec == AccessInit /\ [][AccessNext]_accessVars

---------------------------------------------------------------------------
AccessTypeOK ==
    /\ acNow \in 0..AccessTime /\ users \subseteq Emails
    /\ Invited = 1..Cardinality(Invited)
    /\ \A i \in Invited :
          /\ invitation[i].status \in {"pending", "accepted", "revoked", "cancelled", "superseded"}
          /\ invitation[i].email \in Emails /\ invitation[i].project \in Projects
          /\ invitation[i].role \in Roles
    /\ member \in [Emails \X Projects -> Roles \cup {NoMember}]
    /\ joined \cup halfway \subseteq Invited

\* An acceptance is whole (user-store.mjs:429-456): an invitation marked accepted
\* did bring in a member, what brought one in is marked unless the process died
\* on the way, and an address has one account, founded by one invitation at most,
\* although several of its invitations may be pending at a time.
AcceptanceWhole ==
    /\ \A i \in Invited :
          /\ invitation[i].status = "accepted" => i \in joined
          /\ i \in joined => invitation[i].status = "accepted" \/ i \in halfway
    /\ \A i, j \in joined : invitation[i].email = invitation[j].email => i = j
    /\ \A x \in Emails \X Projects : member[x] # NoMember => x[1] \in users
=============================================================================
