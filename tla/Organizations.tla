--------------------------- MODULE Organizations ----------------------------
(***************************************************************************)
(* The team of one organization: memberships, roles and invitations.       *)
(*                                                                         *)
(* Every command locks the tenant row, reads memberships and invitations   *)
(* under that lock, checks, writes and commits: Begin is the checks,       *)
(* one action per command is its writes and commit.  What the lock does    *)
(* not cover is the accounts: they are switched off and on by the site     *)
(* administration while a command is between its checks and its commit.    *)
(*                                                                         *)
(* Whether the caller's own account is active was read when the request    *)
(* was authenticated and may be out of date by any amount here, so Begin   *)
(* does not ask for it.  Refusals change nothing and are not actions.      *)
(***************************************************************************)
EXTENDS Integers, FiniteSets

CONSTANTS
    User,
    Role,         \* the roles that are explored
    Invitation,   \* identifiers of invitations
    Thread,       \* concurrent requests
    NoInvitation,
    NoCommand

TeamRoles == {"owner", "admin"}   \* roles with the capability "team"

\* "expired" is an open row whose expires_at has passed.
InvitationStatus == {"open", "expired", "accepted", "revoked"}
InvitationRow == [status : InvitationStatus, email : User, role : Role \ {"owner"},
                  inviter : User]

ASSUME OrganizationsAssumption ==
    /\ TeamRoles \cup {"developer"} \subseteq Role
    /\ Role \subseteq {"owner", "admin", "developer", "analyst", "billing"}
    /\ NoInvitation \notin InvitationRow

\* A request.  Removal is checked as a change to "developer", as in the code;
\* an argument a command does not have is its caller, "developer" or none.
Command ==
    [kind : {"change"}, actor : User, user : User, role : Role,
     invitation : {NoInvitation}]
    \cup [kind : {"remove", "transfer"}, actor : User, user : User,
          role : {"developer"}, invitation : {NoInvitation}]
    \cup [kind : {"invite"}, actor : User, user : User, role : Role,
          invitation : Invitation]
    \cup {c \in [kind : {"accept", "revoke"}, actor : User, user : User,
                 role : {"developer"}, invitation : Invitation] : c.user = c.actor}
    \cup {c \in [kind : {"archive"}, actor : User, user : User,
                 role : {"developer"}, invitation : {NoInvitation}] : c.user = c.actor}

VARIABLES
    orgActive,   \* the organization is active
    account,     \* account[u]: u may authenticate (active, verified)
    member,      \* member[u]: none, active, or inactive after a removal
    role,        \* role[u]: the role of u's membership row
    invitation,  \* invitation[i]: its row, or NoInvitation
    command      \* command[t]: the command t carries out under the tenant lock

vars == <<orgActive, account, member, role, invitation, command>>

\* (_Unlocked: as if the tenant row were read without select_for_update.)
TenantFree_Unlocked == TRUE
TenantFree == \A t \in Thread : command[t] = NoCommand

-----------------------------------------------------------------------------
(* create_organization: the founder is its owner                           *)
Init ==
    /\ orgActive = TRUE
    /\ account = [u \in User |-> TRUE]
    /\ \E founder \in User :
         /\ member = [u \in User |-> IF u = founder THEN "active" ELSE "none"]
         /\ role = [u \in User |-> IF u = founder THEN "owner" ELSE "developer"]
    /\ invitation = [i \in Invitation |-> NoInvitation]
    /\ command = [t \in Thread |-> NoCommand]

-----------------------------------------------------------------------------
(* The checks of each command, made under the tenant lock                  *)

Owns(u) == member[u] = "active" /\ role[u] = "owner"
Manages(u) == member[u] = "active" /\ role[u] \in TeamRoles

\* _check_role_change: only an owner gives or takes owner or admin.
MayAssign(granter, newRole, oldRole) ==
    newRole \in TeamRoles \/ oldRole \in TeamRoles => role[granter] = "owner"

\* The owners who can still sign in, counted without a lock on the accounts.
EligibleOwners == {u \in User : Owns(u) /\ account[u]}
\* (_OffByOne: as if one eligible owner were enough to let an owner go.)
SparesOwner_OffByOne(u) == Owns(u) => Cardinality(EligibleOwners) >= 1
SparesOwner(u) == Owns(u) => Cardinality(EligibleOwners) > 1

MayChangeRole(c) ==
    /\ orgActive
    /\ Manages(c.actor)
    /\ member[c.user] = "active"
    /\ MayAssign(c.actor, c.role, role[c.user])
    /\ c.role # "owner" => SparesOwner(c.user)

MayRemove(c) ==
    /\ orgActive
    /\ Manages(c.actor)
    /\ member[c.user] = "active"
    /\ MayAssign(c.actor, c.role, role[c.user])
    /\ SparesOwner(c.user)

MayTransfer(c) ==
    /\ orgActive
    /\ Owns(c.actor)
    /\ member[c.user] = "active"
    /\ account[c.user]
    /\ c.user # c.actor

MayInvite(c) ==
    /\ orgActive
    /\ Manages(c.actor)
    /\ MayAssign(c.actor, c.role, "developer")
    /\ c.role # "owner"
    /\ member[c.user] # "active"
    /\ invitation[c.invitation] = NoInvitation

\* The inviter's role is read again: an invitation lasts as long as the
\* authority behind it.  (_Trusting: as if it were not.)
MayAccept_Trusting(c) ==
    LET row == invitation[c.invitation]
    IN  /\ row # NoInvitation
        /\ row.email = c.actor
        /\ Manages(row.inviter)
        /\ account[row.inviter]
        /\ row.status = "open"
        /\ orgActive
        /\ member[c.actor] # "active"
MayAccept(c) ==
    LET row == invitation[c.invitation]
    IN  /\ row # NoInvitation
        /\ row.email = c.actor
        /\ Manages(row.inviter)
        /\ account[row.inviter]
        /\ MayAssign(row.inviter, row.role, "developer")
        /\ row.status = "open"
        /\ orgActive
        /\ member[c.actor] # "active"

MayRevoke(c) ==
    /\ orgActive
    /\ Manages(c.actor)
    /\ invitation[c.invitation] # NoInvitation
    /\ invitation[c.invitation].status \in {"open", "expired"}

MayArchive(c) == orgActive /\ Owns(c.actor)

Permitted(c) ==
    \/ c.kind = "change" /\ MayChangeRole(c)
    \/ c.kind = "remove" /\ MayRemove(c)
    \/ c.kind = "transfer" /\ MayTransfer(c)
    \/ c.kind = "invite" /\ MayInvite(c)
    \/ c.kind = "accept" /\ MayAccept(c)
    \/ c.kind = "revoke" /\ MayRevoke(c)
    \/ c.kind = "archive" /\ MayArchive(c)

Begin(t, c) ==
    /\ command[t] = NoCommand
    /\ TenantFree
    /\ Permitted(c)
    /\ command' = [command EXCEPT ![t] = c]
    /\ UNCHANGED <<orgActive, account, member, role, invitation>>

-----------------------------------------------------------------------------
(* The writes and the commit of each command                               *)

Holds(t, kind) == command[t] # NoCommand /\ command[t].kind = kind
Release(t) == command' = [command EXCEPT ![t] = NoCommand]

ChangeRole(t) ==
    /\ Holds(t, "change")
    /\ role' = [role EXCEPT ![command[t].user] = command[t].role]
    /\ Release(t)
    /\ UNCHANGED <<orgActive, account, member, invitation>>

Remove(t) ==
    /\ Holds(t, "remove")
    /\ member' = [member EXCEPT ![command[t].user] = "inactive"]
    /\ Release(t)
    /\ UNCHANGED <<orgActive, account, role, invitation>>

TransferOwnership(t) ==
    /\ Holds(t, "transfer")
    /\ role' = [role EXCEPT ![command[t].user] = "owner", ![command[t].actor] = "admin"]
    /\ Release(t)
    /\ UNCHANGED <<orgActive, account, member, invitation>>

\* A new invitation revokes what was still open for that address, expired or
\* not.
Superseded(i, email) ==
    /\ invitation[i] # NoInvitation
    /\ invitation[i].email = email
    /\ invitation[i].status \in {"open", "expired"}

Invite(t) ==
    /\ Holds(t, "invite")
    /\ LET c == command[t]
       IN  invitation' = [i \in Invitation |->
             IF i = c.invitation
             THEN [status |-> "open", email |-> c.user, role |-> c.role,
                   inviter |-> c.actor]
             ELSE IF Superseded(i, c.user)
                  THEN [invitation[i] EXCEPT !.status = "revoked"]
                  ELSE invitation[i]]
    /\ Release(t)
    /\ UNCHANGED <<orgActive, account, member, role>>

Accept(t) ==
    /\ Holds(t, "accept")
    /\ LET c == command[t]
       IN  /\ member' = [member EXCEPT ![c.actor] = "active"]
           /\ role' = [role EXCEPT ![c.actor] = invitation[c.invitation].role]
           /\ invitation' = [invitation EXCEPT ![c.invitation].status = "accepted"]
    /\ Release(t)
    /\ UNCHANGED <<orgActive, account>>

RevokeInvitation(t) ==
    /\ Holds(t, "revoke")
    /\ invitation' = [invitation EXCEPT ![command[t].invitation].status = "revoked"]
    /\ Release(t)
    /\ UNCHANGED <<orgActive, account, member, role>>

Archive(t) ==
    /\ Holds(t, "archive")
    /\ orgActive' = FALSE
    /\ Release(t)
    /\ UNCHANGED <<account, member, role, invitation>>

\* An exception or a lost worker rolls the transaction back.
Abort(t) ==
    /\ command[t] # NoCommand
    /\ Release(t)
    /\ UNCHANGED <<orgActive, account, member, role, invitation>>

-----------------------------------------------------------------------------
(* What needs no tenant lock                                               *)

\* The site administration disables or restores an account.
SetAccount(u, active) ==
    /\ account[u] # active
    /\ account' = [account EXCEPT ![u] = active]
    /\ UNCHANGED <<orgActive, member, role, invitation, command>>

\* expires_at passes.
Expire(i) ==
    /\ invitation[i] # NoInvitation
    /\ invitation[i].status = "open"
    /\ invitation' = [invitation EXCEPT ![i].status = "expired"]
    /\ UNCHANGED <<orgActive, account, member, role, command>>

-----------------------------------------------------------------------------
Commit(t) ==
    \/ ChangeRole(t) \/ Remove(t) \/ TransferOwnership(t)
    \/ Invite(t) \/ Accept(t) \/ RevokeInvitation(t)
    \/ Archive(t)

Next ==
    \/ \E t \in Thread, c \in Command : Begin(t, c)
    \/ \E t \in Thread : Commit(t) \/ Abort(t)
    \/ \E u \in User, active \in BOOLEAN : SetAccount(u, active)
    \/ \E i \in Invitation : Expire(i)

Spec == Init /\ [][Next]_vars

-----------------------------------------------------------------------------
(* Properties                                                              *)

\* The type of every variable; no invitation is for the role of owner.
TypeOK ==
    /\ orgActive \in BOOLEAN
    /\ account \in [User -> BOOLEAN]
    /\ member \in [User -> {"none", "active", "inactive"}]
    /\ role \in [User -> Role]
    /\ invitation \in [Invitation -> InvitationRow \cup {NoInvitation}]
    /\ command \in [Thread -> Command \cup {NoCommand}]

\* "The organization must retain an owner": whatever owners do to each other
\* and to themselves at the same time, one owner membership stays active.
OwnerRetained == \E u \in User : Owns(u)

\* The partial unique index org_one_open_invitation is never hit: one address
\* has at most one invitation that is neither accepted nor revoked.
OneOpenInvitation ==
    \A i, j \in Invitation :
        /\ invitation[i] # NoInvitation
        /\ invitation[j] # NoInvitation
        /\ invitation[i].email = invitation[j].email
        /\ invitation[i].status \in {"open", "expired"}
        /\ invitation[j].status \in {"open", "expired"}
        => i = j

\* Nobody becomes or stops being owner or admin except by a command whose
\* authority is an owner at the moment it commits: the caller, or for an
\* accepted invitation the member who issued it.
Rank(u) == IF Manages(u) THEN role[u] ELSE "none"
Authority(c) ==
    IF c.kind = "accept" THEN invitation[c.invitation].inviter ELSE c.actor
PowerComesFromOwners ==
    [][\A u \in User : Rank(u)' # Rank(u) =>
          \E t \in Thread : /\ command[t] # NoCommand
                            /\ command'[t] = NoCommand
                            /\ Owns(Authority(command[t]))]_vars

\* An invitation is used once: accepted or revoked, it never changes again, not
\* by an acceptance, a revocation or a new invitation that was under way.
ClosedStaysClosed ==
    [][\A i \in Invitation :
          invitation[i] # NoInvitation /\ invitation[i].status \in {"accepted", "revoked"}
          => invitation'[i] = invitation[i]]_vars

\* The team of an archived organization never changes again.
ArchivedTeamFrozen == [][~orgActive => UNCHANGED <<member, role>>]_vars
=============================================================================
