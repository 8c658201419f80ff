------------------------ MODULE Organizations_proofs ------------------------
(***************************************************************************)
(* Proofs about Organizations for every set of users, roles, invitations   *)
(* and requests: the inductive invariant that the tenant lock maintains,   *)
(* and what follows from it.  The second part is about UsageAggregation,   *)
(* for every number of runs, events and buckets.                           *)
(***************************************************************************)
EXTENDS Organizations, UsageAggregation, Recursion, TLAPS

USE OrganizationsAssumption DEF TeamRoles

(***************************************************************************)
(* The inductive invariant.  A command that holds the tenant lock is still *)
(* warranted by the rows it was checked against, whatever has happened to  *)
(* the accounts since.                                                     *)
(***************************************************************************)

Open(i) ==
    /\ invitation[i] # NoInvitation
    /\ invitation[i].status \in {"open", "expired"}

AnotherOwner(u) == \E v \in User : v # u /\ Owns(v)

ChangeWarranted(c) ==
    c.kind = "change" =>
        /\ Manages(c.actor)
        /\ member[c.user] = "active"
        /\ MayAssign(c.actor, c.role, role[c.user])
        /\ Owns(c.user) /\ c.role # "owner" => AnotherOwner(c.user)

RemovalWarranted(c) ==
    c.kind = "remove" =>
        /\ Manages(c.actor)
        /\ MayAssign(c.actor, c.role, role[c.user])
        /\ Owns(c.user) => AnotherOwner(c.user)

TransferWarranted(c) ==
    c.kind = "transfer" =>
        /\ Owns(c.actor)
        /\ member[c.user] = "active"
        /\ c.user # c.actor

InviteWarranted(c) ==
    c.kind = "invite" =>
        /\ c.role # "owner"
        /\ invitation[c.invitation] = NoInvitation

AcceptWarranted(c) ==
    c.kind = "accept" =>
        /\ Open(c.invitation)
        /\ Manages(invitation[c.invitation].inviter)
        /\ MayAssign(invitation[c.invitation].inviter,
                     invitation[c.invitation].role, "developer")
        /\ member[c.actor] # "active"

RevokeWarranted(c) == c.kind = "revoke" => Open(c.invitation)

Warranted(c) ==
    /\ orgActive
    /\ ChangeWarranted(c)
    /\ RemovalWarranted(c)
    /\ TransferWarranted(c)
    /\ InviteWarranted(c)
    /\ AcceptWarranted(c)
    /\ RevokeWarranted(c)

OneHolder ==
    \A s, t \in Thread : command[s] # NoCommand /\ command[t] # NoCommand => s = t

HeldWarranted ==
    \A t \in Thread : command[t] # NoCommand => Warranted(command[t])

IInv ==
    /\ TypeOK
    /\ OneHolder
    /\ HeldWarranted
    /\ OwnerRetained
    /\ OneOpenInvitation

-----------------------------------------------------------------------------
(***************************************************************************)
(* Commands and the checks.                                                *)
(***************************************************************************)

\* What the fields of a command range over.
LEMMA CommandFields ==
  ASSUME NEW c \in Command
  PROVE  /\ c.actor \in User
         /\ c.user \in User
         /\ c.role \in Role
         /\ c.kind \in {"change", "remove", "transfer", "invite", "accept",
                        "revoke", "archive"}
         /\ c.kind \in {"invite", "accept", "revoke"} => c.invitation \in Invitation
         /\ c.kind = "remove" => c.role = "developer"
BY DEF Command

\* An owner who is spared is not the only one: the count of eligible owners
\* that exceeds one has somebody else in it.
LEMMA SparedOwner ==
  ASSUME NEW u \in User, Owns(u), SparesOwner(u)
  PROVE  AnotherOwner(u)
<1>1. Cardinality(EligibleOwners) > 1
  BY DEF SparesOwner
<1>2. SUFFICES ASSUME ~AnotherOwner(u) PROVE FALSE
  OBVIOUS
<1>3. EligibleOwners \subseteq {u}
  BY <1>2 DEF EligibleOwners, AnotherOwner
<1>4. IsFiniteSet({u}) /\ Cardinality({u}) = 1
  BY FS_Singleton
<1>5. Cardinality(EligibleOwners) <= Cardinality({u})
  BY <1>3, <1>4, FS_Subset
<1>6. Cardinality(EligibleOwners) \in Nat
  BY <1>3, <1>4, FS_Subset, FS_CardinalityType
<1>7. QED
  BY <1>1, <1>4, <1>5, <1>6

\* What the checks under the lock establish.
LEMMA PermittedWarranted ==
  ASSUME TypeOK, NEW c \in Command, Permitted(c)
  PROVE  Warranted(c)
<1>1. c.user \in User /\ c.actor \in User
  BY CommandFields
<1>2. orgActive
  BY DEF Permitted, MayChangeRole, MayRemove, MayTransfer, MayInvite, MayAccept,
         MayRevoke, MayArchive
<1>3. ChangeWarranted(c)
  <2>1. SUFFICES ASSUME c.kind = "change" PROVE ChangeWarranted(c)
    BY DEF ChangeWarranted
  <2>2. MayChangeRole(c)
    BY <2>1 DEF Permitted
  <2>3. Owns(c.user) /\ c.role # "owner" => AnotherOwner(c.user)
    BY <1>1, <2>2, SparedOwner DEF MayChangeRole
  <2>4. QED
    BY <2>2, <2>3 DEF ChangeWarranted, MayChangeRole
<1>4. RemovalWarranted(c)
  <2>1. SUFFICES ASSUME c.kind = "remove" PROVE RemovalWarranted(c)
    BY DEF RemovalWarranted
  <2>2. MayRemove(c)
    BY <2>1 DEF Permitted
  <2>3. Owns(c.user) => AnotherOwner(c.user)
    BY <1>1, <2>2, SparedOwner DEF MayRemove
  <2>4. QED
    BY <2>2, <2>3 DEF RemovalWarranted, MayRemove
<1>5. TransferWarranted(c) /\ InviteWarranted(c)
  BY DEF Permitted, TransferWarranted, InviteWarranted, MayTransfer, MayInvite
<1>6. AcceptWarranted(c) /\ RevokeWarranted(c)
  BY DEF Permitted, AcceptWarranted, RevokeWarranted, MayAccept, MayRevoke, Open
<1>7. QED
  BY <1>2, <1>3, <1>4, <1>5, <1>6 DEF Warranted

-----------------------------------------------------------------------------
(***************************************************************************)
(* Type correctness.                                                       *)
(***************************************************************************)

LEMMA InitType == Init => TypeOK
BY DEF Init, TypeOK

\* A request that holds the tenant lock carries out a command.
LEMMA HeldCommand ==
  ASSUME TypeOK, NEW t \in Thread, NEW k, Holds(t, k)
  PROVE  command[t] \in Command /\ command[t] # NoCommand /\ command[t].kind = k
BY DEF TypeOK, Holds

LEMMA ReleaseType ==
  ASSUME TypeOK, NEW t \in Thread, Release(t)
  PROVE  command' \in [Thread -> Command \cup {NoCommand}]
BY DEF TypeOK, Release

LEMMA CommitType ==
  ASSUME TypeOK, HeldWarranted, NEW t \in Thread, Commit(t)
  PROVE  TypeOK'
<1>1. Release(t)
  BY DEF Commit, ChangeRole, Remove, TransferOwnership, Invite, Accept,
         RevokeInvitation, Archive
<1>2. command' \in [Thread -> Command \cup {NoCommand}]
  BY <1>1, ReleaseType
<1>3. CASE ChangeRole(t)
  <2>1. command[t] \in Command
    BY <1>3, HeldCommand DEF ChangeRole
  <2>2. command[t].role \in Role
    BY <2>1, CommandFields
  <2>3. QED
    BY <1>2, <1>3, <2>2 DEF ChangeRole, TypeOK
<1>4. CASE Remove(t)
  BY <1>2, <1>4 DEF Remove, TypeOK
<1>5. CASE TransferOwnership(t)
  BY <1>2, <1>5 DEF TransferOwnership, TypeOK
<1>6. CASE Invite(t)
  <2> DEFINE c == command[t]
  <2>1. c \in Command /\ c # NoCommand /\ c.kind = "invite"
    BY <1>6, HeldCommand DEF Invite
  <2>2. c.actor \in User /\ c.user \in User /\ c.role \in Role \ {"owner"}
    BY <2>1, CommandFields DEF HeldWarranted, Warranted, InviteWarranted
  <2>3. [status |-> "open", email |-> c.user, role |-> c.role, inviter |-> c.actor]
          \in InvitationRow
    BY <2>2 DEF InvitationRow, InvitationStatus
  <2>4. ASSUME NEW i \in Invitation, invitation[i] # NoInvitation
        PROVE  [invitation[i] EXCEPT !.status = "revoked"] \in InvitationRow
    BY <2>4 DEF TypeOK, InvitationRow, InvitationStatus
  <2>5. ASSUME NEW i \in Invitation
        PROVE  invitation'[i] \in InvitationRow \cup {NoInvitation}
    BY <1>6, <2>3, <2>4 DEF Invite, TypeOK, Superseded
  <2>6. invitation' \in [Invitation -> InvitationRow \cup {NoInvitation}]
    BY <1>6, <2>5 DEF Invite
  <2>7. QED
    BY <1>2, <1>6, <2>6 DEF Invite, TypeOK
<1>7. CASE Accept(t)
  <2> DEFINE c == command[t]
  <2>1. c \in Command /\ c # NoCommand /\ c.kind = "accept"
    BY <1>7, HeldCommand DEF Accept
  <2>2. c.invitation \in Invitation /\ invitation[c.invitation] \in InvitationRow
    BY <2>1, CommandFields DEF HeldWarranted, Warranted, AcceptWarranted, Open, TypeOK
  <2>3. /\ invitation[c.invitation].role \in Role
        /\ [invitation[c.invitation] EXCEPT !.status = "accepted"] \in InvitationRow
    BY <2>2 DEF InvitationRow, InvitationStatus
  <2>4. invitation' \in [Invitation -> InvitationRow \cup {NoInvitation}]
    BY <1>7, <2>3 DEF Accept, TypeOK
  <2>5. QED
    BY <1>2, <1>7, <2>3, <2>4 DEF Accept, TypeOK
<1>8. CASE RevokeInvitation(t)
  <2> DEFINE c == command[t]
  <2>1. c \in Command /\ c # NoCommand /\ c.kind = "revoke"
    BY <1>8, HeldCommand DEF RevokeInvitation
  <2>2. c.invitation \in Invitation /\ invitation[c.invitation] \in InvitationRow
    BY <2>1, CommandFields DEF HeldWarranted, Warranted, RevokeWarranted, Open, TypeOK
  <2>3. [invitation[c.invitation] EXCEPT !.status = "revoked"] \in InvitationRow
    BY <2>2 DEF InvitationRow, InvitationStatus
  <2>4. invitation' \in [Invitation -> InvitationRow \cup {NoInvitation}]
    BY <1>8, <2>3 DEF RevokeInvitation, TypeOK
  <2>5. QED
    BY <1>2, <1>8, <2>4 DEF RevokeInvitation, TypeOK
<1>9. CASE Archive(t)
  BY <1>2, <1>9 DEF Archive, TypeOK
<1>10. QED
  BY <1>3, <1>4, <1>5, <1>6, <1>7, <1>8, <1>9 DEF Commit

LEMMA ExpireType ==
  ASSUME TypeOK, NEW i \in Invitation, Expire(i)
  PROVE  TypeOK'
<1>1. invitation[i] \in InvitationRow
  BY DEF Expire, TypeOK
<1>2. [invitation[i] EXCEPT !.status = "expired"] \in InvitationRow
  BY <1>1 DEF InvitationRow, InvitationStatus
<1>3. invitation' \in [Invitation -> InvitationRow \cup {NoInvitation}]
  BY <1>2 DEF Expire, TypeOK
<1>4. QED
  BY <1>3 DEF Expire, TypeOK

LEMMA NextType ==
  ASSUME TypeOK, HeldWarranted, [Next]_vars
  PROVE  TypeOK'
<1>1. ASSUME NEW t \in Thread, NEW c \in Command, Begin(t, c) PROVE TypeOK'
  BY <1>1 DEF Begin, TypeOK
<1>2. ASSUME NEW t \in Thread, Commit(t) PROVE TypeOK'
  BY <1>2, CommitType
<1>3. ASSUME NEW t \in Thread, Abort(t) PROVE TypeOK'
  <2>1. command' \in [Thread -> Command \cup {NoCommand}]
    BY <1>3, ReleaseType DEF Abort
  <2>2. QED
    BY <1>3, <2>1 DEF Abort, TypeOK
<1>4. ASSUME NEW u \in User, NEW active \in BOOLEAN, SetAccount(u, active) PROVE TypeOK'
  BY <1>4 DEF SetAccount, TypeOK
<1>5. ASSUME NEW i \in Invitation, Expire(i) PROVE TypeOK'
  BY <1>5, ExpireType
<1>6. CASE UNCHANGED vars
  BY <1>6 DEF vars, TypeOK
<1>7. QED
  BY <1>1, <1>2, <1>3, <1>4, <1>5, <1>6 DEF Next

-----------------------------------------------------------------------------
(***************************************************************************)
(* The tenant lock.                                                        *)
(***************************************************************************)

\* Once the only holder has released the lock nobody holds it.
LEMMA Released ==
  ASSUME TypeOK, OneHolder, NEW t \in Thread, command[t] # NoCommand, Release(t)
  PROVE  \A s \in Thread : command'[s] = NoCommand
BY DEF TypeOK, OneHolder, Release

\* A commit or an abort leaves the lock free.
LEMMA Freed ==
  ASSUME TypeOK, OneHolder, NEW t \in Thread, Commit(t) \/ Abort(t)
  PROVE  \A s \in Thread : command'[s] = NoCommand
<1>1. command[t] # NoCommand /\ Release(t)
  BY DEF Commit, ChangeRole, Remove, TransferOwnership, Invite, Accept,
         RevokeInvitation, Archive, Abort, Holds
<1>2. QED
  BY <1>1, Released

LEMMA NextOneHolder ==
  ASSUME TypeOK, OneHolder, [Next]_vars
  PROVE  OneHolder'
<1>1. ASSUME NEW t \in Thread, NEW c \in Command, Begin(t, c) PROVE OneHolder'
  BY <1>1 DEF Begin, TenantFree, OneHolder, TypeOK
<1>2. ASSUME NEW t \in Thread, Commit(t) \/ Abort(t) PROVE OneHolder'
  BY <1>2, Freed DEF OneHolder
<1>3. ASSUME NEW u \in User, NEW active \in BOOLEAN, SetAccount(u, active) PROVE OneHolder'
  BY <1>3 DEF SetAccount, OneHolder
<1>4. ASSUME NEW i \in Invitation, Expire(i) PROVE OneHolder'
  BY <1>4 DEF Expire, OneHolder
<1>5. CASE UNCHANGED vars
  BY <1>5 DEF vars, OneHolder
<1>6. QED
  BY <1>1, <1>2, <1>3, <1>4, <1>5 DEF Next

\* A warrant reads the team, the invitations and the organization's status.
LEMMA WarrantKept ==
  ASSUME NEW c, Warranted(c), UNCHANGED <<orgActive, member, role, invitation>>
  PROVE  Warranted(c)'
BY DEF Warranted, ChangeWarranted, RemovalWarranted, TransferWarranted,
       InviteWarranted, AcceptWarranted, RevokeWarranted, AnotherOwner, Owns,
       Manages, MayAssign, Open

\* An invitation that expires after a command was checked takes no warrant away.
LEMMA WarrantOutlivesExpiry ==
  ASSUME TypeOK, NEW c \in Command, Warranted(c), NEW i \in Invitation, Expire(i)
  PROVE  Warranted(c)'
<1>1. invitation[i] \in InvitationRow /\ invitation[i].status = "open"
  BY DEF Expire, TypeOK
<1>2. invitation'[i] = [invitation[i] EXCEPT !.status = "expired"]
  BY DEF Expire, TypeOK
<1>3. /\ invitation'[i] \in InvitationRow
      /\ invitation'[i].status = "expired"
      /\ invitation'[i].inviter = invitation[i].inviter
      /\ invitation'[i].role = invitation[i].role
  BY <1>1, <1>2 DEF InvitationRow, InvitationStatus
<1>4. \A j \in Invitation : j # i => invitation'[j] = invitation[j]
  BY DEF Expire, TypeOK
<1>5. \A j \in Invitation : Open(j) => Open(j)'
  <2>1. invitation'[i] # NoInvitation
    BY <1>3
  <2>2. QED
    BY <1>3, <1>4, <2>1 DEF Open
<1>6. \A j \in Invitation :
         invitation[j] # NoInvitation => /\ invitation'[j].inviter = invitation[j].inviter
                                         /\ invitation'[j].role = invitation[j].role
  BY <1>3, <1>4
<1>7. \A j \in Invitation : invitation[j] = NoInvitation => invitation'[j] = NoInvitation
  BY <1>4 DEF Expire
<1>8. UNCHANGED <<orgActive, account, member, role>>
  BY DEF Expire
<1>9. c.kind \in {"invite", "accept", "revoke"} => c.invitation \in Invitation
  BY CommandFields
<1>10. ChangeWarranted(c)' /\ RemovalWarranted(c)' /\ TransferWarranted(c)'
  BY <1>8 DEF Warranted, ChangeWarranted, RemovalWarranted, TransferWarranted,
              AnotherOwner, Owns, Manages, MayAssign
<1>11. InviteWarranted(c)' /\ RevokeWarranted(c)'
  BY <1>5, <1>7, <1>9 DEF Warranted, InviteWarranted, RevokeWarranted
<1>12. AcceptWarranted(c)'
  BY <1>5, <1>6, <1>8, <1>9 DEF Warranted, AcceptWarranted, Open, Manages, MayAssign
<1>13. QED
  BY <1>8, <1>10, <1>11, <1>12 DEF Warranted

LEMMA NextHeldWarranted ==
  ASSUME TypeOK, OneHolder, HeldWarranted, [Next]_vars
  PROVE  HeldWarranted'
<1>1. ASSUME NEW t \in Thread, NEW c \in Command, Begin(t, c) PROVE HeldWarranted'
  <2>1. Warranted(c)
    BY <1>1, PermittedWarranted DEF Begin
  <2>2. Warranted(c)'
    BY <1>1, <2>1, WarrantKept DEF Begin
  <2>3. \A s \in Thread : command'[s] = NoCommand \/ command'[s] = c
    BY <1>1 DEF Begin, TenantFree, TypeOK
  <2>4. QED
    BY <2>2, <2>3 DEF HeldWarranted
<1>2. ASSUME NEW t \in Thread, Commit(t) \/ Abort(t) PROVE HeldWarranted'
  BY <1>2, Freed DEF HeldWarranted
<1>3. ASSUME NEW u \in User, NEW active \in BOOLEAN, SetAccount(u, active)
      PROVE  HeldWarranted'
  <2>1. \A t \in Thread : command[t] # NoCommand => Warranted(command[t])'
    BY <1>3, WarrantKept DEF SetAccount, HeldWarranted
  <2>2. QED
    BY <1>3, <2>1 DEF SetAccount, HeldWarranted
<1>4. ASSUME NEW i \in Invitation, Expire(i) PROVE HeldWarranted'
  <2>1. ASSUME NEW t \in Thread, command[t] # NoCommand PROVE Warranted(command[t])'
    <3>1. command[t] \in Command /\ Warranted(command[t])
      BY <2>1 DEF TypeOK, HeldWarranted
    <3>2. command' = command
      BY <1>4 DEF Expire
    <3>3. QED
      BY <1>4, <3>1, <3>2, WarrantOutlivesExpiry
  <2>2. QED
    BY <1>4, <2>1 DEF Expire, HeldWarranted
<1>5. CASE UNCHANGED vars
  <2>1. \A t \in Thread : command[t] # NoCommand => Warranted(command[t])'
    BY <1>5, WarrantKept DEF vars, HeldWarranted
  <2>2. QED
    BY <1>5, <2>1 DEF vars, HeldWarranted
<1>6. QED
  BY <1>1, <1>2, <1>3, <1>4, <1>5 DEF Next

-----------------------------------------------------------------------------
(***************************************************************************)
(* An owner is retained.                                                   *)
(***************************************************************************)

LEMMA NextOwnerRetained ==
  ASSUME TypeOK, HeldWarranted, OwnerRetained, [Next]_vars
  PROVE  OwnerRetained'
<1> DEFINE Same == UNCHANGED <<member, role>>
<1>0. Same => OwnerRetained'
  BY DEF OwnerRetained, Owns
<1>1. ASSUME NEW t \in Thread, ChangeRole(t) PROVE OwnerRetained'
  <2> DEFINE c == command[t]
  <2>1. c \in Command /\ c # NoCommand /\ c.kind = "change"
    BY <1>1, HeldCommand DEF ChangeRole
  <2>2. c.user \in User
    BY <2>1, CommandFields
  <2>3. Owns(c.user) /\ c.role # "owner" => AnotherOwner(c.user)
    BY <2>1 DEF HeldWarranted, Warranted, ChangeWarranted
  <2>4. \A v \in User : v # c.user => role'[v] = role[v] /\ member'[v] = member[v]
    BY <1>1, <2>2 DEF ChangeRole, TypeOK
  <2>5. role'[c.user] = c.role /\ member'[c.user] = member[c.user]
    BY <1>1, <2>2 DEF ChangeRole, TypeOK
  <2>6. CASE AnotherOwner(c.user)
    BY <2>4, <2>6 DEF AnotherOwner, OwnerRetained, Owns
  <2>7. CASE ~Owns(c.user)
    BY <2>4, <2>7 DEF OwnerRetained, Owns
  <2>8. CASE Owns(c.user) /\ c.role = "owner"
    BY <2>2, <2>5, <2>8 DEF OwnerRetained, Owns
  <2>9. QED
    BY <2>3, <2>6, <2>7, <2>8
<1>2. ASSUME NEW t \in Thread, Remove(t) PROVE OwnerRetained'
  <2> DEFINE c == command[t]
  <2>1. c \in Command /\ c # NoCommand /\ c.kind = "remove"
    BY <1>2, HeldCommand DEF Remove
  <2>2. c.user \in User
    BY <2>1, CommandFields
  <2>3. Owns(c.user) => AnotherOwner(c.user)
    BY <2>1 DEF HeldWarranted, Warranted, RemovalWarranted
  <2>4. \A v \in User : v # c.user => role'[v] = role[v] /\ member'[v] = member[v]
    BY <1>2, <2>2 DEF Remove, TypeOK
  <2>5. QED
    BY <2>3, <2>4 DEF AnotherOwner, OwnerRetained, Owns
<1>3. ASSUME NEW t \in Thread, TransferOwnership(t) PROVE OwnerRetained'
  <2> DEFINE c == command[t]
  <2>1. c \in Command /\ c # NoCommand /\ c.kind = "transfer"
    BY <1>3, HeldCommand DEF TransferOwnership
  <2>2. c.user \in User /\ c.actor \in User
    BY <2>1, CommandFields
  <2>3. member[c.user] = "active" /\ c.user # c.actor
    BY <2>1 DEF HeldWarranted, Warranted, TransferWarranted
  <2>4. role'[c.user] = "owner" /\ member' = member
    BY <1>3, <2>2, <2>3 DEF TransferOwnership, TypeOK
  <2>5. QED
    BY <2>2, <2>3, <2>4 DEF OwnerRetained, Owns
<1>4. ASSUME NEW t \in Thread, Accept(t) PROVE OwnerRetained'
  <2> DEFINE c == command[t]
  <2>1. c \in Command /\ c # NoCommand /\ c.kind = "accept"
    BY <1>4, HeldCommand DEF Accept
  <2>2. c.actor \in User /\ member[c.actor] # "active"
    BY <2>1, CommandFields DEF HeldWarranted, Warranted, AcceptWarranted
  <2>3. \A v \in User : v # c.actor => role'[v] = role[v] /\ member'[v] = member[v]
    BY <1>4, <2>2 DEF Accept, TypeOK
  <2>4. QED
    BY <2>2, <2>3 DEF OwnerRetained, Owns
<1>5. ASSUME NEW t \in Thread, Invite(t) \/ RevokeInvitation(t) \/ Archive(t) \/ Abort(t)
      PROVE  Same
  BY <1>5 DEF Invite, RevokeInvitation, Archive, Abort
<1>6. ASSUME NEW t \in Thread, NEW c \in Command, Begin(t, c) PROVE Same
  BY <1>6 DEF Begin
<1>7. ASSUME NEW u \in User, NEW active \in BOOLEAN, SetAccount(u, active) PROVE Same
  BY <1>7 DEF SetAccount
<1>8. ASSUME NEW i \in Invitation, Expire(i) PROVE Same
  BY <1>8 DEF Expire
<1>9. CASE UNCHANGED vars
  BY <1>0, <1>9 DEF vars
<1>10. QED
  BY <1>0, <1>1, <1>2, <1>3, <1>4, <1>5, <1>6, <1>7, <1>8, <1>9 DEF Next, Commit

-----------------------------------------------------------------------------
(***************************************************************************)
(* One open invitation per address.                                        *)
(***************************************************************************)

\* Closing or expiring rows opens none: what is open afterwards was open
\* before, for the same address.
NothingOpened ==
    \A i \in Invitation : Open(i)' => Open(i) /\ invitation'[i].email = invitation[i].email

LEMMA OneOpenKept ==
  ASSUME OneOpenInvitation, NothingOpened
  PROVE  OneOpenInvitation'
BY DEF OneOpenInvitation, NothingOpened, Open

\* One row is rewritten with another status.
LEMMA StatusOnly ==
  ASSUME TypeOK, NEW i \in Invitation, NEW s \in InvitationStatus, Open(i),
         invitation' = [invitation EXCEPT ![i].status = s]
  PROVE  NothingOpened
<1>1. invitation[i] \in InvitationRow
  BY DEF TypeOK, Open
<1>2. invitation'[i].email = invitation[i].email
  BY <1>1 DEF TypeOK, InvitationRow
<1>3. \A j \in Invitation : j # i => invitation'[j] = invitation[j]
  BY DEF TypeOK
<1>4. QED
  BY <1>2, <1>3 DEF NothingOpened, Open

LEMMA InviteOneOpen ==
  ASSUME TypeOK, HeldWarranted, OneOpenInvitation, NEW t \in Thread, Invite(t)
  PROVE  OneOpenInvitation'
<1> DEFINE c == command[t]
           new == [status |-> "open", email |-> c.user, role |-> c.role,
                   inviter |-> c.actor]
<1>1. c.user \in User
  BY HeldCommand, CommandFields DEF Invite
<1>2. \A i \in Invitation : i # c.invitation =>
         \/ invitation'[i] = invitation[i] /\ ~Superseded(i, c.user)
         \/ /\ Superseded(i, c.user)
            /\ invitation'[i] = [invitation[i] EXCEPT !.status = "revoked"]
  BY DEF Invite
<1>3. ASSUME NEW i \in Invitation, i # c.invitation, Open(i)'
      PROVE  invitation'[i] = invitation[i] /\ Open(i) /\ invitation[i].email # c.user
  <2>1. CASE Superseded(i, c.user)
    <3>1. invitation[i] \in InvitationRow
      BY <2>1 DEF Superseded, TypeOK
    <3>2. invitation'[i].status = "revoked"
      BY <1>2, <1>3, <2>1, <3>1 DEF InvitationRow
    <3>3. QED
      BY <1>3, <3>2 DEF Open
  <2>2. CASE ~Superseded(i, c.user)
    BY <1>2, <1>3, <2>2 DEF Open, Superseded
  <2>3. QED
    BY <2>1, <2>2
<1>4. c.invitation \in Invitation => invitation'[c.invitation].email = c.user
  BY DEF Invite
<1>5. QED
  <2>1. SUFFICES ASSUME NEW i \in Invitation, NEW j \in Invitation, Open(i)', Open(j)',
                        invitation'[i].email = invitation'[j].email
                 PROVE  i = j
    BY DEF OneOpenInvitation, Open
  <2>2. CASE i # c.invitation /\ j # c.invitation
    BY <1>3, <2>1, <2>2 DEF OneOpenInvitation, Open
  <2>3. CASE i = c.invitation /\ j # c.invitation
    BY <1>3, <1>4, <2>1, <2>3
  <2>4. CASE i # c.invitation /\ j = c.invitation
    BY <1>3, <1>4, <2>1, <2>4
  <2>5. QED
    BY <2>2, <2>3, <2>4

LEMMA NextOneOpen ==
  ASSUME TypeOK, HeldWarranted, OneOpenInvitation, [Next]_vars
  PROVE  OneOpenInvitation'
<1>1. ASSUME NEW t \in Thread, Accept(t) PROVE NothingOpened
  <2>1. /\ command[t].invitation \in Invitation
        /\ Open(command[t].invitation)
    BY <1>1, HeldCommand, CommandFields DEF Accept, HeldWarranted, Warranted, AcceptWarranted
  <2>2. QED
    BY <1>1, <2>1, StatusOnly DEF Accept, InvitationStatus
<1>2. ASSUME NEW t \in Thread, RevokeInvitation(t) PROVE NothingOpened
  <2>1. /\ command[t].invitation \in Invitation
        /\ Open(command[t].invitation)
    BY <1>2, HeldCommand, CommandFields
       DEF RevokeInvitation, HeldWarranted, Warranted, RevokeWarranted
  <2>2. QED
    BY <1>2, <2>1, StatusOnly DEF RevokeInvitation, InvitationStatus
<1>3. ASSUME NEW i \in Invitation, Expire(i) PROVE NothingOpened
  BY <1>3, StatusOnly DEF Expire, InvitationStatus, Open
<1>4. invitation' = invitation => NothingOpened
  BY DEF NothingOpened, Open
<1>5. ASSUME NEW t \in Thread, ChangeRole(t) \/ Remove(t) \/ TransferOwnership(t)
                               \/ Archive(t) \/ Abort(t)
      PROVE  NothingOpened
  BY <1>4, <1>5 DEF ChangeRole, Remove, TransferOwnership, Archive, Abort
<1>6. ASSUME NEW t \in Thread, NEW c \in Command, Begin(t, c) PROVE NothingOpened
  BY <1>4, <1>6 DEF Begin
<1>7. ASSUME NEW u \in User, NEW active \in BOOLEAN, SetAccount(u, active)
      PROVE  NothingOpened
  BY <1>4, <1>7 DEF SetAccount
<1>8. CASE UNCHANGED vars
  BY <1>4, <1>8, OneOpenKept DEF vars
<1>9. QED
  BY <1>1, <1>2, <1>3, <1>5, <1>6, <1>7, <1>8, OneOpenKept, InviteOneOpen DEF Next, Commit

-----------------------------------------------------------------------------
(***************************************************************************)
(* The invariant, and what follows from it.                                *)
(***************************************************************************)

LEMMA InitIInv == Init => IInv
<1> SUFFICES ASSUME Init PROVE IInv
  OBVIOUS
<1>1. OneHolder /\ HeldWarranted /\ OneOpenInvitation
  BY DEF Init, OneHolder, HeldWarranted, OneOpenInvitation
<1>2. OwnerRetained
  BY DEF Init, OwnerRetained, Owns
<1>3. QED
  BY <1>1, <1>2, InitType DEF IInv

\* The tenant lock serializes the team: whoever holds it is alone, and what it
\* was permitted to do is still warranted when it commits.
THEOREM TenantLockHolds == Spec => []IInv
<1>1. IInv /\ [Next]_vars => IInv'
  BY NextType, NextOneHolder, NextHeldWarranted, NextOwnerRetained, NextOneOpen DEF IInv
<1>2. QED
  BY <1>1, InitIInv, PTL DEF Spec

\* Every variable keeps its type, and nobody is invited as an owner.
THEOREM TypeCorrect == Spec => []TypeOK
BY TenantLockHolds, PTL DEF IInv

\* However many owners demote, remove or transfer at once, one is left
\* (change_member_role, remove_member, transfer_ownership).
THEOREM AnOwnerIsRetained == Spec => []OwnerRetained
BY TenantLockHolds, PTL DEF IInv

\* invite_member never runs into the unique index on open invitations.
THEOREM OneOpenInvitationEach == Spec => []OneOpenInvitation
BY TenantLockHolds, PTL DEF IInv

-----------------------------------------------------------------------------
(* Archived organizations and closed invitations                           *)

\* After an archive has committed no command under way touches the team.
THEOREM ArchivedTeamStaysFrozen == Spec => ArchivedTeamFrozen
<1>1. IInv /\ [Next]_vars => [~orgActive => UNCHANGED <<member, role>>]_vars
  <2> SUFFICES ASSUME IInv, Next, ~orgActive PROVE UNCHANGED <<member, role>>
    BY DEF vars
  <2>1. \A t \in Thread : command[t] = NoCommand
    BY DEF IInv, HeldWarranted, Warranted
  <2>2. QED
    BY <2>1 DEF Next, Commit, ChangeRole, Remove, TransferOwnership, Invite, Accept,
                RevokeInvitation, Archive, Abort, Begin, SetAccount, Expire, Holds
<1>2. QED
  BY <1>1, TenantLockHolds, PTL DEF Spec, ArchivedTeamFrozen

Closed(i) ==
    invitation[i] # NoInvitation /\ invitation[i].status \in {"accepted", "revoked"}

\* An accepted or revoked invitation is never used, revoked or reopened.
THEOREM ClosedInvitationsStayClosed == Spec => ClosedStaysClosed
<1>1. IInv /\ [Next]_vars =>
        [\A i \in Invitation : Closed(i) => invitation'[i] = invitation[i]]_vars
  <2> SUFFICES ASSUME IInv, Next, NEW i \in Invitation, Closed(i)
               PROVE  invitation'[i] = invitation[i]
    BY DEF vars
  <2>1. ASSUME NEW t \in Thread, Invite(t) PROVE invitation'[i] = invitation[i]
    <3>1. /\ command[t].kind = "invite"
          /\ invitation[command[t].invitation] = NoInvitation
      BY <2>1, HeldCommand DEF Invite, IInv, HeldWarranted, Warranted, InviteWarranted
    <3>2. i # command[t].invitation /\ ~Superseded(i, command[t].user)
      BY <3>1 DEF Closed, Superseded
    <3>3. QED
      BY <2>1, <3>2 DEF Invite
  <2>2. ASSUME NEW t \in Thread, Accept(t) PROVE invitation'[i] = invitation[i]
    <3>1. Open(command[t].invitation)
      BY <2>2, HeldCommand DEF Accept, IInv, HeldWarranted, Warranted, AcceptWarranted
    <3>2. i # command[t].invitation
      BY <3>1 DEF Closed, Open
    <3>3. QED
      BY <2>2, <3>2 DEF Accept, IInv, TypeOK
  <2>3. ASSUME NEW t \in Thread, RevokeInvitation(t) PROVE invitation'[i] = invitation[i]
    <3>1. Open(command[t].invitation)
      BY <2>3, HeldCommand
         DEF RevokeInvitation, IInv, HeldWarranted, Warranted, RevokeWarranted
    <3>2. i # command[t].invitation
      BY <3>1 DEF Closed, Open
    <3>3. QED
      BY <2>3, <3>2 DEF RevokeInvitation, IInv, TypeOK
  <2>4. ASSUME NEW j \in Invitation, Expire(j) PROVE invitation'[i] = invitation[i]
    BY <2>4 DEF Expire, Closed, IInv, TypeOK
  <2>5. QED
    BY <2>1, <2>2, <2>3, <2>4
       DEF Next, Commit, ChangeRole, Remove, TransferOwnership, Archive, Abort, Begin,
           SetAccount
<1>2. QED
  BY <1>1, TenantLockHolds, PTL DEF Spec, ClosedStaysClosed, Closed

-----------------------------------------------------------------------------
(* Where the power comes from                                              *)

PowerMoved(u) == Rank(u)' # Rank(u)
OwnerCommits(t) ==
    command[t] # NoCommand /\ command'[t] = NoCommand /\ Owns(Authority(command[t]))

LEMMA PowerUnderWarrant ==
  ASSUME IInv, NEW t \in Thread, Commit(t), NEW u \in User, PowerMoved(u)
  PROVE  OwnerCommits(t)
<1> DEFINE c == command[t]
<1> USE DEF IInv
<1>1. command[t] # NoCommand /\ command'[t] = NoCommand
  <2>1. command[t] # NoCommand
    BY DEF Commit, ChangeRole, Remove, TransferOwnership, Invite, Accept,
           RevokeInvitation, Archive, Holds
  <2>2. QED
    BY <2>1, Freed
<1>2. c \in Command /\ Warranted(c)
  BY <1>1 DEF TypeOK, HeldWarranted
<1>3. /\ c.user \in User /\ c.actor \in User
      /\ c.kind \in {"invite", "accept", "revoke"} => c.invitation \in Invitation
      /\ c.kind = "remove" => c.role = "developer"
  BY <1>2, CommandFields
<1>4. CASE ChangeRole(t)
  <2>1. c.kind = "change" /\ ChangeWarranted(c)
    BY <1>2, <1>4 DEF ChangeRole, Holds, Warranted
  <2>2. u = c.user /\ role'[u] = c.role /\ member' = member
    BY <1>3, <1>4 DEF ChangeRole, PowerMoved, Rank, Manages, TypeOK
  <2>3. Owns(c.actor)
    BY <2>1, <2>2 DEF ChangeWarranted, PowerMoved, Rank, Manages, MayAssign, Owns
  <2>4. QED
    BY <1>1, <2>1, <2>3 DEF OwnerCommits, Authority
<1>5. CASE Remove(t)
  <2>1. c.kind = "remove" /\ RemovalWarranted(c)
    BY <1>2, <1>5 DEF Remove, Holds, Warranted
  <2>2. u = c.user /\ Manages(u)
    BY <1>3, <1>5 DEF Remove, PowerMoved, Rank, Manages, TypeOK
  <2>3. Owns(c.actor)
    BY <2>1, <2>2 DEF RemovalWarranted, Manages, MayAssign, Owns
  <2>4. QED
    BY <1>1, <2>1, <2>3 DEF OwnerCommits, Authority
<1>6. CASE TransferOwnership(t)
  <2>1. c.kind = "transfer" /\ TransferWarranted(c)
    BY <1>2, <1>6 DEF TransferOwnership, Holds, Warranted
  <2>2. QED
    BY <1>1, <2>1 DEF TransferWarranted, OwnerCommits, Authority
<1>7. CASE Accept(t)
  <2> DEFINE row == invitation[c.invitation]
  <2>1. c.kind = "accept" /\ AcceptWarranted(c)
    BY <1>2, <1>7 DEF Accept, Holds, Warranted
  <2>2. u = c.actor /\ role'[u] = row.role /\ member[u] # "active"
    BY <1>3, <1>7, <2>1 DEF Accept, PowerMoved, Rank, Manages, AcceptWarranted, TypeOK
  <2>3. row.role \in {"owner", "admin"}
    BY <2>2 DEF PowerMoved, Rank, Manages
  <2>4. Owns(row.inviter)
    BY <2>1, <2>3 DEF AcceptWarranted, Manages, MayAssign, Owns
  <2>5. QED
    BY <1>1, <2>1, <2>4 DEF OwnerCommits, Authority
<1>8. CASE Invite(t) \/ RevokeInvitation(t) \/ Archive(t)
  BY <1>8 DEF Invite, RevokeInvitation, Archive, PowerMoved, Rank, Manages
<1>9. QED
  BY <1>4, <1>5, <1>6, <1>7, <1>8 DEF Commit

\* Owner and admin are given and taken only under the authority of somebody who
\* is an owner when the command commits, invitations included.
THEOREM PowerIsOwners == Spec => PowerComesFromOwners
<1>1. IInv /\ [Next]_vars =>
        [\A u \in User : Rank(u)' # Rank(u) =>
            \E t \in Thread : /\ command[t] # NoCommand
                              /\ command'[t] = NoCommand
                              /\ Owns(Authority(command[t]))]_vars
  <2> SUFFICES ASSUME IInv, Next, NEW u \in User, PowerMoved(u)
               PROVE  \E t \in Thread : OwnerCommits(t)
    BY DEF PowerMoved, OwnerCommits
  <2>1. ~UNCHANGED <<member, role>>
    BY DEF PowerMoved, Rank, Manages
  <2>2. \E t \in Thread : Commit(t)
    BY <2>1 DEF Next, Begin, Abort, SetAccount, Expire
  <2>3. QED
    BY <2>2, PowerUnderWarrant
<1>2. QED
  BY <1>1, TenantLockHolds, PTL DEF Spec, PowerComesFromOwners
-----------------------------------------------------------------------------
(***************************************************************************)
(* Usage aggregation, for every number of runs, events and buckets: types, *)
(* what the two locks of a run keep, that the consistency check never is   *)
(* wrong, and that every step is a step of UsageCounter, which counts an   *)
(* event once.                                                             *)
(***************************************************************************)

HIDE OrganizationsAssumption DEF TeamRoles
USE UsageAssumption, AggregationAssumption

\* The transaction of w still holds what it read: an event nobody has counted,
\* and, with its lock, the row of the bucket.
EventHeld(w) ==
    /\ job[w].stage # "reading" => job[w].event \in events \ receipts
    /\ job[w].stage = "adding" => job[w].read = TotalOf(BucketOf[job[w].event])

\* Two transactions never hold one event or one aggregate.
Apart(v, w) ==
    /\ job[v].stage # "reading" /\ job[w].stage # "reading" =>
         job[v].event # job[w].event
    /\ job[v].stage = "adding" /\ job[w].stage = "adding" =>
         BucketOf[job[v].event] # BucketOf[job[w].event]

UsageInv ==
    /\ UsageTypeOK
    /\ \A w \in Worker : EventHeld(w)
    /\ \A v, w \in Worker : v # w => Apart(v, w)

LEMMA AddedType ==
  ASSUME NEW total \in Total, NEW e \in Event
  PROVE  Added(total, e) \in Total
BY DEF Added, Total

LEMMA TotalOfType == UsageTypeOK => \A b \in Bucket : TotalOf(b) \in Total
BY DEF UsageTypeOK, TotalOf, Total, Nothing

LEMMA InitUsage == UsageInit => UsageInv
<1> SUFFICES ASSUME UsageInit PROVE UsageInv
  OBVIOUS
<1>1. \A w \in Worker : job[w] = NoJob
  BY DEF UsageInit
<1>2. NoJob \in Job /\ NoJob.stage = "reading"
  BY DEF NoJob, Job, Nothing, Total
<1>3. UsageTypeOK
  BY <1>1, <1>2 DEF UsageInit, UsageTypeOK
<1>4. QED
  BY <1>1, <1>2, <1>3 DEF UsageInv, EventHeld, Apart

\* A step that leaves rows, receipts and every transaction alone.
LEMMA UsageQuiet ==
  ASSUME UsageInv, UsageTypeOK', job' = job, aggregate' = aggregate, receipts' = receipts,
         events \subseteq events'
  PROVE  UsageInv'
BY DEF UsageInv, EventHeld, Apart, TotalOf

\* A step of one transaction that changes no row: it has to keep what it holds
\* apart from what the others hold.
LEMMA JobStep ==
  ASSUME UsageInv, UsageTypeOK', NEW w \in Worker,
         UNCHANGED <<events, receipts, aggregate>>,
         \A v \in Worker \ {w} : job'[v] = job[v],
         EventHeld(w)',
         \A v \in Worker \ {w} : Apart(v, w)'
  PROVE  UsageInv'
<1>1. ASSUME NEW v \in Worker \ {w} PROVE EventHeld(v)'
  BY <1>1 DEF UsageInv, EventHeld, TotalOf
<1>2. ASSUME NEW u \in Worker, NEW v \in Worker, u # v PROVE Apart(u, v)'
  <2>1. CASE u = w
    BY <1>2, <2>1 DEF Apart
  <2>2. CASE v = w
    BY <1>2, <2>2
  <2>3. CASE u # w /\ v # w
    BY <1>2, <2>3 DEF UsageInv, Apart
  <2>4. QED
    BY <2>1, <2>2, <2>3
<1>3. QED
  BY <1>1, <1>2 DEF UsageInv

LEMMA RecordEventStep ==
  ASSUME UsageInv, NEW e \in Event, RecordEvent(e)
  PROVE  UsageInv'
<1>1. UsageTypeOK'
  BY DEF UsageInv, UsageTypeOK, RecordEvent, work
<1>2. QED
  BY <1>1, UsageQuiet DEF RecordEvent, work

LEMMA ReadPendingStep ==
  ASSUME UsageInv, NEW w \in Worker, ReadBatch(w)
  PROVE  UsageInv'
<1>1. Oldest(Pending) \subseteq events
  BY DEF Oldest, Pending
<1>2. UsageTypeOK'
  BY <1>1 DEF UsageInv, UsageTypeOK, ReadBatch
<1>3. QED
  BY <1>2, UsageQuiet DEF ReadBatch

LEMMA ClaimEventStep ==
  ASSUME UsageInv, NEW w \in Worker, NEW e \in Event, Claim(w, e)
  PROVE  UsageInv'
<1>1. /\ e \in events
      /\ \A v \in Worker : job[v].stage # "reading" => job[v].event # e
  BY DEF UsageInv, UsageTypeOK, Claim, Unclaimed, HoldsEvent
<1>2. PICK new \in Job : new = [stage |-> "claimed", event |-> e, read |-> Nothing]
  BY DEF Job, Nothing, Total
<1>3. CASE e \notin receipts
  <2>1. job' = [job EXCEPT ![w] = new]
    BY <1>2, <1>3 DEF Claim
  <2>2. /\ job'[w] = new
        /\ \A v \in Worker \ {w} : job'[v] = job[v]
    BY <2>1 DEF UsageInv, UsageTypeOK
  <2>3. new.stage = "claimed" /\ new.event = e
    BY <1>2
  <2>4. UsageTypeOK'
    BY <1>1, <2>1, <2>2, <2>3 DEF UsageInv, UsageTypeOK, Claim
  <2>5. EventHeld(w)'
    BY <1>1, <1>3, <2>2, <2>3 DEF EventHeld, Claim
  <2>6. \A v \in Worker \ {w} : Apart(v, w)'
    BY <1>1, <2>2, <2>3 DEF Apart
  <2>7. QED
    BY <2>2, <2>4, <2>5, <2>6, JobStep DEF Claim
<1>4. CASE e \in receipts
  <2>1. job' = job
    BY <1>4 DEF Claim
  <2>2. UsageTypeOK'
    BY <2>1 DEF UsageInv, UsageTypeOK, Claim
  <2>3. QED
    BY <2>1, <2>2, UsageQuiet DEF Claim
<1>5. QED
  BY <1>3, <1>4

LEMMA LockAggregateStep ==
  ASSUME UsageInv, NEW w \in Worker, LockAggregate(w)
  PROVE  UsageInv'
<1>1. /\ job[w].stage = "claimed" /\ job[w].event \in events /\ job[w].event \in Event
      /\ job[w] \in Job /\ EventHeld(w)
      /\ \A v \in Worker : job[v].stage = "adding" =>
           BucketOf[job[v].event] # BucketOf[job[w].event]
  BY DEF UsageInv, UsageTypeOK, LockAggregate, AggregateFree, HoldsAggregate
<1>2. PICK now \in Total : now = TotalOf(BucketOf[job[w].event])
  BY <1>1, TotalOfType DEF UsageInv
<1>3. GetOrCreate(BucketOf[job[w].event]) = now
  BY <1>2 DEF GetOrCreate, TotalOf
<1>4. job' = [job EXCEPT ![w].stage = "adding", ![w].read = now]
  BY <1>3 DEF LockAggregate
<1>5. /\ job'[w].stage = "adding" /\ job'[w].event = job[w].event /\ job'[w].read = now
      /\ job'[w] \in Job
      /\ \A v \in Worker \ {w} : job'[v] = job[v]
  BY <1>1, <1>2, <1>4 DEF UsageInv, UsageTypeOK, Job
<1>6. UsageTypeOK'
  BY <1>1, <1>4, <1>5 DEF UsageInv, UsageTypeOK, LockAggregate
<1>7. EventHeld(w)'
  BY <1>1, <1>2, <1>5 DEF EventHeld, LockAggregate, TotalOf
<1>8. ASSUME NEW v \in Worker \ {w} PROVE Apart(v, w)'
  BY <1>1, <1>5 DEF UsageInv, Apart
<1>9. QED
  BY <1>5, <1>6, <1>7, <1>8, JobStep DEF LockAggregate

\* What CommitEvent does, seen from the rows: one uncounted event is added to the
\* total its bucket has now.
LEMMA CommitCounts ==
  ASSUME UsageInv, NEW w \in Worker, CommitEvent(w)
  PROVE  /\ job[w].event \in events \ receipts
         /\ job[w].event \in Event
         /\ receipts' = receipts \cup {job[w].event}
         /\ aggregate' = [aggregate EXCEPT ![BucketOf[job[w].event]] =
                            Added(TotalOf(BucketOf[job[w].event]), job[w].event)]
         /\ Added(TotalOf(BucketOf[job[w].event]), job[w].event) \in Total
         /\ events' = events
<1>1. EventHeld(w) /\ job[w].stage = "adding"
  BY DEF UsageInv, CommitEvent
<1>2. job[w].event \in events \ receipts /\ job[w].event \in Event
  BY <1>1 DEF EventHeld, UsageInv, UsageTypeOK
<1>3. TotalOf(BucketOf[job[w].event]) \in Total
  BY <1>2, TotalOfType DEF UsageInv
<1>4. QED
  BY <1>1, <1>2, <1>3, AddedType DEF EventHeld, CommitEvent

LEMMA CommitStep ==
  ASSUME UsageInv, NEW w \in Worker, CommitEvent(w)
  PROVE  UsageInv'
<1>1. PICK e \in Event : e = job[w].event
  BY CommitCounts
<1>2. PICK total \in Total : total = Added(TotalOf(BucketOf[e]), e)
  BY <1>1, CommitCounts
<1>3. /\ e \in events /\ events' = events /\ receipts' = receipts \cup {e}
      /\ aggregate' = [aggregate EXCEPT ![BucketOf[e]] = total]
  BY <1>1, <1>2, CommitCounts
<1>4. /\ job'[w] = NoJob /\ NoJob \in Job /\ NoJob.stage = "reading"
      /\ \A v \in Worker \ {w} : job'[v] = job[v]
      /\ job' \in [Worker -> Job]
  BY DEF CommitEvent, UsageInv, UsageTypeOK, NoJob, Job, Nothing, Total
<1>5. UsageTypeOK'
  <2>1. /\ events' \subseteq Event /\ receipts' \subseteq events'
        /\ todo' = todo /\ crashes' = crashes
    BY <1>3 DEF UsageInv, UsageTypeOK, CommitEvent
  <2>2. aggregate' \in [Bucket -> Total \cup {NoRow}]
    BY <1>3 DEF UsageInv, UsageTypeOK
  <2>3. \A v \in Worker : job'[v].stage # "reading" => job'[v].event \in events'
    BY <1>3, <1>4 DEF UsageInv, UsageTypeOK
  <2>4. QED
    BY <1>3, <1>4, <2>1, <2>2, <2>3 DEF UsageInv, UsageTypeOK
<1>6. ASSUME NEW v \in Worker \ {w} PROVE EventHeld(v)'
  <2>1. EventHeld(v) /\ Apart(v, w) /\ job[w].stage = "adding" /\ job'[v] = job[v]
    BY <1>4 DEF UsageInv, CommitEvent
  <2>2. job[v].stage # "reading" => job[v].event \in events' \ receipts'
    BY <1>1, <1>3, <2>1 DEF EventHeld, Apart
  <2>3. ASSUME job[v].stage = "adding"
        PROVE  aggregate'[BucketOf[job[v].event]] = aggregate[BucketOf[job[v].event]]
    BY <1>1, <1>3, <2>1, <2>3 DEF Apart, EventHeld, UsageInv, UsageTypeOK
  <2>4. QED
    BY <2>1, <2>2, <2>3 DEF EventHeld, TotalOf
<1>7. EventHeld(w)'
  BY <1>4 DEF EventHeld
<1>8. ASSUME NEW u \in Worker, NEW v \in Worker, u # v PROVE Apart(u, v)'
  BY <1>4, <1>8 DEF UsageInv, Apart
<1>9. QED
  BY <1>5, <1>6, <1>7, <1>8 DEF UsageInv

LEMMA AbortStep ==
  ASSUME UsageInv, NEW w \in Worker, LoseRun(w)
  PROVE  UsageInv'
<1>1. /\ job'[w] = NoJob /\ NoJob \in Job /\ NoJob.stage = "reading"
      /\ \A v \in Worker \ {w} : job'[v] = job[v]
      /\ job' \in [Worker -> Job]
  BY DEF LoseRun, UsageInv, UsageTypeOK, NoJob, Job, Nothing, Total
<1>2. UsageTypeOK'
  BY <1>1 DEF UsageInv, UsageTypeOK, LoseRun
<1>3. EventHeld(w)' /\ \A v \in Worker \ {w} : Apart(v, w)'
  BY <1>1 DEF EventHeld, Apart
<1>4. QED
  BY <1>1, <1>2, <1>3, JobStep DEF LoseRun

LEMMA StepUsage == UsageInv /\ [UsageNext]_usageVars => UsageInv'
<1> SUFFICES ASSUME UsageInv, [UsageNext]_usageVars PROVE UsageInv'
  OBVIOUS
<1>1. ASSUME NEW e \in Event, RecordEvent(e) PROVE UsageInv'
  BY <1>1, RecordEventStep
<1>2. ASSUME NEW w \in Worker, Step(w) \/ LoseRun(w) PROVE UsageInv'
  BY <1>2, ReadPendingStep, ClaimEventStep, LockAggregateStep, CommitStep, AbortStep DEF Step
<1>3. CASE StartCheck \/ FinishCheck \/ UNCHANGED usageVars
  <2>1. UNCHANGED <<events, receipts, aggregate, todo, job, crashes>>
    BY <1>3 DEF StartCheck, FinishCheck, usageVars, work
  <2>2. QED
    BY <2>1, UsageQuiet DEF UsageInv, UsageTypeOK
<1>4. QED
  BY <1>1, <1>2, <1>3 DEF UsageNext

\* A run that has locked an event and its aggregate commits from what is still
\* the truth, however many other runs there are.
THEOREM RunsStayApart == UsageSpec => []UsageInv
BY InitUsage, StepUsage, PTL DEF UsageSpec

\* Types, for every number of runs, events and buckets.
THEOREM UsageTypeCorrect == UsageSpec => []UsageTypeOK
<1>1. UsageInv => UsageTypeOK
  BY DEF UsageInv
<1>2. QED
  BY <1>1, RunsStayApart, PTL

-----------------------------------------------------------------------------
(***************************************************************************)
(* The sums of the consistency check.                                      *)
(***************************************************************************)

\* What the two queries of the check would find now.
Matching ==
    /\ IsFiniteSet(receipts)
    /\ IsFiniteSet(Rows(aggregate))
    /\ SumOfRows(aggregate) = SumOfFacts(receipts)

\* The sum the check has formed is that of the facts of its own snapshot.
CheckHeld ==
    /\ summed # NoRow => summed = SumOfFacts(snapshot.receipts)
    /\ NoFalseAlarm

LEMMA InitMatching == UsageInit => Matching /\ CheckHeld
<1> SUFFICES ASSUME UsageInit PROVE Matching /\ CheckHeld
  OBVIOUS
<1>1. Rows(aggregate) = {} /\ receipts = {}
  BY DEF UsageInit, Rows
<1>2. IsFiniteSet({}) /\ Cardinality({}) = 0
  BY FS_EmptySet
<1>3. \A f : DOMAIN f = {} => SumFunction(f) = 0
  BY SumEmpty, Zenon DEF SumFunction
<1>4. /\ SumFunction([b \in {} |-> aggregate[b].requests]) = 0
      /\ SumFunction([b \in {} |-> aggregate[b].units]) = 0
      /\ SumFunction([e \in {} |-> Units[e]]) = 0
  BY <1>3
<1>5. SumOfRows(aggregate) = <<0, 0>>
  BY <1>1, <1>4, Zenon DEF SumOfRows
<1>6. SumOfFacts(receipts) = <<0, 0>>
  BY <1>1, <1>2, <1>4, Zenon DEF SumOfFacts
<1>7. Matching
  BY <1>1, <1>2, <1>5, <1>6 DEF Matching
<1>8. QED
  BY <1>7 DEF UsageInit, CheckHeld, NoFalseAlarm

\* A commit moves both sides by one request and by the units of its event.
LEMMA CommitMatching ==
  ASSUME UsageInv, Matching, NEW w \in Worker, CommitEvent(w)
  PROVE  Matching'
<1>1. PICK e \in Event : e = job[w].event
  BY CommitCounts
<1>2. PICK b \in Bucket : b = BucketOf[e]
  BY <1>1
<1>3. PICK old \in Total : old = TotalOf(b)
  BY TotalOfType DEF UsageInv
<1>4. PICK new \in Total : new = Added(old, e)
  BY AddedType
<1>5. /\ e \notin receipts /\ receipts' = receipts \cup {e}
      /\ aggregate' = [aggregate EXCEPT ![b] = new]
  BY <1>1, <1>2, <1>3, <1>4, CommitCounts
<1>6. /\ new.requests = old.requests + 1 /\ new.units = old.units + Units[e]
      /\ old.requests \in Nat /\ old.units \in Nat /\ Units[e] \in Nat
      /\ new.requests \in Nat /\ new.units \in Nat
  BY <1>4 DEF Added, Total
<1>7. /\ aggregate'[b] = new /\ new # NoRow
      /\ \A c \in Bucket \ {b} : aggregate'[c] = aggregate[c]
      /\ \A c \in Rows(aggregate) : aggregate[c] \in Total
      /\ IF b \in Rows(aggregate) THEN old = aggregate[b] ELSE old = Nothing
  BY <1>3, <1>5 DEF UsageInv, UsageTypeOK, Rows, TotalOf
<1>8. /\ \A c \in Rows(aggregate)' : aggregate'[c] \in Total
      /\ \A c \in Rows(aggregate) \ {b} : c \in Bucket /\ aggregate'[c] = aggregate[c]
  BY <1>7 DEF Rows
<1> DEFINE Requests == [c \in Rows(aggregate) |-> aggregate[c].requests]
           Weights == [c \in Rows(aggregate) |-> aggregate[c].units]
<1>9. /\ Rows(aggregate') = Rows(aggregate) \cup {b}
      /\ IsFiniteSet(Rows(aggregate)) /\ IsFiniteSet(Rows(aggregate'))
  <2>1. Rows(aggregate') = Rows(aggregate) \cup {b}
    BY <1>7 DEF Rows
  <2>2. QED
    BY <2>1, FS_AddElement DEF Matching
<1>10. SumFunction(Requests') = SumFunction(Requests) + 1
  <2>1. /\ DOMAIN Requests = Rows(aggregate) /\ DOMAIN Requests' = Rows(aggregate) \cup {b}
        /\ \A c \in Rows(aggregate) : Requests[c] \in Nat
        /\ \A c \in Rows(aggregate) \ {b} : Requests'[c] = Requests[c]
    BY <1>7, <1>8, <1>9 DEF Total, Rows
  <2>2. /\ new.requests = Requests'[b]
        /\ old.requests = IF b \in Rows(aggregate) THEN Requests[b] ELSE 0
    BY <1>7, <1>9 DEF Rows, Nothing
  <2> HIDE DEF Requests
  <2>3. PICK f, g : f = Requests /\ g = Requests'
    OBVIOUS
  <2>4. PICK now \in Nat, was \in Nat : now = new.requests /\ was = old.requests
    BY <1>6
  <2>5. SumFunction(f) \in Int /\ SumFunction(g) = SumFunction(f) + (now - was)
    <3>1. /\ IsFiniteSet(DOMAIN f) /\ DOMAIN g = DOMAIN f \cup {b}
          /\ \A c \in DOMAIN f : f[c] \in Nat
          /\ \A c \in DOMAIN f \ {b} : g[c] = f[c]
          /\ now = g[b]
          /\ was = IF b \in DOMAIN f THEN f[b] ELSE 0
      BY <1>9, <2>1, <2>2, <2>3, <2>4
    <3>2. QED
      BY <3>1, SumPut
  <2>6. QED
    BY <1>6, <2>3, <2>4, <2>5
<1>11. SumFunction(Weights') = SumFunction(Weights) + Units[e]
  <2>1. /\ DOMAIN Weights = Rows(aggregate) /\ DOMAIN Weights' = Rows(aggregate) \cup {b}
        /\ \A c \in Rows(aggregate) : Weights[c] \in Nat
        /\ \A c \in Rows(aggregate) \ {b} : Weights'[c] = Weights[c]
    BY <1>7, <1>8, <1>9 DEF Total, Rows
  <2>2. /\ new.units = Weights'[b]
        /\ old.units = IF b \in Rows(aggregate) THEN Weights[b] ELSE 0
    BY <1>7, <1>9 DEF Rows, Nothing
  <2> HIDE DEF Weights
  <2>3. PICK f, g : f = Weights /\ g = Weights'
    OBVIOUS
  <2>4. PICK now \in Nat, was \in Nat : now = new.units /\ was = old.units
    BY <1>6
  <2>5. SumFunction(f) \in Int /\ SumFunction(g) = SumFunction(f) + (now - was)
    <3>1. /\ IsFiniteSet(DOMAIN f) /\ DOMAIN g = DOMAIN f \cup {b}
          /\ \A c \in DOMAIN f : f[c] \in Nat
          /\ \A c \in DOMAIN f \ {b} : g[c] = f[c]
          /\ now = g[b]
          /\ was = IF b \in DOMAIN f THEN f[b] ELSE 0
      BY <1>9, <2>1, <2>2, <2>3, <2>4
    <3>2. QED
      BY <3>1, SumPut
  <2>6. QED
    BY <1>6, <2>3, <2>4, <2>5
<1> DEFINE Facts == [f \in receipts |-> Units[f]]
<1>12. SumFunction(Facts') = SumFunction(Facts) + Units[e]
  <2>1. DOMAIN Facts = receipts /\ DOMAIN Facts' = receipts \cup {e}
    BY <1>5
  <2>2. \A f \in receipts : Facts[f] \in Int /\ Facts'[f] = Facts[f]
    BY <1>5 DEF UsageInv, UsageTypeOK
  <2>3. Facts'[e] = Units[e] /\ Facts'[e] \in Int
    BY <1>5, <1>6
  <2> HIDE DEF Facts
  <2>4. QED
    BY <1>5, <2>1, <2>2, <2>3, SumExtended DEF Matching
<1>13. IsFiniteSet(receipts') /\ Cardinality(receipts') = Cardinality(receipts) + 1
  BY <1>5, FS_AddElement DEF Matching
<1>14. SumFunction(Requests) = Cardinality(receipts) /\ SumFunction(Weights) = SumFunction(Facts)
  BY DEF Matching, SumOfRows, SumOfFacts
<1> HIDE DEF Requests, Weights, Facts
<1>15. /\ SumFunction(Requests') = Cardinality(receipts')
       /\ SumFunction(Weights') = SumFunction(Facts')
  BY <1>10, <1>11, <1>12, <1>13, <1>14
<1>16. QED
  BY <1>9, <1>13, <1>15 DEF Matching, SumOfRows, SumOfFacts, Requests, Weights, Facts

\* reconcile_usage never reports a mismatch, however many runs commit while it
\* looks: the aggregates match the receipts in every state, so in its snapshot.
THEOREM CheckIsTruthful == UsageSpec => []NoFalseAlarm
<1>1. UsageInv /\ Matching /\ CheckHeld /\ [UsageNext]_usageVars => Matching' /\ CheckHeld'
  <2> SUFFICES ASSUME UsageInv, Matching, CheckHeld, [UsageNext]_usageVars PROVE Matching' /\ CheckHeld'
    OBVIOUS
  <2>1. CASE StartCheck
    BY <2>1 DEF StartCheck, Matching, CheckHeld, NoFalseAlarm
  <2>2. CASE FinishCheck
    BY <2>2 DEF FinishCheck, FactsSeen, Matching, CheckHeld, NoFalseAlarm
  <2>3. ASSUME NEW w \in Worker, CommitEvent(w) PROVE Matching' /\ CheckHeld'
    BY <2>3, CommitMatching DEF CommitEvent, check, CheckHeld, NoFalseAlarm
  <2>4. CASE UNCHANGED <<receipts, aggregate, check>>
    BY <2>4 DEF Matching, check, CheckHeld, NoFalseAlarm
  <2>5. QED
    BY <2>1, <2>2, <2>3, <2>4
    DEF UsageNext, Step, RecordEvent, ReadBatch, Claim, LockAggregate, LoseRun, usageVars
<1>2. CheckHeld => NoFalseAlarm
  BY DEF CheckHeld
<1>3. QED
  BY <1>1, <1>2, InitMatching, RunsStayApart, PTL DEF UsageSpec

-----------------------------------------------------------------------------
(***************************************************************************)
(* The refinement.                                                         *)
(***************************************************************************)

LEMMA InitCounts == UsageInit => Counter!Init
BY DEF UsageInit, Counter!Init, TotalOf, Nothing, Counter!Nothing

LEMMA CommitIsCount ==
  ASSUME UsageInv, NEW w \in Worker, CommitEvent(w)
  PROVE  \E e \in Event : Counter!Count(e)
<1>1. PICK e \in Event : e = job[w].event
  BY CommitCounts
<1>2. PICK b \in Bucket : b = BucketOf[e]
  BY <1>1
<1>3. PICK total \in Total : total = Added(TotalOf(b), e)
  BY <1>1, <1>2, CommitCounts
<1>4. /\ e \in events \ receipts /\ events' = events /\ receipts' = receipts \cup {e}
      /\ aggregate' = [aggregate EXCEPT ![b] = total]
  BY <1>1, <1>2, <1>3, CommitCounts
<1>5. aggregate \in [Bucket -> Total \cup {NoRow}]
  BY DEF UsageInv, UsageTypeOK
<1>6. total # NoRow
  BY <1>3
<1>7. \A c \in Bucket : TotalOf(c)' = IF c = b THEN total ELSE TotalOf(c)
  BY <1>4, <1>5, <1>6 DEF TotalOf
<1>8. [c \in Bucket |-> TotalOf(c)]' =
        [[c \in Bucket |-> TotalOf(c)] EXCEPT ![BucketOf[e]] = total]
  BY <1>2, <1>7
<1>9. total = Counter!Added([c \in Bucket |-> TotalOf(c)][BucketOf[e]], e)
  BY <1>2, <1>3 DEF Added, Counter!Added
<1>10. Counter!Count(e)
  BY <1>4, <1>8, <1>9 DEF Counter!Count
<1>11. QED
  BY <1>10

LEMMA StepCounts == UsageInv /\ [UsageNext]_usageVars => [Counter!Next]_(Counter!vars)
<1> SUFFICES ASSUME UsageInv, [UsageNext]_usageVars PROVE [Counter!Next]_(Counter!vars)
  OBVIOUS
<1>1. CASE UNCHANGED <<events, receipts, aggregate>>
  BY <1>1 DEF Counter!vars, TotalOf
<1>2. ASSUME NEW e \in Event, RecordEvent(e) PROVE Counter!Record(e)
  BY <1>2 DEF RecordEvent, Counter!Record, TotalOf
<1>3. CASE \E e \in Event : RecordEvent(e)
  BY <1>2, <1>3 DEF Counter!Next
<1>4. CASE \E w \in Worker : CommitEvent(w)
  BY <1>4, CommitIsCount DEF Counter!Next
<1>5. CASE (\E w \in Worker : Step(w) \/ LoseRun(w)) /\ ~\E w \in Worker : CommitEvent(w)
  BY <1>5, <1>1 DEF Step, ReadBatch, Claim, LockAggregate, LoseRun
<1>6. CASE StartCheck \/ FinishCheck \/ UNCHANGED usageVars
  BY <1>6, <1>1 DEF StartCheck, FinishCheck, usageVars
<1>7. QED
  BY <1>3, <1>4, <1>5, <1>6 DEF UsageNext

\* aggregate_event: for every number of runs that overlap and die, each event
\* is added to the total of its bucket at most once, together with its receipt.
\* (CountsOnce without its fairness.)
THEOREM CountedAtMostOnce == UsageSpec => Counter!Spec
<1>1. UsageInv /\ [UsageNext]_usageVars => [Counter!Next]_(Counter!vars)
  BY StepCounts
<1>2. QED
  BY <1>1, InitCounts, RunsStayApart, PTL DEF UsageSpec, Counter!Spec
=============================================================================
