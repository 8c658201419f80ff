------------------------------ MODULE Resources ------------------------------
(***************************************************************************)
(* What an organization owns: its projects, their services, the scopes and *)
(* credentials of a service, and the policies with their revisions.        *)
(*                                                                         *)
(* Every command is one transaction that locks the organization, checks    *)
(* what it read under that lock, and then writes one row, with the record  *)
(* of its Idempotency-Key when it creates.  Begin is the lock and the      *)
(* checks, Commit the writes, Abort any error after the lock.  A command   *)
(* that is refused changes nothing and is not a step.                      *)
(*                                                                         *)
(* A policy is edited in two requests: a client loads it, and sends its    *)
(* edit later with the version it loaded.                                  *)
(*                                                                         *)
(* The members who may give each command are the subject of Organizations. *)
(***************************************************************************)
EXTENDS Integers, Sequences, FiniteSets

CONSTANTS
    Client,       \* requests in flight, each with the client that sent it
    Org,          \* the organization
    Project, Service, Policy,
    Permission,   \* scopes of a service
    Credential,   \* API keys and integration credentials of a service
    Name,         \* names and slugs
    Config,       \* policy parameters that validate_policy_config accepts
    Key,          \* an actor and the Idempotency-Key it sends
    MaxActive,    \* active policies of a kind of environment; 64 in the code
    MaxVersion,   \* bound: versions of a policy
    NoRow, NoTarget, NoCommand, Idle

Kind == {"test", "live"}
CredentialKind == {"key", "integration"}
Resource == {Org} \union Project \union Service \union Policy \union Permission \union Credential
Target == {NoTarget} \union Project \union Service
Environment == Project \X Kind

OrgRow == [active : BOOLEAN]
ProjectRow == [name : Name, slug : Name, archived : BOOLEAN]
ServiceRow == [environment : Environment, slug : Name, active : BOOLEAN]
PolicyRow == [kind : Kind, target : Target, config : Config,
              active : BOOLEAN, version : 1..MaxVersion]
ChildRow == [service : Service, name : Name, active : BOOLEAN]
Row == OrgRow \union ProjectRow \union ServiceRow \union PolicyRow \union ChildRow

Scope ==
    {<<"project", Org>>, <<"policy", Org>>}
        \union ({"service"} \X Project \X Kind)
        \union (({"permission"} \union CredentialKind) \X Service)
Command == Scope \X Key
Values == (Name \X Name) \union {<<n>> : n \in Name} \union (Kind \X Target \X Config)
Answer == [values : Values, resource : Resource]

ASSUME ResourcesAssumption ==
    /\ MaxActive \in Nat \ {0}
    /\ MaxVersion \in Nat \ {0}
    /\ NoRow \notin Row
    /\ NoTarget \notin Project \union Service
    /\ NoCommand \notin Command \union Answer
    /\ IsFiniteSet(Policy)
    /\ Org \notin Project \union Service \union Policy \union Permission \union Credential
    /\ Project \cap Service = {}
    /\ Permission \cap Credential = {}
    /\ Policy \cap (Project \union Service) = {}
    /\ (Permission \union Credential) \cap (Project \union Service \union Policy) = {}

VARIABLES
    row,         \* row[r]: the committed row of resource r, or NoRow
    revisions,   \* revisions[p]: the PolicyRevision snapshots of policy p
    record,      \* record[c]: the IdempotencyRecord of a scope and a key
    seen,        \* seen[c]: the policy client c loaded, and its row then
    work,        \* work[c]: what the transaction of client c is about to write
    answers      \* history: commands that were answered, and with what

vars == <<row, revisions, record, seen, work, answers>>

Exists(r) == row[r] # NoRow

(* get_project, get_environment and get_service with active=True.  No       *)
(* command changes Environment.is_active.                                   *)
ProjectOpen(p) ==
    row[Org].active /\ Exists(p) /\ ~row[p].archived

ServiceProject(s) == row[s].environment[1]

\* (_Own: as if set_service_status did not read the parents.)
ParentsOpen_Own(s) == Exists(s)
ParentsOpen(s) == Exists(s) /\ ProjectOpen(ServiceProject(s))

ServiceOpen(s) == ParentsOpen(s) /\ row[s].active

(* A policy may be bound to an open service of its kind, to an open         *)
(* project, or to the whole organization.                                   *)
TargetOpen(x, kind) ==
    \/ x = NoTarget
    \/ x \in Project /\ ProjectOpen(x)
    \/ x \in Service /\ ServiceOpen(x) /\ row[x].environment[2] = kind

Active(kind) ==
    {p \in Policy : Exists(p) /\ row[p].kind = kind /\ row[p].active}

PolicyRoom(kind) == Cardinality(Active(kind)) < MaxActive

SlugFree(r, slug) == \A q \in r : Exists(q) => row[q].slug # slug

-----------------------------------------------------------------------------
Init ==
    /\ row = [r \in Resource |-> IF r = Org THEN [active |-> TRUE] ELSE NoRow]
    /\ revisions = [p \in Policy |-> <<>>]
    /\ record = [c \in Command |-> NoCommand]
    /\ seen = [c \in Client |-> Idle]
    /\ work = [c \in Client |-> Idle]
    /\ answers = {}

(* select_for_update on the organization, held until the transaction ends.  *)
\* (_Unlocked: as if a command read its organization without lock=True.)
OrgFree_Unlocked(c) == TRUE
OrgFree(c) == \A d \in Client : work[d] = Idle

Begin(c, r, new, command, values) ==
    /\ work[c] = Idle
    /\ OrgFree(c)
    /\ work' = [work EXCEPT ![c] =
                  [resource |-> r, row |-> new, command |-> command, values |-> values]]
    /\ UNCHANGED <<row, revisions, record, seen, answers>>

Edit(c, r, new) == Begin(c, r, new, NoCommand, NoCommand)

\* (_Ignored: as if request_hash were not compared.)
SameInput_Ignored(command, values) == TRUE
SameInput(command, values) == record[command].values = values

(* creation_command: a key that was used answers with what it created, if   *)
(* the input is the same; otherwise the creation goes on.                   *)
Create(c, r, new, command, values, allowed) ==
    \/ /\ record[command] = NoCommand
       /\ ~Exists(r)
       /\ allowed
       /\ Begin(c, r, new, command, values)
    \/ /\ record[command] # NoCommand
       /\ SameInput(command, values)
       /\ r = record[command].resource
       /\ Begin(c, r, row[r], command, values)

CreateProject(c, p, name, slug, key) ==
    /\ row[Org].active
    /\ Create(c, p, [name |-> name, slug |-> slug, archived |-> FALSE],
              <<<<"project", Org>>, key>>, <<name, slug>>, SlugFree(Project, slug))

UpdateProject(c, p, name) ==
    /\ ProjectOpen(p)
    /\ Edit(c, p, [row[p] EXCEPT !.name = name])

ArchiveProject(c, p) ==
    /\ Exists(p)
    /\ Edit(c, p, [row[p] EXCEPT !.archived = TRUE])

Siblings(e) == {s \in Service : Exists(s) /\ row[s].environment = e}

CreateService(c, s, e, slug, key) ==
    /\ ProjectOpen(e[1])
    /\ Create(c, s, [environment |-> e, slug |-> slug, active |-> TRUE],
              <<<<"service", e[1], e[2]>>, key>>, <<slug>>, SlugFree(Siblings(e), slug))

SetServiceStatus(c, s, active) ==
    /\ ParentsOpen(s)
    /\ Edit(c, s, [row[s] EXCEPT !.active = active])

CreatePermission(c, x, s, name, key) ==
    /\ ServiceOpen(s)
    /\ Create(c, x, [service |-> s, name |-> name, active |-> TRUE],
              <<<<"permission", s>>, key>>, <<name>>,
              \A y \in Permission : Exists(y) => row[y].service # s \/ row[y].name # name)

SetPermissionStatus(c, x, active) ==
    /\ Exists(x)
    /\ Edit(c, x, [row[x] EXCEPT !.active = active])

IssueCredential(c, d, s, kind, name, key) ==
    /\ ServiceOpen(s)
    /\ Create(c, d, [service |-> s, name |-> name, active |-> TRUE],
              <<<<kind, s>>, key>>, <<name>>, TRUE)

RevokeCredential(c, d) ==
    /\ Exists(d)
    /\ Edit(c, d, [row[d] EXCEPT !.active = FALSE])

CreatePolicy(c, p, kind, x, config, key) ==
    /\ row[Org].active
    /\ TargetOpen(x, kind)
    /\ Create(c, p, [kind |-> kind, target |-> x, config |-> config,
                     active |-> TRUE, version |-> 1],
              <<<<"policy", Org>>, key>>, <<kind, x, config>>, PolicyRoom(kind))

LoadPolicy(c, p) ==
    /\ work[c] = Idle
    /\ Exists(p)
    /\ seen' = [seen EXCEPT ![c] = [policy |-> p, row |-> row[p]]]
    /\ UNCHANGED <<row, revisions, record, work, answers>>

\* (_Unchecked: as if expected_version were not compared.)
Current_Unchecked(c, p) == TRUE
Current(c, p) == seen[c].row.version = row[p].version

(* The edit also stands in an archived organization.  MaxVersion bounds the *)
(* edits of a policy.                                                       *)
UpdatePolicy(c, config, active) ==
    /\ seen[c] # Idle
    /\ LET p == seen[c].policy IN
       /\ Current(c, p)
       /\ active /\ ~row[p].active => PolicyRoom(row[p].kind)
       /\ row[p].version < MaxVersion
       /\ Edit(c, p, [row[p] EXCEPT !.config = config, !.active = active, !.version = @ + 1])

ArchiveOrganization(c) ==
    Edit(c, Org, [active |-> FALSE])

-----------------------------------------------------------------------------
(* _revision: a created or edited policy leaves a snapshot.                 *)
Snapshots(r, new) ==
    IF r \in Policy /\ row[r] # new
    THEN [revisions EXCEPT ![r] = Append(@, new)]
    ELSE revisions

Remembered(w) ==
    IF w.command = NoCommand THEN record
    ELSE [record EXCEPT ![w.command] = [values |-> w.values, resource |-> w.resource]]

Commit(c) ==
    /\ work[c] # Idle
    /\ LET w == work[c] IN
       /\ row' = [row EXCEPT ![w.resource] = w.row]
       /\ revisions' = Snapshots(w.resource, w.row)
       /\ record' = Remembered(w)
       /\ answers' = IF w.command = NoCommand THEN answers
                     ELSE answers \union {<<w.command, w.values, w.resource>>}
    /\ work' = [work EXCEPT ![c] = Idle]
    /\ UNCHANGED seen

Abort(c) ==
    /\ work[c] # Idle
    /\ work' = [work EXCEPT ![c] = Idle]
    /\ UNCHANGED <<row, revisions, record, seen, answers>>

ProjectCommand(c) ==
    \/ \E p \in Project, name, slug \in Name, key \in Key : CreateProject(c, p, name, slug, key)
    \/ \E p \in Project, name \in Name : UpdateProject(c, p, name)
    \/ \E p \in Project : ArchiveProject(c, p)
    \/ ArchiveOrganization(c)

ServiceCommand(c) ==
    \/ \E s \in Service, e \in Environment, slug \in Name, key \in Key :
          CreateService(c, s, e, slug, key)
    \/ \E s \in Service, active \in BOOLEAN : SetServiceStatus(c, s, active)
    \/ \E x \in Permission, s \in Service, name \in Name, key \in Key :
          CreatePermission(c, x, s, name, key)
    \/ \E x \in Permission, active \in BOOLEAN : SetPermissionStatus(c, x, active)
    \/ \E d \in Credential, s \in Service, kind \in CredentialKind, name \in Name, key \in Key :
          IssueCredential(c, d, s, kind, name, key)
    \/ \E d \in Credential : RevokeCredential(c, d)

PolicyCommand(c) ==
    \/ \E p \in Policy, kind \in Kind, x \in Target, config \in Config, key \in Key :
          CreatePolicy(c, p, kind, x, config, key)
    \/ \E p \in Policy : LoadPolicy(c, p)
    \/ \E config \in Config, active \in BOOLEAN : UpdatePolicy(c, config, active)

Next ==
    \E c \in Client :
        \/ ProjectCommand(c) \/ ServiceCommand(c) \/ PolicyCommand(c)
        \/ Commit(c) \/ Abort(c)

Spec == Init /\ [][Next]_vars

-----------------------------------------------------------------------------
(* A resource has a row of its own table, or none; what is remembered, seen *)
(* and about to be written has the type of its columns.                     *)
Table(r) ==
    IF r = Org THEN OrgRow
    ELSE IF r \in Project THEN ProjectRow
    ELSE IF r \in Service THEN ServiceRow
    ELSE IF r \in Policy THEN PolicyRow ELSE ChildRow
Seen == [policy : Policy, row : PolicyRow]
Write == [resource : Resource, row : Row \union {NoRow},
          command : Command \union {NoCommand}, values : Values \union {NoCommand}]

TypeOK ==
    /\ row \in [Resource -> Row \union {NoRow}]
    /\ \A r \in Resource : Exists(r) => row[r] \in Table(r)
    /\ Exists(Org)
    /\ revisions \in [Policy -> Seq(PolicyRow)]
    /\ record \in [Command -> Answer \union {NoCommand}]
    /\ seen \in [Client -> Seen \union {Idle}]
    /\ work \in [Client -> Write \union {Idle}]
    /\ answers \subseteq (Command \X Values \X Resource)

(* Whatever requests run at the same time, no kind of environment has more *)
(* active policies than a decision is bounded to resolve: create_policy     *)
(* and the reactivation in update_policy each count before they write.      *)
ActiveWithinLimit ==
    \A kind \in Kind : Cardinality(Active(kind)) <= MaxActive

(* An Idempotency-Key names one resource and one input for ever: however    *)
(* often and with whatever the key is sent again, no two answers differ.    *)
OneResourcePerKey ==
    \A a, b \in answers : a[1] = b[1] => a = b

(* The revisions of a policy are numbered without a gap, and the last one   *)
(* is the row that decisions are enforced with: _revision.                  *)
RevisionsRecordRow ==
    \A p \in Policy :
        /\ \A n \in 1..Len(revisions[p]) : revisions[p][n].version = n
        /\ Exists(p) <=> revisions[p] # <<>>
        /\ Exists(p) => revisions[p][Len(revisions[p])] = row[p]

(* An edit of a policy replaces exactly the row its client had loaded, so   *)
(* no edit silently undoes another: update_policy and expected_version.     *)
EditsBuildOnSeen ==
    [][\A p \in Policy :
          Exists(p) /\ row'[p] # row[p] =>
              \E c \in Client : /\ work[c] # Idle /\ work'[c] = Idle
                                /\ seen[c] = [policy |-> p, row |-> row[p]]]_vars

(* The four changes that do not ask whether the parents are open:           *)
(* archive_project, set_permission_status, revoke_* and update_policy.      *)
Archival(old, new) == new = [old EXCEPT !.archived = TRUE]
Switch(old, new) == new = [old EXCEPT !.active = new.active]
Revocation(old, new) == new = [old EXCEPT !.active = FALSE]
Revision(old, new) ==
    new = [old EXCEPT !.config = new.config, !.active = new.active, !.version = @ + 1]

(* Under a parent that is archived or disabled when the change commits, not *)
(* only when it was checked, nothing is created, no project renamed and no  *)
(* service switched.  What still changes there is what the code lets change *)
(* there: a project is archived, a permission switched, a credential        *)
(* revoked, a policy revised.                                               *)
NothingNewUnderArchived ==
    [][/\ \A p \in Project : row'[p] # row[p] =>
             IF Exists(p) THEN ProjectOpen(p) \/ Archival(row[p], row'[p])
                          ELSE row[Org].active
       /\ \A s \in Service : row'[s] # row[s] => ProjectOpen(row'[s].environment[1])
       /\ \A x \in Permission : row'[x] # row[x] =>
             IF Exists(x) THEN Switch(row[x], row'[x]) ELSE ServiceOpen(row'[x].service)
       /\ \A d \in Credential : row'[d] # row[d] =>
             IF Exists(d) THEN Revocation(row[d], row'[d]) ELSE ServiceOpen(row'[d].service)
       /\ \A p \in Policy : row'[p] # row[p] =>
             IF Exists(p) THEN Revision(row[p], row'[p])
             ELSE row[Org].active /\ TargetOpen(row'[p].target, row'[p].kind)]_vars

=============================================================================
