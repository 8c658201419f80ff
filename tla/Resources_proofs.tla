-------------------------- MODULE Resources_proofs --------------------------
(***************************************************************************)
(* Proofs about Resources for every set of clients, resources and keys:    *)
(* what a command has checked still holds when it writes, because the lock *)
(* of the organization lets nobody else write in between.                  *)
(***************************************************************************)
EXTENDS Resources, FiniteSetTheorems, TLAPS

(***************************************************************************)
(* The inductive invariant.                                                *)
(***************************************************************************)
ProjectWarranted(p, new) ==
    IF Exists(p) THEN ProjectOpen(p) \/ Archival(row[p], new) ELSE row[Org].active

ServiceWarranted(new) == ProjectOpen(new.environment[1])

ChildWarranted(d, new) ==
    IF Exists(d) THEN /\ d \in Permission => Switch(row[d], new)
                      /\ d \in Credential => Revocation(row[d], new)
    ELSE ServiceOpen(new.service)

Creation(p, new) ==
    ~Exists(p) => /\ row[Org].active
                  /\ TargetOpen(new.target, new.kind)
                  /\ new.version = 1

EditOfSeen(c, p, new) ==
    Exists(p) => /\ new.kind = row[p].kind
                 /\ new.version = row[p].version + 1
                 /\ Revision(row[p], new)
                 /\ seen[c] = [policy |-> p, row |-> row[p]]

RoomFor(p, new) ==
    new.active => \/ Exists(p) /\ row[p].active
                  \/ PolicyRoom(new.kind)

Warranted(c, r, new) ==
    /\ new \in Table(r)
    /\ r \in Project => ProjectWarranted(r, new)
    /\ r \in Service => ServiceWarranted(new)
    /\ r \in Permission \union Credential => ChildWarranted(r, new)
    /\ r \in Policy => Creation(r, new) /\ EditOfSeen(c, r, new) /\ RoomFor(r, new)

\* The record of a command is free, or already says what would be written.
Agrees(command, values, r) ==
    command # NoCommand =>
        /\ command \in Command
        /\ values \in Values
        /\ \/ record[command] = NoCommand
           \/ record[command] = [values |-> values, resource |-> r]

OneHolder ==
    \A c, d \in Client : work[c] # Idle /\ work[d] # Idle => c = d

WritesWarranted ==
    \A c \in Client : work[c] # Idle =>
        /\ \/ work[c].row = row[work[c].resource]
           \/ Warranted(c, work[c].resource, work[c].row)
        /\ Agrees(work[c].command, work[c].values, work[c].resource)

AnswersRecorded ==
    \A a \in answers : record[a[1]] = [values |-> a[2], resource |-> a[3]]

\* A version that was loaded is the present row, or an earlier version.
SeenOrOlder(s) ==
    /\ Exists(s.policy)
    /\ s.row.version <= row[s.policy].version
    /\ s.row.version = row[s.policy].version => s.row = row[s.policy]

SeenPast == \A c \in Client : seen[c] # Idle => SeenOrOlder(seen[c])

IInv ==
    /\ TypeOK
    /\ OneHolder
    /\ WritesWarranted
    /\ AnswersRecorded
    /\ SeenPast
    /\ ActiveWithinLimit
    /\ RevisionsRecordRow

-----------------------------------------------------------------------------
(***************************************************************************)
(* Tables and commands                                                     *)
(***************************************************************************)

\* A row of a table is a row.
LEMMA TableRows ==
  ASSUME NEW r \in Resource
  PROVE  Table(r) \subseteq Row
BY DEF Table, Row, Resource

\* The tables of the resources, one by one: no resource is in two of them.
LEMMA TableOf ==
  /\ Table(Org) = OrgRow
  /\ \A p \in Project : Table(p) = ProjectRow
  /\ \A s \in Service : Table(s) = ServiceRow
  /\ \A p \in Policy : Table(p) = PolicyRow
  /\ \A d \in Permission \union Credential : Table(d) = ChildRow
BY ResourcesAssumption DEF Table

LEMMA Resources ==
  /\ Org \in Resource
  /\ Project \subseteq Resource /\ Service \subseteq Resource /\ Policy \subseteq Resource
  /\ Permission \subseteq Resource /\ Credential \subseteq Resource
BY DEF Resource

\* The commands that create have their scopes, and their inputs are values.
LEMMA Commands ==
  ASSUME NEW key \in Key
  PROVE  /\ <<<<"project", Org>>, key>> \in Command
         /\ <<<<"policy", Org>>, key>> \in Command
         /\ \A e \in Environment : <<<<"service", e[1], e[2]>>, key>> \in Command
         /\ \A kind \in {"permission"} \union CredentialKind, s \in Service :
               <<<<kind, s>>, key>> \in Command
<1>1. <<"project", Org>> \in Scope /\ <<"policy", Org>> \in Scope
  BY DEF Scope
<1>2. \A e \in Environment : <<"service", e[1], e[2]>> \in Scope
  BY DEF Scope, Environment
<1>3. \A kind \in {"permission"} \union CredentialKind, s \in Service : <<kind, s>> \in Scope
  BY DEF Scope
<1> QED
  BY <1>1, <1>2, <1>3 DEF Command

LEMMA Inputs ==
  /\ \A n, m \in Name : <<n, m>> \in Values
  /\ \A n \in Name : <<n>> \in Values
  /\ \A kind \in Kind, x \in Target, c \in Config : <<kind, x, c>> \in Values
BY DEF Values

-----------------------------------------------------------------------------
(***************************************************************************)
(* The first half of a command: the lock and the checks                    *)
(***************************************************************************)

\* What a command may take into its transaction.
Sound(c, r, new, command, values) ==
    /\ c \in Client
    /\ r \in Resource
    /\ new \in Row \union {NoRow}
    /\ values \in Values \union {NoCommand}
    /\ command \in Command \union {NoCommand}
    /\ new = row[r] \/ Warranted(c, r, new)
    /\ Agrees(command, values, r)

\* The lock was free, so the command that takes it is the only one.
LEMMA BeginStep ==
  ASSUME IInv,
         NEW c, NEW r, NEW new, NEW command, NEW values,
         Sound(c, r, new, command, values),
         Begin(c, r, new, command, values)
  PROVE  IInv'
<1> DEFINE w == [resource |-> r, row |-> new, command |-> command, values |-> values]
<1>1. /\ c \in Client /\ w \in Write
      /\ w.resource = r /\ w.row = new /\ w.command = command /\ w.values = values
  BY DEF Sound, Write
<1>2. work' = [work EXCEPT ![c] = w] /\ UNCHANGED <<row, revisions, record, seen, answers>>
  BY DEF Begin
<1> HIDE DEF w
<1>3. work \in [Client -> Write \union {Idle}]
  BY DEF IInv, TypeOK
<1>4. /\ work' \in [Client -> Write \union {Idle}]
      /\ work'[c] = w
      /\ \A d \in Client \ {c} : work'[d] = work[d]
  BY <1>1, <1>2, <1>3
<1>5. \A d \in Client : work[d] = Idle
  BY DEF Begin, OrgFree
<1>6. TypeOK'
  BY <1>2, <1>4 DEF IInv, TypeOK, Exists
<1>7. OneHolder'
  BY <1>4, <1>5 DEF OneHolder
<1>8. /\ Warranted(c, r, new)' <=> Warranted(c, r, new)
      /\ Agrees(command, values, r)' <=> Agrees(command, values, r)
  BY <1>2 DEF Warranted, Agrees, ProjectWarranted, ServiceWarranted, ChildWarranted,
              Creation, EditOfSeen, RoomFor, PolicyRoom, Active, TargetOpen, ServiceOpen,
              ParentsOpen, ServiceProject, ProjectOpen, Exists
<1>10. WritesWarranted'
  <2> SUFFICES ASSUME NEW d \in Client, (work[d] # Idle)'
               PROVE  (/\ \/ work[d].row = row[work[d].resource]
                          \/ Warranted(d, work[d].resource, work[d].row)
                       /\ Agrees(work[d].command, work[d].values, work[d].resource))'
    BY DEF WritesWarranted
  <2>1. d = c
    BY <1>4, <1>5
  <2>2. (new = row[r] \/ Warranted(c, r, new))'
    BY <1>2, <1>8 DEF Sound
  <2>3. Agrees(command, values, r)'
    BY <1>8 DEF Sound
  <2> QED
    BY <1>1, <1>4, <2>1, <2>2, <2>3
<1>9. AnswersRecorded' /\ SeenPast' /\ ActiveWithinLimit' /\ RevisionsRecordRow'
  BY <1>2 DEF IInv, AnswersRecorded, SeenPast, SeenOrOlder, ActiveWithinLimit, Active,
              RevisionsRecordRow, Exists
<1> QED
  BY <1>6, <1>7, <1>9, <1>10 DEF IInv

\* An edit remembers nothing.
LEMMA EditStep ==
  ASSUME IInv,
         NEW c \in Client, NEW r \in Resource, NEW new,
         Warranted(c, r, new),
         Edit(c, r, new)
  PROVE  IInv'
<1>1. new \in Row
  BY TableRows DEF Warranted
<1>2. Sound(c, r, new, NoCommand, NoCommand)
  BY <1>1 DEF Sound, Agrees
<1> QED
  BY <1>2, BeginStep DEF Edit

\* A creation is warranted, or answers with what the record names.
LEMMA CreateStep ==
  ASSUME IInv,
         NEW c \in Client, NEW r \in Resource, NEW new,
         NEW command \in Command, NEW values \in Values, NEW allowed,
         ~Exists(r) /\ allowed => Warranted(c, r, new),
         Create(c, r, new, command, values, allowed)
  PROVE  IInv'
<1>1. CASE /\ record[command] = NoCommand
           /\ ~Exists(r)
           /\ allowed
           /\ Begin(c, r, new, command, values)
  <2>1. new \in Row
    BY <1>1, TableRows DEF Warranted
  <2>2. Sound(c, r, new, command, values)
    BY <1>1, <2>1 DEF Sound, Agrees
  <2> QED
    BY <1>1, <2>2, BeginStep
<1>2. CASE /\ record[command] # NoCommand
           /\ SameInput(command, values)
           /\ r = record[command].resource
           /\ Begin(c, r, row[r], command, values)
  <2>1. row[r] \in Row \union {NoRow}
    BY DEF IInv, TypeOK
  <2>2. record[command] \in Answer
    BY <1>2 DEF IInv, TypeOK
  <2>3. record[command] = [values |-> values, resource |-> r]
    BY <1>2, <2>2 DEF Answer, SameInput
  <2>4. Sound(c, r, row[r], command, values)
    BY <2>1, <2>3 DEF Sound, Agrees
  <2> QED
    BY <1>2, <2>4, BeginStep
<1> QED
  BY <1>1, <1>2 DEF Create

-----------------------------------------------------------------------------
(***************************************************************************)
(* Every command takes only what it may                                    *)
(***************************************************************************)

\* The rows a command reads have the columns of their tables.
LEMMA RowTypes ==
  ASSUME IInv
  PROVE  /\ \A p \in Project : Exists(p) => row[p] \in ProjectRow
         /\ \A s \in Service : Exists(s) => row[s] \in ServiceRow
         /\ \A p \in Policy : Exists(p) => row[p] \in PolicyRow
         /\ \A d \in Permission \union Credential : Exists(d) => row[d] \in ChildRow
BY TableOf, Resources DEF IInv, TypeOK

LEMMA ProjectCommands ==
  ASSUME IInv, NEW c \in Client, ProjectCommand(c)
  PROVE  IInv'
<1>1. ASSUME NEW p \in Project, NEW name \in Name, NEW slug \in Name, NEW key \in Key,
             CreateProject(c, p, name, slug, key)
      PROVE  IInv'
  <2> DEFINE new == [name |-> name, slug |-> slug, archived |-> FALSE]
  <2>1. new \in ProjectRow
    BY DEF ProjectRow
  <2>2. row[Org].active
    BY <1>1 DEF CreateProject
  <2>3. ~Exists(p) => Warranted(c, p, new)
    BY <2>1, <2>2, TableOf, ResourcesAssumption DEF Warranted, ProjectWarranted
  <2>4. Create(c, p, new, <<<<"project", Org>>, key>>, <<name, slug>>, SlugFree(Project, slug))
    BY <1>1 DEF CreateProject
  <2>5. <<<<"project", Org>>, key>> \in Command /\ <<name, slug>> \in Values /\ p \in Resource
    BY Commands, Inputs, Resources
  <2> HIDE DEF new
  <2> QED
    BY <2>3, <2>4, <2>5, CreateStep
<1>2. ASSUME NEW p \in Project, NEW name \in Name, UpdateProject(c, p, name)
      PROVE  IInv'
  <2>1. row[p] \in ProjectRow /\ ProjectOpen(p)
    BY <1>2, RowTypes DEF UpdateProject, ProjectOpen
  <2>2. [row[p] EXCEPT !.name = name] \in ProjectRow
    BY <2>1 DEF ProjectRow
  <2>3. Warranted(c, p, [row[p] EXCEPT !.name = name])
    BY <2>1, <2>2, TableOf, ResourcesAssumption DEF Warranted, ProjectWarranted, ProjectOpen
  <2> QED
    BY <1>2, <2>3, EditStep, Resources DEF UpdateProject
<1>3. ASSUME NEW p \in Project, ArchiveProject(c, p)
      PROVE  IInv'
  <2>1. row[p] \in ProjectRow /\ Exists(p)
    BY <1>3, RowTypes DEF ArchiveProject
  <2>2. [row[p] EXCEPT !.archived = TRUE] \in ProjectRow
    BY <2>1 DEF ProjectRow
  <2>3. Warranted(c, p, [row[p] EXCEPT !.archived = TRUE])
    BY <2>1, <2>2, TableOf, ResourcesAssumption DEF Warranted, ProjectWarranted, Archival
  <2> QED
    BY <1>3, <2>3, EditStep, Resources DEF ArchiveProject
<1>4. ASSUME ArchiveOrganization(c)
      PROVE  IInv'
  <2>1. [active |-> FALSE] \in OrgRow
    BY DEF OrgRow
  <2>2. Warranted(c, Org, [active |-> FALSE])
    BY <2>1, TableOf, ResourcesAssumption DEF Warranted
  <2> QED
    BY <1>4, <2>2, EditStep, Resources DEF ArchiveOrganization
<1> QED
  BY <1>1, <1>2, <1>3, <1>4 DEF ProjectCommand

LEMMA ServiceCommands ==
  ASSUME IInv, NEW c \in Client, ServiceCommand(c)
  PROVE  IInv'
<1>1. ASSUME NEW s \in Service, NEW e \in Environment, NEW slug \in Name, NEW key \in Key,
             CreateService(c, s, e, slug, key)
      PROVE  IInv'
  <2> DEFINE new == [environment |-> e, slug |-> slug, active |-> TRUE]
  <2>1. new \in ServiceRow /\ new.environment = e
    BY DEF ServiceRow
  <2>2. ProjectOpen(e[1])
    BY <1>1 DEF CreateService
  <2>3. ~Exists(s) => Warranted(c, s, new)
    BY <2>1, <2>2, TableOf, ResourcesAssumption DEF Warranted, ServiceWarranted
  <2>4. Create(c, s, new, <<<<"service", e[1], e[2]>>, key>>, <<slug>>, SlugFree(Siblings(e), slug))
    BY <1>1 DEF CreateService
  <2>5. <<<<"service", e[1], e[2]>>, key>> \in Command /\ <<slug>> \in Values /\ s \in Resource
    BY Commands, Inputs, Resources
  <2> HIDE DEF new
  <2> QED
    BY <2>3, <2>4, <2>5, CreateStep
<1>2. ASSUME NEW s \in Service, NEW active \in BOOLEAN, SetServiceStatus(c, s, active)
      PROVE  IInv'
  <2>1. row[s] \in ServiceRow /\ ProjectOpen(row[s].environment[1])
    BY <1>2, RowTypes DEF SetServiceStatus, ParentsOpen, ServiceProject
  <2>2. /\ [row[s] EXCEPT !.active = active] \in ServiceRow
        /\ [row[s] EXCEPT !.active = active].environment = row[s].environment
    BY <2>1 DEF ServiceRow
  <2>3. Warranted(c, s, [row[s] EXCEPT !.active = active])
    BY <2>1, <2>2, TableOf, ResourcesAssumption DEF Warranted, ServiceWarranted
  <2> QED
    BY <1>2, <2>3, EditStep, Resources DEF SetServiceStatus
<1>3. ASSUME NEW x \in Permission \union Credential, NEW s \in Service, NEW name \in Name,
             ServiceOpen(s)
      PROVE  /\ ~Exists(x) => Warranted(c, x, [service |-> s, name |-> name, active |-> TRUE])
             /\ <<name>> \in Values /\ x \in Resource
  <2>1. /\ [service |-> s, name |-> name, active |-> TRUE] \in ChildRow
        /\ [service |-> s, name |-> name, active |-> TRUE].service = s
    BY DEF ChildRow
  <2> QED
    BY <1>3, <2>1, TableOf, ResourcesAssumption, Inputs, Resources DEF Warranted, ChildWarranted
<1>4. ASSUME NEW x \in Permission, NEW s \in Service, NEW name \in Name, NEW key \in Key,
             CreatePermission(c, x, s, name, key)
      PROVE  IInv'
  <2>1. <<<<"permission", s>>, key>> \in Command
    BY Commands
  <2>2. ServiceOpen(s)
    BY <1>4 DEF CreatePermission
  <2> QED
    BY <1>3, <1>4, <2>1, <2>2, CreateStep DEF CreatePermission
<1>5. ASSUME NEW d \in Credential, NEW s \in Service, NEW kind \in CredentialKind,
             NEW name \in Name, NEW key \in Key,
             IssueCredential(c, d, s, kind, name, key)
      PROVE  IInv'
  <2>1. <<<<kind, s>>, key>> \in Command
    BY Commands
  <2>2. ServiceOpen(s)
    BY <1>5 DEF IssueCredential
  <2> QED
    BY <1>3, <1>5, <2>1, <2>2, CreateStep DEF IssueCredential
<1>6. ASSUME NEW x \in Permission \union Credential, NEW active \in BOOLEAN, Exists(x),
             x \in Credential => active = FALSE
      PROVE  Warranted(c, x, [row[x] EXCEPT !.active = active])
  <2>1. /\ [row[x] EXCEPT !.active = active] \in ChildRow
        /\ [row[x] EXCEPT !.active = active].active = active
    BY <1>6, RowTypes DEF ChildRow
  <2>2. Switch(row[x], [row[x] EXCEPT !.active = active])
    BY <2>1 DEF Switch
  <2>3. active = FALSE => Revocation(row[x], [row[x] EXCEPT !.active = active])
    BY DEF Revocation
  <2> QED
    BY <1>6, <2>1, <2>2, <2>3, TableOf, ResourcesAssumption DEF Warranted, ChildWarranted
<1>7. ASSUME NEW x \in Permission, NEW active \in BOOLEAN, SetPermissionStatus(c, x, active)
      PROVE  IInv'
  <2>1. x \notin Credential
    BY <1>7, ResourcesAssumption
  <2> QED
    BY <1>6, <1>7, <2>1, EditStep, Resources DEF SetPermissionStatus
<1>8. ASSUME NEW d \in Credential, RevokeCredential(c, d)
      PROVE  IInv'
  BY <1>6, <1>8, EditStep, Resources DEF RevokeCredential
<1> QED
  BY <1>1, <1>2, <1>4, <1>5, <1>7, <1>8 DEF ServiceCommand

LEMMA PolicyCommands ==
  ASSUME IInv, NEW c \in Client, PolicyCommand(c)
  PROVE  IInv'
<1>1. ASSUME NEW p \in Policy, NEW kind \in Kind, NEW x \in Target, NEW config \in Config,
             NEW key \in Key, CreatePolicy(c, p, kind, x, config, key)
      PROVE  IInv'
  <2> DEFINE new == [kind |-> kind, target |-> x, config |-> config, active |-> TRUE,
                     version |-> 1]
  <2>1. new \in PolicyRow /\ new.kind = kind /\ new.target = x /\ new.version = 1
    BY ResourcesAssumption DEF PolicyRow
  <2>2. row[Org].active /\ TargetOpen(x, kind)
    BY <1>1 DEF CreatePolicy
  <2>3. ~Exists(p) /\ PolicyRoom(kind) => Warranted(c, p, new)
    BY <2>1, <2>2, TableOf, ResourcesAssumption
       DEF Warranted, Creation, EditOfSeen, RoomFor
  <2>4. Create(c, p, new, <<<<"policy", Org>>, key>>, <<kind, x, config>>, PolicyRoom(kind))
    BY <1>1 DEF CreatePolicy
  <2>5. <<<<"policy", Org>>, key>> \in Command /\ <<kind, x, config>> \in Values /\ p \in Resource
    BY Commands, Inputs, Resources
  <2> HIDE DEF new
  <2> QED
    BY <2>3, <2>4, <2>5, CreateStep
<1>2. ASSUME NEW p \in Policy, LoadPolicy(c, p)
      PROVE  IInv'
  <2> DEFINE s == [policy |-> p, row |-> row[p]]
  <2>1. Exists(p) /\ row[p] \in PolicyRow
    BY <1>2, RowTypes DEF LoadPolicy
  <2>2. s \in Seen /\ s.policy = p /\ s.row = row[p]
    BY <2>1 DEF Seen
  <2>3. seen' = [seen EXCEPT ![c] = s] /\ UNCHANGED <<row, revisions, record, work, answers>>
    BY <1>2 DEF LoadPolicy
  <2> HIDE DEF s
  <2>4. seen \in [Client -> Seen \union {Idle}]
    BY DEF IInv, TypeOK
  <2>5. /\ seen' \in [Client -> Seen \union {Idle}]
        /\ seen'[c] = s
        /\ \A d \in Client \ {c} : seen'[d] = seen[d]
    BY <2>2, <2>3, <2>4
  <2>6. TypeOK'
    BY <2>3, <2>5 DEF IInv, TypeOK, Exists
  <2>7. SeenPast'
    <3>1. row[p].version \in Nat
      BY <2>1, ResourcesAssumption DEF PolicyRow
    <3>2. ASSUME NEW d \in Client, (seen[d] # Idle)'
          PROVE  SeenOrOlder(seen[d])'
      <4>1. CASE d = c
        BY <2>1, <2>2, <2>3, <2>5, <3>1, <4>1 DEF SeenOrOlder, Exists
      <4>2. CASE d # c
        BY <2>3, <2>5, <3>2, <4>2 DEF IInv, SeenPast, SeenOrOlder, Exists
      <4> QED
        BY <4>1, <4>2
    <3> QED
      BY <3>2 DEF SeenPast
  <2>8. WritesWarranted'
    <3> SUFFICES ASSUME NEW d \in Client, (work[d] # Idle)'
                 PROVE  (/\ \/ work[d].row = row[work[d].resource]
                            \/ Warranted(d, work[d].resource, work[d].row)
                         /\ Agrees(work[d].command, work[d].values, work[d].resource))'
      BY DEF WritesWarranted
    <3>1. d # c /\ work[d] # Idle
      BY <1>2, <2>3 DEF LoadPolicy
    <3>2. seen'[d] = seen[d]
      BY <2>5, <3>1
    <3>3. ASSUME NEW r, NEW new
          PROVE  Warranted(d, r, new)' <=> Warranted(d, r, new)
      BY <2>3, <3>2 DEF Warranted, ProjectWarranted, ServiceWarranted, ChildWarranted,
                  Creation, EditOfSeen, RoomFor, PolicyRoom, Active, TargetOpen,
                  ServiceOpen, ParentsOpen, ServiceProject, ProjectOpen, Exists
    <3> QED
      BY <2>3, <3>1, <3>3 DEF IInv, WritesWarranted, Agrees
  <2>9. OneHolder' /\ AnswersRecorded' /\ ActiveWithinLimit' /\ RevisionsRecordRow'
    BY <2>3 DEF IInv, OneHolder, AnswersRecorded, ActiveWithinLimit, Active,
                RevisionsRecordRow, Exists
  <2> QED
    BY <2>6, <2>7, <2>8, <2>9 DEF IInv
<1>3. ASSUME NEW config \in Config, NEW active \in BOOLEAN, UpdatePolicy(c, config, active)
      PROVE  IInv'
  <2> DEFINE p == seen[c].policy
             old == row[p]
             new == [old EXCEPT !.config = config, !.active = active, !.version = @ + 1]
  <2>1. seen[c] \in Seen /\ SeenOrOlder(seen[c])
    BY <1>3 DEF UpdatePolicy, IInv, TypeOK, SeenPast
  <2>2. p \in Policy /\ Exists(p) /\ old \in PolicyRow
    BY <2>1, RowTypes DEF Seen, SeenOrOlder
  <2>3. seen[c].row = old
    BY <1>3, <2>1 DEF UpdatePolicy, Current, SeenOrOlder
  <2>4. seen[c] = [policy |-> p, row |-> old]
    BY <2>1, <2>3 DEF Seen
  <2>5. old.version \in Nat /\ old.version < MaxVersion
    BY <1>3, <2>2, ResourcesAssumption DEF UpdatePolicy, PolicyRow
  <2>6. new \in PolicyRow
    <3>1. old.version + 1 \in 1..MaxVersion
      BY <2>5, ResourcesAssumption
    <3> QED
      BY <2>2, <3>1 DEF PolicyRow
  <2>7. new.kind = old.kind /\ new.version = old.version + 1 /\ new.active = active
    BY <2>2 DEF PolicyRow
  <2>8. Revision(old, new)
    <3>1. new.config = config
      BY <2>2 DEF PolicyRow
    <3> QED
      BY <2>7, <3>1 DEF Revision
  <2>9. active /\ ~old.active => PolicyRoom(old.kind)
    BY <1>3 DEF UpdatePolicy
  <2>10. Edit(c, p, new)
    BY <1>3 DEF UpdatePolicy
  <2> HIDE DEF new
  <2>11. Creation(p, new) /\ EditOfSeen(c, p, new) /\ RoomFor(p, new)
    BY <2>2, <2>4, <2>7, <2>8, <2>9 DEF Creation, EditOfSeen, RoomFor
  <2> HIDE DEF p
  <2>12. Warranted(c, p, new)
    BY <2>2, <2>6, <2>11, TableOf, ResourcesAssumption DEF Warranted
  <2> QED
    BY <2>2, <2>10, <2>12, EditStep, Resources
<1> QED
  BY <1>1, <1>2, <1>3 DEF PolicyCommand

-----------------------------------------------------------------------------
(***************************************************************************)
(* The second half: the write                                              *)
(***************************************************************************)

\* What the one holder writes, by name.
LEMMA CommitFacts ==
  ASSUME IInv, NEW c \in Client, Commit(c)
  PROVE  /\ work[c] \in Write
         /\ row' = [row EXCEPT ![work[c].resource] = work[c].row]
         /\ \/ work[c].row = row[work[c].resource]
            \/ Warranted(c, work[c].resource, work[c].row)
         /\ Agrees(work[c].command, work[c].values, work[c].resource)
         /\ record' = Remembered(work[c])
         /\ revisions' = Snapshots(work[c].resource, work[c].row)
         /\ answers' = IF work[c].command = NoCommand THEN answers
                       ELSE answers \union {<<work[c].command, work[c].values, work[c].resource>>}
         /\ \A d \in Client : work'[d] = Idle
         /\ work' \in [Client -> Write \union {Idle}]
         /\ seen' = seen
BY DEF IInv, TypeOK, OneHolder, WritesWarranted, Commit

\* A row that is written is of its table, and a row that exists stays.
LEMMA CommitRows ==
  ASSUME IInv, NEW c \in Client, Commit(c)
  PROVE  /\ row' \in [Resource -> Row \union {NoRow}]
         /\ \A r \in Resource : Exists(r)' => row'[r] \in Table(r)
         /\ \A r \in Resource : Exists(r) => Exists(r)'
         /\ \A r \in Resource : row'[r] # row[r] =>
               /\ r = work[c].resource
               /\ row'[r] = work[c].row
               /\ Warranted(c, r, row'[r])
               /\ Exists(r)'
<1> DEFINE w == work[c]
<1>1. /\ w \in Write
      /\ row' = [row EXCEPT ![w.resource] = w.row]
      /\ w.row = row[w.resource] \/ Warranted(c, w.resource, w.row)
  BY CommitFacts
<1>2. w.resource \in Resource /\ w.row \in Row \union {NoRow}
  BY <1>1 DEF Write
<1> HIDE DEF w
<1>3. /\ row \in [Resource -> Row \union {NoRow}]
      /\ \A r \in Resource : Exists(r) => row[r] \in Table(r)
  BY DEF IInv, TypeOK
<1>4. Warranted(c, w.resource, w.row) => w.row \in Table(w.resource) /\ w.row # NoRow
  BY <1>2, TableRows, ResourcesAssumption DEF Warranted
<1>5. /\ row' \in [Resource -> Row \union {NoRow}]
      /\ row'[w.resource] = w.row
      /\ \A r \in Resource : r # w.resource => row'[r] = row[r]
  BY <1>1, <1>2, <1>3
<1>6. \A r \in Resource : Exists(r)' => row'[r] \in Table(r)
  BY <1>1, <1>2, <1>3, <1>4, <1>5 DEF Exists
<1>7. \A r \in Resource : Exists(r) => Exists(r)'
  BY <1>1, <1>2, <1>3, <1>4, <1>5 DEF Exists
<1>8. \A r \in Resource : row'[r] # row[r] =>
          r = w.resource /\ row'[r] = w.row /\ Warranted(c, r, row'[r]) /\ Exists(r)'
  BY <1>1, <1>2, <1>4, <1>5 DEF Exists
<1> QED
  BY <1>5, <1>6, <1>7, <1>8 DEF w

\* No answer is taken back.
LEMMA CommitAnswers ==
  ASSUME IInv, NEW c \in Client, Commit(c)
  PROVE  /\ record' \in [Command -> Answer \union {NoCommand}]
         /\ answers' \subseteq (Command \X Values \X Resource)
         /\ AnswersRecorded'
<1> DEFINE w == work[c]
           m == [values |-> w.values, resource |-> w.resource]
<1>1. /\ w.resource \in Resource
      /\ Agrees(w.command, w.values, w.resource)
      /\ record' = Remembered(w)
      /\ answers' = IF w.command = NoCommand THEN answers
                    ELSE answers \union {<<w.command, w.values, w.resource>>}
  BY CommitFacts DEF Write
<1>2. /\ record \in [Command -> Answer \union {NoCommand}]
      /\ answers \subseteq (Command \X Values \X Resource)
      /\ AnswersRecorded
  BY DEF IInv, TypeOK
<1> HIDE DEF w
<1>3. CASE w.command = NoCommand
  BY <1>1, <1>2, <1>3 DEF Remembered, AnswersRecorded
<1>4. CASE w.command # NoCommand
  <2>1. /\ w.command \in Command /\ w.values \in Values
        /\ record[w.command] = NoCommand \/ record[w.command] = m
    BY <1>1, <1>4 DEF Agrees
  <2>2. m \in Answer
    BY <1>1, <2>1 DEF Answer
  <2>3. record' = [record EXCEPT ![w.command] = m]
    BY <1>1, <1>4 DEF Remembered
  <2>4. m # NoCommand
    BY <2>2, ResourcesAssumption
  <2> DEFINE t == <<w.command, w.values, w.resource>>
  <2>5. t \in Command \X Values \X Resource /\ t[1] = w.command
        /\ m = [values |-> t[2], resource |-> t[3]]
    BY <1>1, <2>1
  <2>6. answers' = answers \union {t}
    BY <1>1, <1>4
  <2> HIDE DEF t, m
  <2>7. record' \in [Command -> Answer \union {NoCommand}]
    BY <1>2, <2>1, <2>2, <2>3
  <2>8. answers' \subseteq (Command \X Values \X Resource)
    BY <1>2, <2>5, <2>6
  <2>9. ASSUME NEW a \in answers'
        PROVE  record'[a[1]] = [values |-> a[2], resource |-> a[3]]
    <3>1. CASE a = t
      BY <1>2, <2>1, <2>3, <2>5, <3>1
    <3>2. CASE a \in answers
      <4> DEFINE n == [values |-> a[2], resource |-> a[3]]
      <4>1. a[1] \in Command /\ n \in Answer
        BY <1>2, <3>2 DEF Answer
      <4>2. record[a[1]] = n
        BY <1>2, <3>2 DEF AnswersRecorded
      <4>3. n # NoCommand
        BY <4>1, ResourcesAssumption
      <4> HIDE DEF n
      <4>4. record'[a[1]] = n
        BY <1>2, <2>1, <2>3, <4>1, <4>2, <4>3
      <4> QED
        BY <4>4 DEF n
    <3> QED
      BY <2>6, <3>1, <3>2
  <2> QED
    BY <2>7, <2>8, <2>9 DEF AnswersRecorded
<1> QED
  BY <1>3, <1>4

\* A policy row that is written is the next version, or the first.
LEMMA CommitPolicy ==
  ASSUME IInv, NEW c \in Client, Commit(c), NEW p \in Policy, row'[p] # row[p]
  PROVE  /\ row'[p] \in PolicyRow
         /\ Exists(p)'
         /\ Creation(p, row'[p])
         /\ EditOfSeen(c, p, row'[p])
         /\ RoomFor(p, row'[p])
         /\ Exists(p) => row[p] \in PolicyRow
BY CommitRows, RowTypes, TableOf, Resources DEF Warranted

\* What clients have loaded grows older, and no two rows share a version.
LEMMA CommitSeen ==
  ASSUME IInv, NEW c \in Client, Commit(c)
  PROVE  SeenPast'
<1> SUFFICES ASSUME NEW d \in Client, (seen[d] # Idle)'
             PROVE  SeenOrOlder(seen[d])'
  BY DEF SeenPast
<1>0. PICK s : s = seen[d]
  OBVIOUS
<1>1. seen'[d] = s /\ s \in Seen /\ SeenOrOlder(s)
  BY <1>0, CommitFacts DEF IInv, TypeOK, SeenPast
<1> DEFINE p == s.policy
<1>2. p \in Policy /\ Exists(p) /\ s.row.version \in Nat /\ row[p].version \in Nat
  BY <1>1, RowTypes, ResourcesAssumption DEF Seen, PolicyRow, SeenOrOlder
<1>3. CASE row'[p] = row[p]
  BY <1>1, <1>2, <1>3 DEF SeenOrOlder, Exists
<1>4. CASE row'[p] # row[p]
  <2>1. row'[p].version = row[p].version + 1 /\ Exists(p)'
    BY <1>2, <1>4, CommitPolicy DEF EditOfSeen
  <2> QED
    BY <1>1, <1>2, <2>1 DEF SeenOrOlder
<1> QED
  BY <1>3, <1>4

\* The cap was counted under the lock that is still held.
LEMMA CommitLimit ==
  ASSUME IInv, NEW c \in Client, Commit(c)
  PROVE  ActiveWithinLimit'
<1> SUFFICES ASSUME NEW kind \in Kind
             PROVE  Cardinality(Active(kind)') <= MaxActive
  BY DEF ActiveWithinLimit
<1> DEFINE A == Active(kind)
           B == Active(kind)'
           r == work[c].resource
<1>1. IsFiniteSet(A) /\ Cardinality(A) \in Nat /\ Cardinality(A) <= MaxActive /\ IsFiniteSet(B)
  <2>1. A \in SUBSET Policy /\ B \in SUBSET Policy
    BY DEF Active
  <2>2. IsFiniteSet(A) /\ IsFiniteSet(B)
    BY <2>1, FS_Subset, ResourcesAssumption
  <2> QED
    BY <2>2, FS_CardinalityType DEF IInv, ActiveWithinLimit
<1>2. \A p \in Policy : p # r => row'[p] = row[p]
  BY CommitRows, Resources
<1>3. CASE r \in B /\ r \notin A
  <2>1. r \in Policy /\ row'[r] # row[r] /\ row'[r].active /\ row'[r].kind = kind
    BY <1>3 DEF Active, Exists
  <2>2. PolicyRoom(kind)
    <3>1. EditOfSeen(c, r, row'[r]) /\ RoomFor(r, row'[r])
      BY <2>1, CommitPolicy
    <3> QED
      BY <1>3, <2>1, <3>1 DEF EditOfSeen, RoomFor, Active
  <2>3. B \in SUBSET (A \cup {r})
    BY <1>2 DEF Active, Exists
  <2>4. IsFiniteSet(A \cup {r}) /\ Cardinality(A \cup {r}) = Cardinality(A) + 1
    BY <1>1, <1>3, FS_AddElement
  <2>5. Cardinality(B) <= Cardinality(A) + 1 /\ Cardinality(B) \in Nat
    BY <1>1, <2>3, <2>4, FS_Subset, FS_CardinalityType
  <2> HIDE DEF A, B, r
  <2>6. Cardinality(A) < MaxActive
    BY <2>2 DEF A, PolicyRoom
  <2>7. Cardinality(B) <= MaxActive
    BY <1>1, <2>5, <2>6, ResourcesAssumption
  <2> QED
    BY <2>7 DEF B
<1>4. CASE ~(r \in B /\ r \notin A)
  <2>1. B \in SUBSET A
    BY <1>2, <1>4 DEF Active, Exists
  <2>2. Cardinality(B) <= Cardinality(A) /\ Cardinality(B) \in Nat
    BY <1>1, <2>1, FS_Subset, FS_CardinalityType
  <2> HIDE DEF A, B, r
  <2>3. Cardinality(B) <= MaxActive
    BY <1>1, <2>2, ResourcesAssumption
  <2> QED
    BY <2>3 DEF B
<1> QED
  BY <1>3, <1>4

\* Every version leaves its snapshot.
LEMMA CommitRevisions ==
  ASSUME IInv, NEW c \in Client, Commit(c)
  PROVE  /\ revisions' \in [Policy -> Seq(PolicyRow)]
         /\ RevisionsRecordRow'
<1>0. PICK r, new : r = work[c].resource /\ new = work[c].row
  OBVIOUS
<1>1. /\ revisions \in [Policy -> Seq(PolicyRow)]
      /\ revisions' = Snapshots(r, new)
      /\ RevisionsRecordRow
      /\ r \in Resource
      /\ row'[r] = new
  BY <1>0, CommitFacts DEF IInv, TypeOK, Write
<1>2. \A p \in Policy : p # r => row'[p] = row[p]
  BY <1>0, CommitRows, Resources
<1>3. CASE r \in Policy /\ row[r] # new
  <2>1. new \in PolicyRow /\ Exists(r)' /\ Creation(r, new) /\ EditOfSeen(c, r, new)
    BY <1>1, <1>3, CommitPolicy
  <2>0. PICK old, next : old = revisions[r] /\ next = Append(old, new)
    OBVIOUS
  <2>2. old \in Seq(PolicyRow)
    BY <1>1, <1>3, <2>0
  <2>3. /\ \A n \in 1..Len(old) : old[n].version = n
        /\ Exists(r) <=> old # <<>>
        /\ Exists(r) => old[Len(old)] = row[r]
    BY <1>1, <1>3, <2>0 DEF RevisionsRecordRow
  <2>4. revisions' = [revisions EXCEPT ![r] = next]
    BY <1>1, <1>3, <2>0 DEF Snapshots
  <2>5. new.version = Len(old) + 1
    <3>1. CASE Exists(r)
      BY <2>1, <2>2, <2>3, <3>1 DEF EditOfSeen
    <3>2. CASE ~Exists(r)
      BY <2>1, <2>2, <2>3, <3>2 DEF Creation
    <3> QED
      BY <3>1, <3>2
  <2>6. /\ next \in Seq(PolicyRow)
        /\ Len(next) = Len(old) + 1
        /\ next # <<>>
        /\ next[Len(next)] = new
        /\ \A n \in 1..Len(next) : next[n].version = n
    BY <2>1, <2>2, <2>3, <2>5, <2>0
  <2>7. revisions' \in [Policy -> Seq(PolicyRow)]
    BY <1>1, <1>3, <2>4, <2>6
  <2>8. RevisionsRecordRow'
    <3> SUFFICES ASSUME NEW p \in Policy
                 PROVE  (/\ \A n \in 1..Len(revisions[p]) : revisions[p][n].version = n
                         /\ Exists(p) <=> revisions[p] # <<>>
                         /\ Exists(p) => revisions[p][Len(revisions[p])] = row[p])'
      BY DEF RevisionsRecordRow
    <3>1. CASE p = r
      <4>1. revisions'[p] = next
        BY <1>1, <1>3, <2>4, <3>1
      <4> QED
        BY <1>1, <2>1, <2>6, <3>1, <4>1
    <3>2. CASE p # r
      <4>1. revisions'[p] = revisions[p] /\ row'[p] = row[p]
        BY <1>1, <1>2, <2>4, <3>2
      <4> QED
        BY <1>1, <4>1 DEF RevisionsRecordRow, Exists
    <3> QED
      BY <3>1, <3>2
  <2> QED
    BY <2>7, <2>8
<1>4. CASE ~(r \in Policy /\ row[r] # new)
  <2>1. revisions' = revisions /\ \A p \in Policy : row'[p] = row[p]
    BY <1>1, <1>2, <1>4 DEF Snapshots
  <2> QED
    BY <1>1, <2>1 DEF RevisionsRecordRow, Exists
<1> QED
  BY <1>3, <1>4

LEMMA CommitStep ==
  ASSUME IInv, NEW c \in Client, Commit(c)
  PROVE  IInv'
<1>1. TypeOK'
  BY CommitFacts, CommitRows, CommitAnswers, CommitRevisions, Resources DEF IInv, TypeOK
<1>2. OneHolder' /\ WritesWarranted'
  BY CommitFacts DEF OneHolder, WritesWarranted
<1> QED
  BY <1>1, <1>2, CommitAnswers, CommitSeen, CommitLimit, CommitRevisions DEF IInv

LEMMA AbortStep ==
  ASSUME IInv, NEW c \in Client, Abort(c)
  PROVE  IInv'
<1>1. /\ \A d \in Client : work'[d] = Idle
      /\ work' \in [Client -> Write \union {Idle}]
      /\ UNCHANGED <<row, revisions, record, seen, answers>>
  BY DEF IInv, TypeOK, OneHolder, Abort
<1>2. TypeOK'
  BY <1>1 DEF IInv, TypeOK, Exists
<1>3. OneHolder' /\ WritesWarranted'
  BY <1>1 DEF OneHolder, WritesWarranted
<1>4. AnswersRecorded' /\ SeenPast' /\ ActiveWithinLimit' /\ RevisionsRecordRow'
  BY <1>1 DEF IInv, AnswersRecorded, SeenPast, SeenOrOlder, ActiveWithinLimit, Active,
              RevisionsRecordRow, Exists
<1> QED
  BY <1>2, <1>3, <1>4 DEF IInv

LEMMA InitIInv == Init => IInv
<1> SUFFICES ASSUME Init PROVE IInv
  OBVIOUS
<1>1. \A r \in Resource \ {Org} : ~Exists(r)
  BY DEF Init, Exists
<1>2. row[Org] = [active |-> TRUE] /\ row[Org] \in OrgRow
  BY DEF Init, OrgRow, Resource
<1>3. Exists(Org)
  BY <1>2, ResourcesAssumption DEF Exists, Row
<1>4. TypeOK
  <2>1. row \in [Resource -> Row \union {NoRow}]
    BY <1>2, Resources DEF Init, Row
  <2>2. \A r \in Resource : Exists(r) => row[r] \in Table(r)
    BY <1>1, <1>2, TableOf
  <2>3. revisions \in [Policy -> Seq(PolicyRow)]
    BY DEF Init
  <2> QED
    BY <1>3, <2>1, <2>2, <2>3 DEF Init, TypeOK
<1>5. OneHolder /\ WritesWarranted /\ AnswersRecorded /\ SeenPast
  BY DEF Init, OneHolder, WritesWarranted, AnswersRecorded, SeenPast
<1>6. \A p \in Policy : ~Exists(p)
  BY <1>1, Resources, ResourcesAssumption
<1>7. ActiveWithinLimit
  <2> SUFFICES ASSUME NEW kind \in Kind PROVE Cardinality(Active(kind)) <= MaxActive
    BY DEF ActiveWithinLimit
  <2>1. Active(kind) = {}
    BY <1>6 DEF Active
  <2>2. Cardinality({}) = 0
    BY FS_EmptySet
  <2> QED
    BY <2>1, <2>2, ResourcesAssumption
<1>8. RevisionsRecordRow
  BY <1>6 DEF Init, RevisionsRecordRow
<1> QED
  BY <1>4, <1>5, <1>7, <1>8 DEF IInv

LEMMA NextIInv == IInv /\ [Next]_vars => IInv'
<1> SUFFICES ASSUME IInv, [Next]_vars PROVE IInv'
  OBVIOUS
<1>1. ASSUME NEW c \in Client,
             ProjectCommand(c) \/ ServiceCommand(c) \/ PolicyCommand(c) \/ Commit(c) \/ Abort(c)
      PROVE  IInv'
  BY <1>1, ProjectCommands, ServiceCommands, PolicyCommands, CommitStep, AbortStep
<1>2. CASE UNCHANGED vars
  <2>1. UNCHANGED <<row, revisions, record, seen, work, answers>>
    BY <1>2 DEF vars
  <2>2. TypeOK' /\ OneHolder'
    BY <2>1 DEF IInv, TypeOK, OneHolder, Exists
  <2>3. ASSUME NEW d, NEW r, NEW new
        PROVE  Warranted(d, r, new)' <=> Warranted(d, r, new)
    BY <2>1 DEF Warranted, ProjectWarranted, ServiceWarranted, ChildWarranted,
                Creation, EditOfSeen, RoomFor, PolicyRoom, Active, TargetOpen,
                ServiceOpen, ParentsOpen, ServiceProject, ProjectOpen, Exists
  <2>4. WritesWarranted'
    <3> SUFFICES ASSUME NEW d \in Client, (work[d] # Idle)'
                 PROVE  (/\ \/ work[d].row = row[work[d].resource]
                            \/ Warranted(d, work[d].resource, work[d].row)
                         /\ Agrees(work[d].command, work[d].values, work[d].resource))'
      BY DEF WritesWarranted
    <3> QED
      BY <2>1, <2>3 DEF IInv, WritesWarranted, Agrees
  <2>5. AnswersRecorded' /\ SeenPast' /\ ActiveWithinLimit' /\ RevisionsRecordRow'
    BY <2>1 DEF IInv, AnswersRecorded, SeenPast, SeenOrOlder, ActiveWithinLimit, Active,
                RevisionsRecordRow, Exists
  <2> QED
    BY <2>2, <2>4, <2>5 DEF IInv
<1> QED
  BY <1>1, <1>2 DEF Next

-----------------------------------------------------------------------------
(***************************************************************************)
(* The theorems                                                            *)
(***************************************************************************)

\* The inductive invariant: one command writes at a time, and what it checked
\* under the lock of its organization is still so.
THEOREM OrganizationLockHolds == Spec => []IInv
BY InitIInv, NextIInv, PTL DEF Spec

\* Every row, record and revision keeps its type.
THEOREM TypeCorrect == Spec => []TypeOK
<1>1. IInv => TypeOK
  BY DEF IInv
<1> QED
  BY <1>1, OrganizationLockHolds, PTL

\* The cap on active policies holds however creations and reactivations cross.
THEOREM LimitHolds == Spec => []ActiveWithinLimit
<1>1. IInv => ActiveWithinLimit
  BY DEF IInv
<1> QED
  BY <1>1, OrganizationLockHolds, PTL

\* The last revision of a policy is the row that is enforced.
THEOREM RevisionsAreComplete == Spec => []RevisionsRecordRow
<1>1. IInv => RevisionsRecordRow
  BY DEF IInv
<1> QED
  BY <1>1, OrganizationLockHolds, PTL

\* An Idempotency-Key is answered with one resource for one input.
THEOREM KeysNameOneResource == Spec => []OneResourcePerKey
<1>1. IInv => OneResourcePerKey
  <2> SUFFICES ASSUME IInv, NEW a \in answers, NEW b \in answers, a[1] = b[1]
               PROVE  a = b
    BY DEF OneResourcePerKey
  <2>1. /\ a \in Command \X Values \X Resource
        /\ b \in Command \X Values \X Resource
    BY DEF IInv, TypeOK
  <2>2. [values |-> a[2], resource |-> a[3]] = [values |-> b[2], resource |-> b[3]]
    BY DEF IInv, AnswersRecorded
  <2>3. a[2] = b[2] /\ a[3] = b[3]
    BY <2>2
  <2> QED
    BY <2>1, <2>3
<1> QED
  BY <1>1, OrganizationLockHolds, PTL

\* Only a commit changes a row.
LEMMA RowSteps ==
  ASSUME [Next]_vars, row' # row
  PROVE  \E c \in Client : Commit(c)
<1>1. /\ \A c, r, new : Edit(c, r, new) => row' = row
      /\ \A c, r, new, command, values, allowed :
            Create(c, r, new, command, values, allowed) => row' = row
  BY DEF Edit, Create, Begin
<1>2. ASSUME NEW c \in Client, ProjectCommand(c)
      PROVE  row' = row
  BY <1>1, <1>2 DEF ProjectCommand, CreateProject, UpdateProject, ArchiveProject,
                    ArchiveOrganization
<1>3. ASSUME NEW c \in Client, ServiceCommand(c)
      PROVE  row' = row
  <2>1. CASE \/ \E s \in Service, e \in Environment, slug \in Name, key \in Key :
                   CreateService(c, s, e, slug, key)
             \/ \E s \in Service, active \in BOOLEAN : SetServiceStatus(c, s, active)
    BY <1>1, <2>1 DEF CreateService, SetServiceStatus
  <2>2. CASE \/ \E x \in Permission, s \in Service, name \in Name, key \in Key :
                   CreatePermission(c, x, s, name, key)
             \/ \E x \in Permission, active \in BOOLEAN : SetPermissionStatus(c, x, active)
    BY <1>1, <2>2 DEF CreatePermission, SetPermissionStatus
  <2>3. CASE \/ \E d \in Credential, s \in Service, kind \in CredentialKind,
                   name \in Name, key \in Key : IssueCredential(c, d, s, kind, name, key)
             \/ \E d \in Credential : RevokeCredential(c, d)
    BY <1>1, <2>3 DEF IssueCredential, RevokeCredential
  <2> QED
    BY <1>3, <2>1, <2>2, <2>3 DEF ServiceCommand
<1>4. ASSUME NEW c \in Client, PolicyCommand(c)
      PROVE  row' = row
  <2>1. CASE \E p \in Policy, kind \in Kind, x \in Target, config \in Config, key \in Key :
                CreatePolicy(c, p, kind, x, config, key)
    BY <1>1, <2>1 DEF CreatePolicy
  <2>2. CASE \E p \in Policy : LoadPolicy(c, p)
    BY <2>2 DEF LoadPolicy
  <2>3. CASE \E config \in Config, active \in BOOLEAN : UpdatePolicy(c, config, active)
    BY <1>1, <2>3 DEF UpdatePolicy
  <2> QED
    BY <1>4, <2>1, <2>2, <2>3 DEF PolicyCommand
<1>5. ASSUME NEW c \in Client, Abort(c)
      PROVE  row' = row
  BY <1>5 DEF Abort
<1> QED
  BY <1>2, <1>3, <1>4, <1>5 DEF Next, vars

\* Every edit of a policy replaces the row that its client had loaded.
THEOREM NoEditIsLost == Spec => EditsBuildOnSeen
<1>1. ASSUME IInv, [Next]_vars, NEW p \in Policy, Exists(p), row'[p] # row[p]
      PROVE  \E c \in Client : /\ work[c] # Idle /\ work'[c] = Idle
                               /\ seen[c] = [policy |-> p, row |-> row[p]]
  <2>1. PICK c \in Client : Commit(c)
    BY <1>1, RowSteps
  <2>2. work[c] # Idle /\ work'[c] = Idle
    BY <1>1, <2>1, CommitFacts DEF Commit
  <2>3. seen[c] = [policy |-> p, row |-> row[p]]
    BY <1>1, <2>1, CommitPolicy DEF EditOfSeen
  <2> QED
    BY <2>2, <2>3
<1>2. IInv /\ [Next]_vars =>
        [\A p \in Policy :
          Exists(p) /\ row'[p] # row[p] =>
              \E c \in Client : /\ work[c] # Idle /\ work'[c] = Idle
                                /\ seen[c] = [policy |-> p, row |-> row[p]]]_vars
  BY <1>1
<1> QED
  BY <1>2, OrganizationLockHolds, PTL DEF Spec, EditsBuildOnSeen

\* Under an archived or disabled parent nothing is created, no project renamed
\* and no service switched; only the four changes that do not ask for open
\* parents, archivals, permission switches, revocations and policy revisions, are.
THEOREM OpenParentsForNew == Spec => NothingNewUnderArchived
<1> DEFINE A ==
       /\ \A p \in Project : row'[p] # row[p] =>
             IF Exists(p) THEN ProjectOpen(p) \/ Archival(row[p], row'[p])
                          ELSE row[Org].active
       /\ \A s \in Service : row'[s] # row[s] => ProjectOpen(row'[s].environment[1])
       /\ \A x \in Permission : row'[x] # row[x] =>
             IF Exists(x) THEN Switch(row[x], row'[x]) ELSE ServiceOpen(row'[x].service)
       /\ \A d \in Credential : row'[d] # row[d] =>
             IF Exists(d) THEN Revocation(row[d], row'[d]) ELSE ServiceOpen(row'[d].service)
       /\ \A p \in Policy : row'[p] # row[p] =>
             IF Exists(p) THEN Revision(row[p], row'[p])
             ELSE row[Org].active /\ TargetOpen(row'[p].target, row'[p].kind)
<1>1. ASSUME IInv, [Next]_vars, row' # row
      PROVE  A
  <2>1. PICK c \in Client : Commit(c)
    BY <1>1, RowSteps
  <2>2. \A r \in Resource : row'[r] # row[r] => Warranted(c, r, row'[r])
    BY <1>1, <2>1, CommitRows
  <2>3. ASSUME NEW p \in Project, row'[p] # row[p]
        PROVE  IF Exists(p) THEN ProjectOpen(p) \/ Archival(row[p], row'[p])
                            ELSE row[Org].active
    BY <2>2, <2>3, Resources DEF Warranted, ProjectWarranted
  <2>4. ASSUME NEW s \in Service, row'[s] # row[s]
        PROVE  ProjectOpen(row'[s].environment[1])
    BY <2>2, <2>4, Resources DEF Warranted, ServiceWarranted
  <2>5. ASSUME NEW x \in Permission, row'[x] # row[x]
        PROVE  IF Exists(x) THEN Switch(row[x], row'[x]) ELSE ServiceOpen(row'[x].service)
    BY <2>2, <2>5, Resources DEF Warranted, ChildWarranted
  <2>6. ASSUME NEW d \in Credential, row'[d] # row[d]
        PROVE  IF Exists(d) THEN Revocation(row[d], row'[d]) ELSE ServiceOpen(row'[d].service)
    BY <2>2, <2>6, Resources DEF Warranted, ChildWarranted
  <2>7. ASSUME NEW p \in Policy, row'[p] # row[p]
        PROVE  IF Exists(p) THEN Revision(row[p], row'[p])
               ELSE row[Org].active /\ TargetOpen(row'[p].target, row'[p].kind)
    BY <2>2, <2>7, Resources DEF Warranted, Creation, EditOfSeen
  <2> QED
    BY <2>3, <2>4, <2>5, <2>6, <2>7
<1>2. ASSUME row' = row
      PROVE  A
  BY <1>2
<1>3. IInv /\ [Next]_vars => A
  BY <1>1, <1>2
<1>4. IInv /\ [Next]_vars => [A]_vars
  BY <1>3
<1> QED
  BY <1>4, OrganizationLockHolds, PTL DEF Spec, NothingNewUnderArchived
=============================================================================
