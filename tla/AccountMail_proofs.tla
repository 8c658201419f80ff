------------------------- MODULE AccountMail_proofs --------------------------
(***************************************************************************)
(* Proofs about AccountMail for every number of workers, links, passwords  *)
(* and attempts: types, what the user lock keeps during an SMTP dialogue,  *)
(* and that the two tables are an Outbox.                                  *)
(***************************************************************************)
EXTENDS AccountMail, FiniteSetTheorems, SequenceTheorems, TLAPS

USE AccountMailAssumption

InLock(w) == job[w].stage \in Locked

\* One worker at a time holds the user row.
OneInFlight == \A v, w \in Worker : InLock(v) /\ InLock(w) => v = w

\* The row it sends is still in the queue and, until the server has answered,
\* still fits the account.
JobHeld(w) ==
    InLock(w) =>
        /\ Open(job[w].row)
        /\ ~rows[job[w].row].sent
        /\ rows[job[w].row].attempts < MaxAttempts
        /\ job[w].stage = "sending" => Deliverable(job[w].row)

IsAccepted(r) == \E w \in Worker : job[w].stage = "accepted" /\ job[w].row = r
IsAnswered(r) ==
    \E w \in Worker : job[w].stage \in {"accepted", "refused"} /\ job[w].row = r

Sent(r) == r \in Rows /\ rows[r].sent
Attempts(r) == IF r \in Rows THEN rows[r].attempts ELSE 0

\* Every mail the server accepted is accounted for.
CopiesCounted(r) ==
    /\ copies[r] = unrecorded[r] + (IF Sent(r) THEN 1 ELSE 0)
                                 + (IF IsAccepted(r) THEN 1 ELSE 0)
    /\ copies[r] <= Attempts(r) + crashes + (IF IsAnswered(r) THEN 1 ELSE 0)

\* An open row is the newest of its kind.
NewestOpen ==
    \A q, r \in Rows : rows[q].kind = rows[r].kind /\ q < r => ~Open(q)

\* A verification mail went to the address its row was issued for.
LinksAddressed ==
    \A link \in inbox : rows[link.row].kind = "verify" => link.to = rows[link.row].email

IInv ==
    /\ TypeOK
    /\ OneInFlight
    /\ \A w \in Worker : JobHeld(w)
    /\ \A r \in 1..MaxRow : CopiesCounted(r)
    /\ NewestOpen
    /\ LinksAddressed
    /\ account.status = "none" => Len(rows) = 0

-----------------------------------------------------------------------------
(***************************************************************************)
(* Rows.                                                                   *)
(***************************************************************************)

LEMMA RowsTyped ==
  ASSUME TypeOK
  PROVE  /\ Len(rows) \in Nat /\ DOMAIN rows = Rows
         /\ Rows \subseteq 1..MaxRow
         /\ \A r \in Rows : rows[r] \in Row
<1>1. rows \in Seq(Row) /\ Len(rows) <= MaxRow
  BY DEF TypeOK
<1>2. Len(rows) \in Nat /\ DOMAIN rows = 1..Len(rows) /\ \A r \in 1..Len(rows) : rows[r] \in Row
  BY <1>1, LenProperties, ElementOfSeq
<1>3. QED
  BY <1>1, <1>2 DEF Rows

\* What no command changes in a row.
SameMail(old, new) ==
    /\ new.kind = old.kind /\ new.email = old.email /\ new.credential = old.credential
    /\ new.sent = old.sent /\ new.attempts = old.attempts
    /\ new.state = "open" => old.state = "open"

LEMMA FunctionIsSeq ==
  ASSUME NEW n \in Nat, NEW f \in [1..n -> Row]
  PROVE  f \in Seq(Row) /\ Len(f) = n
<1>1. f \in Seq(Row)
  BY SeqDef
<1>2. QED
  BY <1>1, LenProperties

LEMMA ClosedFacts ==
  ASSUME TypeOK, NEW R
  PROVE  /\ Closed(R) \in Seq(Row)
         /\ Len(Closed(R)) = Len(rows)
         /\ \A r \in Rows : /\ Closed(R)[r] \in Row
                            /\ SameMail(rows[r], Closed(R)[r])
                            /\ Closed(R)[r].expired = rows[r].expired
                            /\ r \in R => Closed(R)[r].state = "invalidated"
                            /\ r \notin R => Closed(R)[r] = rows[r]
<1>1. \A r \in Rows :
        /\ [rows[r] EXCEPT !.state = "invalidated"] \in Row
        /\ [rows[r] EXCEPT !.state = "invalidated"].state = "invalidated"
        /\ [rows[r] EXCEPT !.state = "invalidated"].expired = rows[r].expired
        /\ SameMail(rows[r], [rows[r] EXCEPT !.state = "invalidated"])
        /\ SameMail(rows[r], rows[r])
  <2> SUFFICES ASSUME NEW old \in Row
               PROVE  LET new == [old EXCEPT !.state = "invalidated"]
                      IN  /\ new \in Row
                          /\ new.state = "invalidated"
                          /\ new.expired = old.expired
                          /\ SameMail(old, new)
                          /\ SameMail(old, old)
    BY RowsTyped
  <2>1. [old EXCEPT !.state = "invalidated"] \in Row
    BY DEF Row
  <2>2. QED
    BY <2>1 DEF Row, SameMail
<1>2. \A r \in Rows : Closed(R)[r] = IF r \in R THEN [rows[r] EXCEPT !.state = "invalidated"]
                                     ELSE rows[r]
  BY DEF Closed
<1>3. Closed(R) \in [1..Len(rows) -> Row]
  BY <1>1, RowsTyped DEF Closed, Rows
<1>4. Closed(R) \in Seq(Row) /\ Len(Closed(R)) = Len(rows)
  BY <1>3, RowsTyped, FunctionIsSeq
<1>5. QED
  BY <1>1, <1>2, <1>4, RowsTyped

LEMMA NewRowFacts ==
  ASSUME TypeOK, NEW kind \in Kind
  PROVE  /\ NewRow(kind) \in Row /\ NewRow(kind).kind = kind
         /\ NewRow(kind).state = "open" /\ ~NewRow(kind).sent /\ ~NewRow(kind).expired
         /\ NewRow(kind).attempts = 0
         /\ NewRow(kind).email = account.email
BY DEF TypeOK, NewRow, Row, Account

LEMMA IssuedFacts ==
  ASSUME TypeOK, NEW kind \in Kind
  PROVE  /\ Issued(kind) \in Seq(Row)
         /\ Len(Issued(kind)) = Len(rows) + 1
         /\ \A r \in Rows : Issued(kind)[r] = Closed(OpenRows(kind))[r]
         /\ Issued(kind)[Len(rows) + 1] = NewRow(kind)
<1>1. PICK seq \in Seq(Row) : seq = Closed(OpenRows(kind))
  BY ClosedFacts
<1>2. PICK new \in Row : new = NewRow(kind)
  BY NewRowFacts
<1>3. Len(seq) = Len(rows)
  BY <1>1, ClosedFacts
<1>4. /\ Append(seq, new) \in Seq(Row)
      /\ Len(Append(seq, new)) = Len(seq) + 1
      /\ \A r \in 1..Len(seq) : Append(seq, new)[r] = seq[r]
      /\ Append(seq, new)[Len(seq) + 1] = new
  BY AppendProperties
<1>5. QED
  BY <1>1, <1>2, <1>3, <1>4 DEF Issued, Rows

LEMMA UpdateFacts ==
  ASSUME TypeOK, NEW r \in Rows, NEW new \in Row
  PROVE  /\ [rows EXCEPT ![r] = new] \in Seq(Row)
         /\ Len([rows EXCEPT ![r] = new]) = Len(rows)
         /\ [rows EXCEPT ![r] = new][r] = new
         /\ \A q \in Rows \ {r} : [rows EXCEPT ![r] = new][q] = rows[q]
<1>1. [rows EXCEPT ![r] = new] \in [1..Len(rows) -> Row]
  BY RowsTyped DEF Rows
<1>2. QED
  BY <1>1, RowsTyped, FunctionIsSeq
-----------------------------------------------------------------------------
(***************************************************************************)
(* Commands: what they have in common, and that it keeps the invariant.    *)
(***************************************************************************)

Fresh(new) == new.state = "open" /\ ~new.sent /\ ~new.expired /\ new.attempts = 0

\* Under the user lock rows are closed and issued; nothing is mailed.
RowsCommand ==
    /\ UserFree
    /\ rows' \in Seq(Row) /\ Len(rows) <= Len(rows') /\ Len(rows') <= MaxRow
    /\ \A r \in Rows : SameMail(rows[r], rows'[r]) /\ rows'[r].expired = rows[r].expired
    /\ \A r \in 1..Len(rows') : r \notin Rows => Fresh(rows'[r])
    /\ NewestOpen'
    /\ account' \in Account /\ (account'.status = "none" => Len(rows') = 0)
    /\ job' \in [Worker -> Job]
    /\ \A w \in Worker : job'[w] = job[w] \/ job'[w] = Idle
    /\ UNCHANGED <<inbox, counts>>

LEMMA RowsCommandType ==
  ASSUME TypeOK, RowsCommand
  PROVE  /\ TypeOK'
         /\ Len(rows') \in Nat /\ Rows' = 1..Len(rows') /\ Rows \subseteq Rows'
         /\ \A w \in Worker : ~InLock(w) /\ ~InLock(w)'
<1>1. Len(rows') \in Nat /\ Rows' = 1..Len(rows') /\ Rows \subseteq Rows'
  BY RowsTyped, LenProperties DEF RowsCommand, Rows
<1>2. Idle.stage = "idle"
  BY DEF Idle
<1>3. \A w \in Worker : ~InLock(w) /\ ~InLock(w)'
  BY <1>2 DEF RowsCommand, UserFree, InLock, Locked
<1>4. \A w \in Worker : job'[w].stage # "idle" => job'[w].row \in Rows'
  BY <1>1, <1>2 DEF TypeOK, RowsCommand
<1>5. \A link \in inbox' : link.row \in Rows'
  BY <1>1 DEF TypeOK, RowsCommand
<1>6. TypeOK'
  BY <1>4, <1>5 DEF TypeOK, RowsCommand, counts
<1>7. QED
  BY <1>1, <1>3, <1>6

LEMMA RowsCommandStep ==
  ASSUME IInv, RowsCommand
  PROVE  IInv'
<1>1. /\ TypeOK' /\ TypeOK
      /\ Len(rows') \in Nat /\ Rows' = 1..Len(rows') /\ Rows \subseteq Rows'
      /\ \A w \in Worker : ~InLock(w) /\ ~InLock(w)'
  BY RowsCommandType DEF IInv
<1>2. OneInFlight' /\ \A w \in Worker : JobHeld(w)'
  BY <1>1 DEF OneInFlight, JobHeld
<1>3. ASSUME NEW r \in 1..MaxRow PROVE CopiesCounted(r)'
  <2>1. Sent(r)' <=> Sent(r)
    BY <1>1 DEF Sent, RowsCommand, SameMail, Fresh
  <2>2. Attempts(r)' = Attempts(r)
    BY <1>1 DEF Attempts, RowsCommand, SameMail, Fresh
  <2>3. ~IsAccepted(r) /\ ~IsAnswered(r) /\ ~IsAccepted(r)' /\ ~IsAnswered(r)'
    BY <1>1 DEF IsAccepted, IsAnswered, InLock, Locked
  <2>4. QED
    BY <2>1, <2>2, <2>3 DEF IInv, CopiesCounted, RowsCommand, counts
<1>4. LinksAddressed'
  <2>1. inbox' = inbox
    BY DEF RowsCommand
  <2>2. \A link \in inbox : link.row \in Rows
    BY <1>1 DEF TypeOK
  <2>3. \A r \in Rows : rows'[r].kind = rows[r].kind /\ rows'[r].email = rows[r].email
    BY DEF RowsCommand, SameMail
  <2>4. QED
    BY <2>1, <2>2, <2>3 DEF IInv, LinksAddressed
<1>5. QED
  BY <1>1, <1>2, <1>3, <1>4 DEF IInv, RowsCommand

\* Closing some rows and issuing none.
LEMMA ClosingRows ==
  ASSUME IInv, rows' \in Seq(Row), Len(rows') = Len(rows),
         \A r \in Rows : SameMail(rows[r], rows'[r]) /\ rows'[r].expired = rows[r].expired
  PROVE  /\ Len(rows) <= Len(rows') /\ Len(rows') <= MaxRow
         /\ \A r \in 1..Len(rows') : r \notin Rows => Fresh(rows'[r])
         /\ NewestOpen'
         /\ Len(rows) = 0 => Len(rows') = 0
<1>1. Len(rows) \in Nat /\ Len(rows) <= MaxRow /\ Rows' = Rows
  BY RowsTyped DEF IInv, TypeOK, Rows
<1>2. NewestOpen'
  BY <1>1 DEF IInv, NewestOpen, SameMail, Open
<1>3. QED
  BY <1>1, <1>2 DEF Rows

LEMMA SameRows ==
  ASSUME IInv, rows' = rows
  PROVE  /\ rows' \in Seq(Row)
         /\ Len(rows') = Len(rows)
         /\ \A r \in Rows : SameMail(rows[r], rows'[r]) /\ rows'[r].expired = rows[r].expired
BY DEF IInv, TypeOK, SameMail

\* A new link of a kind closes the open ones.
LEMMA IssuingRows ==
  ASSUME IInv, NEW kind \in Kind, rows' = Issued(kind), Len(rows) < MaxRow
  PROVE  /\ rows' \in Seq(Row) /\ Len(rows) <= Len(rows') /\ Len(rows') <= MaxRow
         /\ \A r \in Rows : SameMail(rows[r], rows'[r]) /\ rows'[r].expired = rows[r].expired
         /\ \A r \in 1..Len(rows') : r \notin Rows => Fresh(rows'[r])
         /\ NewestOpen'
         /\ Len(rows') # 0
<1> DEFINE n == Len(rows) + 1
<1>1. TypeOK /\ Len(rows) \in Nat
  BY RowsTyped DEF IInv
<1>2. /\ rows' \in Seq(Row) /\ Len(rows') = Len(rows) + 1
      /\ \A r \in Rows : rows'[r] = Closed(OpenRows(kind))[r]
      /\ rows'[Len(rows) + 1] = NewRow(kind)
  BY <1>1, IssuedFacts
<1>3. \A r \in Rows :
        /\ SameMail(rows[r], rows'[r]) /\ rows'[r].expired = rows[r].expired
        /\ rows[r].kind = kind => rows'[r].state # "open"
  <2>1. SUFFICES ASSUME NEW r \in Rows
                 PROVE  /\ SameMail(rows[r], rows'[r]) /\ rows'[r].expired = rows[r].expired
                        /\ rows[r].kind = kind => rows'[r].state # "open"
    OBVIOUS
  <2>2. rows'[r] = Closed(OpenRows(kind))[r]
    BY <1>2
  <2>3. /\ SameMail(rows[r], rows'[r]) /\ rows'[r].expired = rows[r].expired
        /\ r \in OpenRows(kind) => rows'[r].state = "invalidated"
        /\ r \notin OpenRows(kind) => rows'[r] = rows[r]
    BY <1>1, <2>2, ClosedFacts
  <2>4. r \in OpenRows(kind) <=> rows[r].kind = kind /\ rows[r].state = "open"
    BY DEF OpenRows, Open
  <2>5. QED
    BY <2>3, <2>4
<1>4. /\ NewRow(kind).kind = kind /\ Fresh(NewRow(kind))
  BY <1>1, NewRowFacts DEF Fresh
<1>5. \A r \in 1..Len(rows') : r \notin Rows => r = Len(rows) + 1
  BY <1>1, <1>2 DEF Rows
<1>6. ASSUME NEW q \in 1..Len(rows'), NEW r \in 1..Len(rows'),
             rows'[q].kind = rows'[r].kind, q < r
      PROVE  rows'[q].state # "open"
  <2>1. q \in Rows
    BY <1>1, <1>2, <1>6 DEF Rows
  <2>2. CASE r \in Rows
    BY <1>3, <1>6, <2>1, <2>2 DEF IInv, NewestOpen, SameMail, Open
  <2>3. CASE r = Len(rows) + 1
    <3>1. rows'[r].kind = kind
      BY <1>2, <1>4, <2>3
    <3>2. rows[q].kind = kind
      BY <1>3, <1>6, <2>1, <3>1 DEF SameMail
    <3>3. QED
      BY <1>3, <2>1, <3>2
  <2>4. QED
    BY <1>5, <2>2, <2>3
<1>7. NewestOpen'
  BY <1>6 DEF NewestOpen, Rows, Open
<1>8. QED
  BY <1>1, <1>2, <1>3, <1>4, <1>5, <1>7

\* Before the account there is nothing to lock.
LEMMA NothingBeforeAccount ==
  ASSUME IInv, account.status = "none"
  PROVE  UserFree
<1>1. Rows = {}
  BY RowsTyped DEF IInv, Rows
<1>2. QED
  BY <1>1 DEF IInv, TypeOK, UserFree, Locked

LEMMA RegisterCommand ==
  ASSUME IInv, Register PROVE RowsCommand
<1>1. UserFree
  BY NothingBeforeAccount DEF Register
<1>2. account' \in Account /\ account'.status = "pending"
  BY DEF IInv, TypeOK, Register, Account
<1>3. "verify" \in Kind
  BY DEF Kind
<1>4. job' = job /\ job \in [Worker -> Job] /\ UNCHANGED <<inbox, counts>>
  BY DEF IInv, TypeOK, Register
<1>5. QED
  BY <1>1, <1>2, <1>3, <1>4, IssuingRows DEF Register, RowsCommand

LEMMA RequestLinkCommand ==
  ASSUME IInv, NEW kind \in Kind, RequestLink(kind) PROVE RowsCommand
<1>1. account' = account /\ account \in Account /\ account'.status # "none"
  BY DEF IInv, TypeOK, RequestLink, Eligible
<1>2. job' = job /\ job \in [Worker -> Job] /\ UNCHANGED <<inbox, counts>>
  BY DEF IInv, TypeOK, RequestLink
<1>3. QED
  BY <1>1, <1>2, IssuingRows DEF RequestLink, MayIssue, RowsCommand

LEMMA AccountCommand ==
  ASSUME IInv, CreateUser \/ Administer PROVE RowsCommand
<1>1. UserFree
  BY NothingBeforeAccount DEF CreateUser, Administer
<1>2. account' \in Account /\ account'.status # "none"
  <2>1. account \in Account /\ account.password \in 1..MaxPassword
    BY DEF IInv, TypeOK, Account
  <2>2. CASE CreateUser
    BY <2>1, <2>2 DEF CreateUser, Account
  <2>3. ASSUME NEW s \in {"active", "disabled"}, account' = [account EXCEPT !.status = s]
        PROVE  account' \in Account /\ account'.status # "none"
    BY <2>1, <2>3 DEF Account
  <2>4. ASSUME NEW a \in Address, account' = [account EXCEPT !.email = a],
               account.status # "none"
        PROVE  account' \in Account /\ account'.status # "none"
    BY <2>1, <2>4 DEF Account
  <2>5. ASSUME account' = [account EXCEPT !.password = @ + 1],
               account.password < MaxPassword, account.status # "none"
        PROVE  account' \in Account /\ account'.status # "none"
    BY <2>1, <2>5 DEF Account
  <2>6. QED
    BY <2>2, <2>3, <2>4, <2>5 DEF Administer
<1>3. /\ job' = job /\ job \in [Worker -> Job] /\ UNCHANGED <<inbox, counts>>
      /\ rows' = rows
  BY DEF IInv, TypeOK, CreateUser, Administer
<1>4. QED
  BY <1>1, <1>2, <1>3, SameRows, ClosingRows DEF RowsCommand

LEMMA VerifyEmailCommand ==
  ASSUME IInv, NEW link \in inbox, VerifyEmail(link) PROVE RowsCommand
<1>1. PICK r \in Rows : r = link.row
  BY DEF IInv, TypeOK
<1>2. rows[r] \in Row
  BY RowsTyped DEF IInv
<1>3. PICK new \in Row : new = [rows[r] EXCEPT !.state = "consumed"]
  BY <1>2 DEF Row
<1>4. SameMail(rows[r], new) /\ new.expired = rows[r].expired
  BY <1>2, <1>3 DEF Row, SameMail
<1>5. rows' = [rows EXCEPT ![r] = new]
  BY <1>1, <1>3 DEF VerifyEmail
<1>6. /\ rows' \in Seq(Row) /\ Len(rows') = Len(rows)
      /\ \A q \in Rows : SameMail(rows[q], rows'[q]) /\ rows'[q].expired = rows[q].expired
  BY <1>4, <1>5, UpdateFacts DEF IInv, SameMail
<1>7. account' \in Account /\ account'.status = "active"
  BY DEF IInv, TypeOK, VerifyEmail, Account
<1>8. job' = job /\ job \in [Worker -> Job] /\ UNCHANGED <<inbox, counts>> /\ UserFree
  BY DEF IInv, TypeOK, VerifyEmail
<1>9. QED
  BY <1>6, <1>7, <1>8, ClosingRows DEF RowsCommand

LEMMA ReplacePasswordCommand ==
  ASSUME IInv, NEW current, ReplacePassword(current), UserFree,
         account.status # "none",
         current \in Seq(Row), Len(current) = Len(rows),
         \A r \in Rows : SameMail(rows[r], current[r]) /\ current[r].expired = rows[r].expired
  PROVE RowsCommand
<1>1. account' \in Account /\ account'.status # "none"
  <2>1. account \in Account /\ account.password + 1 \in 1..MaxPassword
    BY AccountMailAssumption DEF IInv, TypeOK, ReplacePassword, Account
  <2>2. account' = [account EXCEPT !.password = account.password + 1]
    BY DEF ReplacePassword
  <2>3. QED
    BY <2>1, <2>2 DEF Account
<1>2. job' = job /\ job \in [Worker -> Job] /\ UNCHANGED <<inbox, counts>> /\ rows' = current
  BY DEF IInv, TypeOK, ReplacePassword
<1>3. QED
  BY <1>1, <1>2, ClosingRows DEF RowsCommand

LEMMA ChangePasswordCommand ==
  ASSUME IInv, ChangePassword PROVE RowsCommand
<1>1. UserFree /\ account.status # "none"
  BY DEF ChangePassword, Eligible
<1>2. PICK current : current = Closed(OpenRows("reset"))
  OBVIOUS
<1>3. /\ current \in Seq(Row) /\ Len(current) = Len(rows)
      /\ \A r \in Rows : SameMail(rows[r], current[r]) /\ current[r].expired = rows[r].expired
  BY <1>2, ClosedFacts DEF IInv
<1>4. ReplacePassword(current)
  BY <1>2 DEF ChangePassword
<1>5. QED
  BY <1>1, <1>3, <1>4, ReplacePasswordCommand

LEMMA ResetPasswordCommand ==
  ASSUME IInv, NEW link \in inbox, ResetPassword(link) PROVE RowsCommand
<1>1. PICK r \in Rows : r = link.row
  BY DEF IInv, TypeOK
<1>2. UserFree /\ account.status # "none"
  BY DEF ResetPassword, Usable, Eligible
<1>3. PICK closed : closed = Closed(OpenRows("reset"))
  OBVIOUS
<1>4. /\ closed \in Seq(Row) /\ Len(closed) = Len(rows)
      /\ \A q \in Rows : /\ SameMail(rows[q], closed[q]) /\ closed[q] \in Row
                         /\ closed[q].expired = rows[q].expired
  BY <1>3, ClosedFacts DEF IInv
<1>5. PICK new \in Row : new = [closed[r] EXCEPT !.state = "consumed"]
  <2>1. \A old \in Row : [old EXCEPT !.state = "consumed"] \in Row
    BY DEF Row
  <2>2. QED
    BY <1>4, <2>1
<1>6. SameMail(rows[r], new) /\ new.expired = rows[r].expired
  BY <1>4, <1>5 DEF Row, SameMail
<1>7. PICK current : current = [closed EXCEPT ![r] = new]
  OBVIOUS
<1>8. /\ current \in Seq(Row) /\ Len(current) = Len(rows)
      /\ \A q \in 1..Len(rows) : current[q] = IF q = r THEN new ELSE closed[q]
  BY <1>4, <1>7, ExceptSeq DEF Rows
<1>9. \A q \in Rows : SameMail(rows[q], current[q]) /\ current[q].expired = rows[q].expired
  BY <1>4, <1>6, <1>8 DEF Rows
<1>10. ReplacePassword(current)
  BY <1>1, <1>3, <1>5, <1>7 DEF ResetPassword
<1>11. QED
  BY <1>2, <1>8, <1>9, <1>10, ReplacePasswordCommand
LEMMA JobTyped ==
  ASSUME TypeOK, NEW w \in Worker
  PROVE  /\ job[w] \in Job
         /\ job[w].stage # "idle" => job[w].row \in Rows /\ job[w].row \in 1..MaxRow
         /\ Idle \in Job
BY RowsTyped DEF TypeOK, Job, Idle

LEMMA DoneJobs ==
  ASSUME TypeOK, NEW w \in Worker, Done(w)
  PROVE  /\ job' \in [Worker -> Job] /\ job'[w] = Idle
         /\ \A v \in Worker \ {w} : job'[v] = job[v]
BY JobTyped DEF TypeOK, Done

LEMMA SkipCommand ==
  ASSUME IInv, NEW w \in Worker, Skip(w) PROVE RowsCommand
<1>1. /\ job' \in [Worker -> Job] /\ \A v \in Worker : job'[v] = job[v] \/ job'[v] = Idle
  BY DoneJobs DEF IInv, Skip
<1>2. /\ UserFree /\ rows' = rows /\ account' = account /\ account \in Account
      /\ UNCHANGED <<inbox, counts>>
      /\ account.status = "none" => Len(rows) = 0
  BY DEF IInv, TypeOK, Skip
<1>3. QED
  BY <1>1, <1>2, SameRows, ClosingRows DEF RowsCommand

LEMMA DropCommand ==
  ASSUME IInv, NEW w \in Worker, Drop(w) PROVE RowsCommand
<1>1. /\ job' \in [Worker -> Job] /\ \A v \in Worker : job'[v] = job[v] \/ job'[v] = Idle
  BY DoneJobs DEF IInv, Drop
<1>2. /\ UserFree /\ account' = account /\ account \in Account
      /\ UNCHANGED <<inbox, counts>>
      /\ account.status = "none" => Len(rows) = 0
      /\ rows' = Closed({job[w].row})
  BY DEF IInv, TypeOK, Drop
<1>3. /\ rows' \in Seq(Row) /\ Len(rows') = Len(rows)
      /\ \A q \in Rows : SameMail(rows[q], rows'[q]) /\ rows'[q].expired = rows[q].expired
  BY <1>2, ClosedFacts DEF IInv
<1>4. QED
  BY <1>1, <1>2, <1>3, ClosingRows DEF RowsCommand

-----------------------------------------------------------------------------
(***************************************************************************)
(* Time: rows expire, back off and grow old whoever holds what.            *)
(***************************************************************************)

RowsAge ==
    /\ rows' \in Seq(Row) /\ Len(rows') = Len(rows)
    /\ \A r \in Rows : /\ SameMail(rows[r], rows'[r]) /\ rows'[r].state = rows[r].state
                       /\ rows[r].expired => rows'[r].expired
    /\ UNCHANGED <<account, job, inbox, counts>>

LEMMA AgeOne ==
  ASSUME TypeOK, NEW r \in Rows, NEW new \in Row, rows' = [rows EXCEPT ![r] = new],
         SameMail(rows[r], new), new.state = rows[r].state, rows[r].expired => new.expired,
         UNCHANGED <<account, job, inbox, counts>>
  PROVE  RowsAge
BY UpdateFacts DEF RowsAge, SameMail

LEMMA TimeAges ==
  ASSUME TypeOK, NEW r \in Rows, Expire(r) \/ BackOffEnds(r) \/ Ageing(r)
  PROVE  RowsAge
<1>1. rows[r] \in Row
  BY RowsTyped
<1>2. CASE Expire(r)
  <2>1. PICK new \in Row : new = [rows[r] EXCEPT !.expired = TRUE]
    BY <1>1 DEF Row
  <2>2. /\ SameMail(rows[r], new) /\ new.state = rows[r].state
        /\ rows[r].expired => new.expired
    BY <1>1, <2>1 DEF Row, SameMail
  <2>3. QED
    BY <1>2, <2>1, <2>2, AgeOne DEF Expire
<1>3. CASE BackOffEnds(r)
  <2>1. PICK new \in Row : new = [rows[r] EXCEPT !.waits = FALSE]
    BY <1>1 DEF Row
  <2>2. /\ SameMail(rows[r], new) /\ new.state = rows[r].state
        /\ rows[r].expired => new.expired
    BY <1>1, <2>1 DEF Row, SameMail
  <2>3. QED
    BY <1>3, <2>1, <2>2, AgeOne DEF BackOffEnds
<1>4. CASE Ageing(r)
  <2>1. PICK new \in Row : new = [rows[r] EXCEPT !.age = IF @ = "new" THEN "recent" ELSE "old"]
    BY <1>1 DEF Row
  <2>2. /\ SameMail(rows[r], new) /\ new.state = rows[r].state
        /\ rows[r].expired => new.expired
    BY <1>1, <2>1 DEF Row, SameMail
  <2>3. QED
    BY <1>4, <2>1, <2>2, AgeOne DEF Ageing
<1>5. QED
  BY <1>2, <1>3, <1>4

LEMMA RowsAgeStep ==
  ASSUME IInv, RowsAge
  PROVE  IInv' /\ Rows' = Rows
<1>1. Rows' = Rows
  BY DEF RowsAge, Rows
<1>2. TypeOK'
  BY <1>1 DEF IInv, TypeOK, RowsAge, counts
<1>3. OneInFlight'
  BY DEF IInv, OneInFlight, InLock, RowsAge
<1>4. ASSUME NEW w \in Worker PROVE JobHeld(w)'
  <2>1. InLock(w) => job[w].row \in Rows
    BY JobTyped DEF IInv, InLock, Locked
  <2>2. JobHeld(w) /\ (InLock(w)' <=> InLock(w))
    BY DEF IInv, InLock, RowsAge
  <2>3. QED
    BY <1>1, <2>1, <2>2 DEF JobHeld, Open, Deliverable, Bound, Eligible, RowsAge, SameMail
<1>5. ASSUME NEW r \in 1..MaxRow PROVE CopiesCounted(r)'
  <2>1. /\ Sent(r)' <=> Sent(r)
        /\ Attempts(r)' = Attempts(r)
    BY <1>1 DEF Sent, Attempts, RowsAge, SameMail
  <2>2. /\ IsAccepted(r)' <=> IsAccepted(r)
        /\ IsAnswered(r)' <=> IsAnswered(r)
    BY DEF IsAccepted, IsAnswered, RowsAge
  <2>3. QED
    BY <2>1, <2>2 DEF IInv, CopiesCounted, RowsAge, counts
<1>6. NewestOpen'
  BY <1>1 DEF IInv, NewestOpen, Open, RowsAge, SameMail
<1>7. LinksAddressed'
  <2>1. \A link \in inbox : link.row \in Rows
    BY DEF IInv, TypeOK
  <2>2. QED
    BY <2>1 DEF IInv, LinksAddressed, RowsAge, SameMail
<1>8. QED
  BY <1>1, <1>2, <1>3, <1>4, <1>5, <1>6, <1>7 DEF IInv, RowsAge

-----------------------------------------------------------------------------
(***************************************************************************)
(* A delivery.                                                             *)
(***************************************************************************)

\* One worker turns; rows and account stay.
LEMMA Turn ==
  ASSUME IInv, NEW w \in Worker, UNCHANGED <<account, rows>>,
         job' \in [Worker -> Job], \A v \in Worker \ {w} : job'[v] = job[v],
         job'[w].stage # "idle" => job'[w].row \in Rows,
         InLock(w)' => InLock(w) \/ UserFree,
         JobHeld(w)',
         inbox' \subseteq Link, \A link \in inbox' : link.row \in Rows,
         LinksAddressed',
         crashes' \in 0..MaxCrash,
         copies' \in [1..MaxRow -> Nat], unrecorded' \in [1..MaxRow -> Nat],
         \A r \in 1..MaxRow : CopiesCounted(r)'
  PROVE  IInv'
<1>1. Rows' = Rows
  BY DEF Rows
<1>2. ASSUME NEW v \in Worker
      PROVE  job'[v].stage # "idle" => job'[v].row \in Rows'
  BY <1>1 DEF IInv, TypeOK
<1>3. TypeOK'
  BY <1>1, <1>2 DEF IInv, TypeOK
<1>4. \A v \in Worker \ {w} : InLock(v)' => InLock(v)
  BY DEF InLock
<1>5. OneInFlight'
  BY <1>4 DEF IInv, OneInFlight, UserFree, InLock
<1>6. ASSUME NEW v \in Worker \ {w} PROVE JobHeld(v)'
  BY DEF IInv, JobHeld, InLock, Open, Deliverable, Bound, Eligible
<1>7. NewestOpen'
  BY <1>1 DEF IInv, NewestOpen, Open
<1>8. QED
  BY <1>3, <1>5, <1>6, <1>7 DEF IInv

\* A turn that mails nothing leaves the books as they are.
LEMMA SilentCount ==
  ASSUME IInv, NEW r \in 1..MaxRow, UNCHANGED <<rows, copies, unrecorded>>,
         crashes' \in 0..MaxCrash, crashes' >= crashes,
         IsAccepted(r)' <=> IsAccepted(r),
         IsAnswered(r) => IsAnswered(r)' \/ crashes' = crashes + 1
  PROVE  CopiesCounted(r)'
<1>1. Sent(r)' = Sent(r) /\ Attempts(r)' = Attempts(r) /\ Attempts(r) \in Nat
  BY RowsTyped DEF IInv, Sent, Attempts, Rows, Row
<1>2. /\ CopiesCounted(r) /\ copies[r] \in Nat /\ unrecorded[r] \in Nat
      /\ crashes \in Nat /\ crashes' \in Nat
  BY DEF IInv, TypeOK
<1>3. copies[r] = unrecorded[r] + (IF Sent(r) THEN 1 ELSE 0)
                               + (IF IsAccepted(r) THEN 1 ELSE 0)
  BY <1>2 DEF CopiesCounted
<1>4. copies[r] <= Attempts(r) + crashes + (IF IsAnswered(r) THEN 1 ELSE 0)
  BY <1>2 DEF CopiesCounted
<1>5. copies[r] <= Attempts(r) + crashes' + (IF IsAnswered(r)' THEN 1 ELSE 0)
  BY <1>1, <1>2, <1>4
<1>6. QED
  BY <1>1, <1>3, <1>5 DEF CopiesCounted

\* Nothing was mailed and no mail was recorded.
LEMMA SilentTurn ==
  ASSUME IInv, NEW w \in Worker, UNCHANGED <<account, rows, inbox, copies, unrecorded>>,
         job' \in [Worker -> Job], \A v \in Worker \ {w} : job'[v] = job[v],
         job'[w].stage # "idle" => job'[w].row \in Rows,
         InLock(w)' => InLock(w) \/ UserFree,
         JobHeld(w)',
         crashes' \in 0..MaxCrash, crashes' >= crashes,
         \A r \in 1..MaxRow : IsAccepted(r)' <=> IsAccepted(r),
         \A r \in 1..MaxRow : IsAnswered(r) => IsAnswered(r)' \/ crashes' = crashes + 1
  PROVE  IInv'
<1>1. /\ inbox' \subseteq Link /\ \A link \in inbox' : link.row \in Rows
      /\ LinksAddressed'
      /\ copies' \in [1..MaxRow -> Nat] /\ unrecorded' \in [1..MaxRow -> Nat]
      /\ crashes \in Nat /\ crashes' \in Nat
  BY DEF IInv, TypeOK, LinksAddressed
<1>2. ASSUME NEW r \in 1..MaxRow PROVE CopiesCounted(r)'
  BY SilentCount
<1>3. QED
  BY <1>1, <1>2, Turn

LEMMA PickStep ==
  ASSUME IInv, NEW w \in Worker, NEW r \in Rows, Pick(w, r) PROVE IInv'
<1>0. r \in 0..MaxRow
  BY RowsTyped DEF IInv
<1>1. PICK new \in Job : new = [stage |-> "picked", row |-> r]
  BY <1>0 DEF Job
<1>2. job' = [job EXCEPT ![w] = new] /\ new.stage = "picked" /\ new.row = r
  BY <1>1 DEF Pick
<1>3. /\ job' \in [Worker -> Job] /\ \A v \in Worker \ {w} : job'[v] = job[v]
      /\ job'[w] = new
  BY <1>2 DEF IInv, TypeOK
<1>4. job[w].stage = "idle"
  BY DEF Pick, Idle
<1>5. \A q : (IsAccepted(q)' <=> IsAccepted(q)) /\ (IsAnswered(q)' <=> IsAnswered(q))
  BY <1>2, <1>3, <1>4 DEF IsAccepted, IsAnswered
<1>6. ~InLock(w)'
  BY <1>2, <1>3 DEF InLock, Locked
<1>7. /\ UNCHANGED <<account, rows, inbox, copies, unrecorded>>
      /\ crashes' \in 0..MaxCrash /\ crashes' >= crashes
  BY DEF Pick, counts, IInv, TypeOK
<1>8. QED
  BY <1>2, <1>3, <1>5, <1>6, <1>7, SilentTurn DEF JobHeld

LEMMA StageChange ==
  ASSUME TypeOK, NEW w \in Worker, NEW s \in Locked, job[w].stage # "idle",
         job' = [job EXCEPT ![w].stage = s]
  PROVE  /\ job' \in [Worker -> Job] /\ \A v \in Worker \ {w} : job'[v] = job[v]
         /\ job'[w].stage = s /\ job'[w].row = job[w].row /\ job'[w].row \in Rows
BY JobTyped DEF TypeOK, Job

LEMMA BeginStep ==
  ASSUME IInv, NEW w \in Worker, Begin(w) PROVE IInv'
<1>1. /\ job' \in [Worker -> Job] /\ \A v \in Worker \ {w} : job'[v] = job[v]
      /\ job'[w].stage = "sending" /\ job'[w].row = job[w].row /\ job'[w].row \in Rows
  BY StageChange DEF IInv, Begin, Locked
<1>2. job[w].stage = "picked" /\ UserFree /\ Due(job[w].row) /\ Deliverable(job[w].row)
  BY DEF Begin, MayDeliver, StillDue
<1>3. \A q : (IsAccepted(q)' <=> IsAccepted(q)) /\ (IsAnswered(q)' <=> IsAnswered(q))
  BY <1>1, <1>2 DEF IsAccepted, IsAnswered
<1>4. /\ UNCHANGED <<account, rows, inbox, copies, unrecorded>>
      /\ crashes' \in 0..MaxCrash /\ crashes' >= crashes
  BY DEF Begin, counts, IInv, TypeOK
<1>5. JobHeld(w)'
  BY <1>1, <1>2, <1>4 DEF JobHeld, Due, Open, Deliverable, Bound, Eligible
<1>6. QED
  BY <1>1, <1>2, <1>3, <1>4, <1>5, SilentTurn

LEMMA RefuseStep ==
  ASSUME IInv, NEW w \in Worker, Refuse(w) PROVE IInv'
<1>1. /\ job' \in [Worker -> Job] /\ \A v \in Worker \ {w} : job'[v] = job[v]
      /\ job'[w].stage = "refused" /\ job'[w].row = job[w].row /\ job'[w].row \in Rows
  BY StageChange DEF IInv, Refuse, Locked
<1>2. job[w].stage = "sending" /\ InLock(w) /\ JobHeld(w)
  BY DEF Refuse, InLock, Locked, IInv
<1>3. \A q : (IsAccepted(q)' <=> IsAccepted(q)) /\ (IsAnswered(q) => IsAnswered(q)')
  BY <1>1, <1>2 DEF IsAccepted, IsAnswered
<1>4. /\ UNCHANGED <<account, rows, inbox, copies, unrecorded>>
      /\ crashes' \in 0..MaxCrash /\ crashes' >= crashes
  BY DEF Refuse, counts, IInv, TypeOK
<1>5. JobHeld(w)'
  BY <1>1, <1>2, <1>4 DEF JobHeld, Open
<1>6. QED
  BY <1>1, <1>2, <1>3, <1>4, <1>5, SilentTurn

\* The worker that sends is the only one that holds anything.
LEMMA NobodyElse ==
  ASSUME IInv, NEW w \in Worker, InLock(w)
  PROVE  /\ \A r : IsAnswered(r) <=> job[w].stage \in {"accepted", "refused"} /\ job[w].row = r
         /\ \A r : IsAccepted(r) <=> job[w].stage = "accepted" /\ job[w].row = r
         /\ \A v \in Worker \ {w} : ~InLock(v)
BY DEF IInv, OneInFlight, InLock, Locked, IsAccepted, IsAnswered

LEMMA TransmitStep ==
  ASSUME IInv, NEW w \in Worker, Accept(w) \/ LoseReply(w) PROVE IInv'
<1>1. PICK r \in 1..MaxRow : r = job[w].row /\ r \in Rows
  BY JobTyped DEF IInv, Accept, LoseReply, Transmit
<1>2. job[w].stage = "sending" /\ InLock(w) /\ JobHeld(w)
  BY DEF Accept, LoseReply, Transmit, InLock, Locked, IInv
<1>3. PICK s \in {"accepted", "refused"} :
        /\ job' = [job EXCEPT ![w].stage = s]
        /\ s = "accepted" => unrecorded' = unrecorded
        /\ s = "refused" => unrecorded' = [unrecorded EXCEPT ![r] = @ + 1]
  BY <1>1 DEF Accept, LoseReply
<1>4. /\ job' \in [Worker -> Job] /\ \A v \in Worker \ {w} : job'[v] = job[v]
      /\ job'[w].stage = s /\ job'[w].row = r
  BY <1>1, <1>2, <1>3, StageChange DEF IInv, Locked
<1>5. /\ UNCHANGED <<account, rows, crashes>>
      /\ copies' = [copies EXCEPT ![r] = @ + 1]
      /\ inbox' = inbox \cup {LinkOf(r)}
  BY <1>1 DEF Accept, LoseReply, Transmit
<1>6. /\ copies \in [1..MaxRow -> Nat] /\ unrecorded \in [1..MaxRow -> Nat]
      /\ crashes \in 0..MaxCrash
  BY DEF IInv, TypeOK
<1>7. copies' \in [1..MaxRow -> Nat] /\ unrecorded' \in [1..MaxRow -> Nat]
  <2>1. copies' \in [1..MaxRow -> Nat]
    BY <1>5, <1>6
  <2>2. unrecorded' = unrecorded \/ unrecorded' = [unrecorded EXCEPT ![r] = @ + 1]
    BY <1>1 DEF Accept, LoseReply
  <2>3. [unrecorded EXCEPT ![r] = @ + 1] \in [1..MaxRow -> Nat]
    BY <1>6
  <2>4. QED
    BY <1>6, <2>1, <2>2, <2>3
<1>8. /\ LinkOf(r) \in Link /\ LinkOf(r).row = r
      /\ rows[r].kind = "verify" => LinkOf(r).to = rows[r].email
  BY <1>1, RowsTyped DEF IInv, TypeOK, LinkOf, Link, Account, Row
<1>9. /\ inbox' \subseteq Link /\ \A link \in inbox' : link.row \in Rows
      /\ LinksAddressed'
  BY <1>1, <1>5, <1>8 DEF IInv, TypeOK, LinksAddressed
<1>10. JobHeld(w)'
  BY <1>1, <1>2, <1>4, <1>5 DEF JobHeld, Open
<1>11. InLock(w)'
  BY <1>4 DEF InLock, Locked
<1>12. ASSUME NEW q \in 1..MaxRow PROVE CopiesCounted(q)'
  <2>1. Sent(q)' = Sent(q) /\ Attempts(q)' = Attempts(q) /\ Attempts(q) \in Nat
    BY <1>5, RowsTyped DEF IInv, Sent, Attempts, Rows, Row
  <2>2. CopiesCounted(q) /\ copies[q] \in Nat /\ unrecorded[q] \in Nat
    BY DEF IInv, TypeOK
  <2>3. ~IsAccepted(q) /\ ~IsAnswered(q)
    BY <1>2, NobodyElse
  <2>4. /\ IsAnswered(q)' <=> q = r
        /\ IsAccepted(q)' <=> q = r /\ s = "accepted"
    <3>1. \A v \in Worker \ {w} : job'[v].stage \notin {"accepted", "refused"}
      BY <1>2, <1>4, NobodyElse DEF InLock, Locked
    <3>2. QED
      BY <1>4, <3>1 DEF IsAnswered, IsAccepted
  <2>5. crashes' = crashes /\ crashes \in Nat
    BY <1>5, <1>6
  <2>6. CASE q # r
    <3>1. copies'[q] = copies[q] /\ unrecorded'[q] = unrecorded[q]
      BY <1>3, <1>5, <1>6, <2>6
    <3>2. QED
      BY <2>1, <2>2, <2>3, <2>4, <2>5, <2>6, <3>1 DEF CopiesCounted
  <2>7. CASE q = r
    <3>1. /\ copies'[q] = copies[q] + 1
          /\ s = "accepted" => unrecorded'[q] = unrecorded[q]
          /\ s = "refused" => unrecorded'[q] = unrecorded[q] + 1
      BY <1>3, <1>5, <1>6, <2>7
    <3>2. QED
      BY <2>1, <2>2, <2>3, <2>4, <2>5, <2>7, <3>1 DEF CopiesCounted
  <2>8. QED
    BY <2>6, <2>7
<1>13. QED
  BY <1>1, <1>2, <1>4, <1>5, <1>6, <1>7, <1>9, <1>10, <1>12, Turn
LEMMA AfterDone ==
  ASSUME IInv, NEW w \in Worker, InLock(w), Done(w)
  PROVE  /\ \A v \in Worker : ~InLock(v)'
         /\ \A r : ~IsAccepted(r)' /\ ~IsAnswered(r)'
<1>1. job'[w].stage = "idle" /\ \A v \in Worker \ {w} : job'[v] = job[v]
  BY DoneJobs DEF IInv, Idle
<1>2. \A v \in Worker : ~InLock(v)'
  BY <1>1, NobodyElse DEF InLock, Locked
<1>3. QED
  BY <1>2 DEF IsAccepted, IsAnswered, InLock, Locked

\* What Save writes.
LEMMA SaveWrites ==
  ASSUME IInv, NEW w \in Worker, Save(w)
  PROVE  /\ InLock(w) /\ job[w].row \in Rows /\ JobHeld(w)
         /\ Recorded(w) \in Row
         /\ Recorded(w).attempts = rows[job[w].row].attempts + 1
         /\ Recorded(w).sent <=> job[w].stage = "accepted"
         /\ Recorded(w).kind = rows[job[w].row].kind
         /\ Recorded(w).email = rows[job[w].row].email
         /\ Recorded(w).state = rows[job[w].row].state
         /\ Recorded(w).expired = rows[job[w].row].expired
<1>1. /\ job[w].stage \in {"accepted", "refused"} /\ InLock(w) /\ job[w].row \in Rows
      /\ JobHeld(w)
  BY JobTyped DEF IInv, Save, InLock, Locked
<1>2. rows[job[w].row] \in Row /\ rows[job[w].row].attempts < MaxAttempts
  BY <1>1, RowsTyped DEF IInv, JobHeld
<1>3. PICK old \in Row : old = rows[job[w].row] /\ old.attempts < MaxAttempts
  BY <1>2
<1>4. PICK b \in BOOLEAN : b = (job[w].stage = "accepted")
  OBVIOUS
<1>5. PICK c \in BOOLEAN : c = (job[w].stage = "refused")
  OBVIOUS
<1>6. Recorded(w) = [old EXCEPT !.attempts = @ + 1, !.sent = b, !.waits = c]
  BY <1>3, <1>4, <1>5 DEF Recorded
<1>7. old.attempts + 1 \in 0..MaxAttempts
  BY <1>3 DEF Row
<1>8. /\ [old EXCEPT !.attempts = @ + 1, !.sent = b, !.waits = c] \in Row
      /\ [old EXCEPT !.attempts = @ + 1, !.sent = b, !.waits = c].attempts = old.attempts + 1
      /\ [old EXCEPT !.attempts = @ + 1, !.sent = b, !.waits = c].sent = b
      /\ [old EXCEPT !.attempts = @ + 1, !.sent = b, !.waits = c].kind = old.kind
      /\ [old EXCEPT !.attempts = @ + 1, !.sent = b, !.waits = c].email = old.email
      /\ [old EXCEPT !.attempts = @ + 1, !.sent = b, !.waits = c].state = old.state
      /\ [old EXCEPT !.attempts = @ + 1, !.sent = b, !.waits = c].expired = old.expired
  BY <1>7 DEF Row
<1>9. QED
  BY <1>1, <1>3, <1>4, <1>6, <1>8

LEMMA SaveStep ==
  ASSUME IInv, NEW w \in Worker, Save(w) PROVE IInv'
<1>1. PICK r \in Rows : r = job[w].row
  BY SaveWrites
<1>2. PICK new \in Row : new = Recorded(w)
  BY SaveWrites
<1>3. /\ InLock(w) /\ JobHeld(w) /\ new.attempts = rows[r].attempts + 1
      /\ new.sent <=> job[w].stage = "accepted"
      /\ new.kind = rows[r].kind /\ new.email = rows[r].email /\ new.state = rows[r].state
  BY <1>1, <1>2, SaveWrites
<1>4. /\ rows' = [rows EXCEPT ![r] = new] /\ Done(w)
      /\ UNCHANGED <<account, inbox, crashes, copies, unrecorded>>
      /\ job[w].stage \in {"accepted", "refused"}
  BY <1>1, <1>2 DEF Save, counts
<1>5. /\ rows' \in Seq(Row) /\ Len(rows') = Len(rows) /\ rows'[r] = new
      /\ \A q \in Rows \ {r} : rows'[q] = rows[q]
      /\ Rows' = Rows
  BY <1>4, UpdateFacts DEF IInv, Rows
<1>6. /\ \A v \in Worker : ~InLock(v)'
      /\ \A q : ~IsAccepted(q)' /\ ~IsAnswered(q)'
  BY <1>3, <1>4, AfterDone
<1>7. /\ job' \in [Worker -> Job] /\ job'[w] = Idle
      /\ \A v \in Worker \ {w} : job'[v] = job[v]
  BY <1>4, DoneJobs DEF IInv
<1>8. TypeOK'
  <2>1. \A v \in Worker : job'[v].stage # "idle" => job'[v].row \in Rows'
    <3>1. \A v \in Worker \ {w} : job[v].stage # "idle" => job[v].row \in Rows
      BY DEF IInv, TypeOK
    <3>2. job'[w].stage = "idle"
      BY <1>7 DEF Idle
    <3>3. QED
      BY <1>5, <1>7, <3>1, <3>2
  <2>2. QED
    BY <1>4, <1>5, <1>7, <2>1 DEF IInv, TypeOK
<1>9. OneInFlight' /\ \A v \in Worker : JobHeld(v)'
  BY <1>6 DEF OneInFlight, JobHeld
<1>10. ASSUME NEW q \in Rows
       PROVE  rows'[q].kind = rows[q].kind /\ rows'[q].email = rows[q].email
                /\ rows'[q].state = rows[q].state
  BY <1>3, <1>5
<1>11. NewestOpen'
  BY <1>5, <1>10 DEF IInv, NewestOpen, Open
<1>12. LinksAddressed'
  <2>1. \A link \in inbox : link.row \in Rows
    BY DEF IInv, TypeOK
  <2>2. QED
    BY <1>4, <1>10, <2>1 DEF IInv, LinksAddressed
<1>13. ASSUME NEW q \in 1..MaxRow PROVE CopiesCounted(q)'
  <2>1. CopiesCounted(q) /\ copies[q] \in Nat /\ unrecorded[q] \in Nat /\ crashes \in Nat
    BY DEF IInv, TypeOK
  <2>2. ~IsAccepted(q)' /\ ~IsAnswered(q)'
    BY <1>6
  <2>3. CASE q = r
    <3>1. rows[r].attempts \in Nat
      BY RowsTyped DEF IInv, Row
    <3>2. ~Sent(q) /\ Attempts(q) = rows[r].attempts
      BY <1>1, <1>3, <2>3 DEF Sent, Attempts, JobHeld
    <3>3. /\ Sent(q)' <=> job[w].stage = "accepted"
          /\ Attempts(q)' = rows[r].attempts + 1
      BY <1>3, <1>5, <2>3 DEF Sent, Attempts
    <3>4. /\ ~Sent(q) /\ Attempts(q) = rows[r].attempts /\ rows[r].attempts \in Nat
          /\ Sent(q)' <=> job[w].stage = "accepted"
          /\ Attempts(q)' = rows[r].attempts + 1
      BY <3>1, <3>2, <3>3
    <3>5. /\ IsAnswered(q)
          /\ IsAccepted(q) <=> job[w].stage = "accepted"
      BY <1>1, <1>3, <1>4, <2>3, NobodyElse
    <3>6. QED
      BY <1>4, <2>1, <2>2, <3>4, <3>5 DEF CopiesCounted
  <2>4. CASE q # r
    <3>1. Sent(q)' = Sent(q) /\ Attempts(q)' = Attempts(q) /\ Attempts(q) \in Nat
      <4>1. (q \in Rows' <=> q \in Rows) /\ (q \in Rows => rows'[q] = rows[q])
        BY <1>5, <2>4
      <4>2. q \in Rows => rows[q].attempts \in Nat
        BY RowsTyped DEF IInv, Row
      <4>3. QED
        BY <4>1, <4>2 DEF Sent, Attempts
    <3>2. ~IsAccepted(q) /\ ~IsAnswered(q)
      BY <1>1, <1>3, <2>4, NobodyElse
    <3>3. QED
      BY <1>4, <2>1, <2>2, <3>1, <3>2 DEF CopiesCounted
  <2>5. QED
    BY <2>3, <2>4
<1>14. QED
  BY <1>4, <1>5, <1>8, <1>9, <1>11, <1>12, <1>13 DEF IInv

LEMMA CrashStep ==
  ASSUME IInv, NEW w \in Worker, Crash(w) PROVE IInv'
<1>1. /\ UNCHANGED <<account, rows, inbox, copies>> /\ Done(w)
      /\ crashes' = crashes + 1 /\ crashes' \in 0..MaxCrash /\ crashes \in Nat
  BY DEF Crash, IInv, TypeOK
<1>2. /\ job' \in [Worker -> Job] /\ job'[w] = Idle /\ Idle.stage = "idle"
      /\ \A v \in Worker \ {w} : job'[v] = job[v]
  BY <1>1, DoneJobs DEF IInv, Idle
<1>3. ~InLock(w)' /\ JobHeld(w)'
  BY <1>2 DEF InLock, Locked, JobHeld
<1>4. CASE job[w].stage # "accepted"
  <2>1. \A r \in 1..MaxRow : IsAccepted(r)' <=> IsAccepted(r)
    BY <1>2, <1>4 DEF IsAccepted
  <2>2. unrecorded' = unrecorded
    BY <1>4 DEF Crash
  <2>3. QED
    BY <1>1, <1>2, <1>3, <2>1, <2>2, SilentTurn
<1>5. CASE job[w].stage = "accepted"
  <2>1. PICK r \in 1..MaxRow : r = job[w].row
    BY <1>5, JobTyped DEF IInv
  <2>2. InLock(w)
    BY <1>5 DEF InLock, Locked
  <2>3. unrecorded' = [unrecorded EXCEPT ![r] = @ + 1]
    BY <1>5, <2>1 DEF Crash
  <2>4. unrecorded \in [1..MaxRow -> Nat] /\ copies \in [1..MaxRow -> Nat]
    BY DEF IInv, TypeOK
  <2>5. unrecorded' \in [1..MaxRow -> Nat]
    BY <2>3, <2>4
  <2>6. ASSUME NEW q \in 1..MaxRow PROVE CopiesCounted(q)'
    <3>1. CopiesCounted(q)
      BY DEF IInv
    <3>2. /\ CopiesCounted(q) /\ copies[q] \in Nat /\ unrecorded[q] \in Nat
          /\ unrecorded'[q] = IF q = r THEN unrecorded[q] + 1 ELSE unrecorded[q]
      BY <2>3, <2>4, <3>1
    <3>3. Sent(q)' = Sent(q) /\ Attempts(q)' = Attempts(q) /\ Attempts(q) \in Nat
      BY <1>1, RowsTyped DEF IInv, Sent, Attempts, Rows, Row
    <3>4. /\ ~IsAccepted(q)' /\ ~IsAnswered(q)'
          /\ IsAccepted(q) <=> q = r
      BY <1>1, <1>5, <2>1, <2>2, AfterDone, NobodyElse
    <3>5. QED
      BY <1>1, <3>2, <3>3, <3>4 DEF CopiesCounted
  <2>7. inbox' \subseteq Link /\ (\A link \in inbox' : link.row \in Rows) /\ LinksAddressed'
    BY <1>1 DEF IInv, TypeOK, LinksAddressed
  <2>8. copies' \in [1..MaxRow -> Nat]
    BY <1>1, <2>4
  <2>9. QED
    BY <1>1, <1>2, <1>3, <2>5, <2>6, <2>7, <2>8, Turn
<1>6. QED
  BY <1>4, <1>5

-----------------------------------------------------------------------------

LEMMA InitIInv == Init => IInv
<1> SUFFICES ASSUME Init PROVE IInv
  OBVIOUS
<1>1. rows \in Seq(Row) /\ Len(rows) = 0 /\ Rows = {}
  BY EmptySeq DEF Init, Rows
<1>2. \A w \in Worker : job[w] = Idle /\ Idle.stage = "idle" /\ Idle \in Job
  BY DEF Init, Idle, Job
<1>3. TypeOK
  BY <1>1, <1>2 DEF Init, TypeOK
<1>4. \A w \in Worker : ~InLock(w)
  BY <1>2 DEF InLock, Locked
<1>5. OneInFlight /\ \A w \in Worker : JobHeld(w)
  BY <1>4 DEF OneInFlight, JobHeld
<1>6. ASSUME NEW r \in 1..MaxRow PROVE CopiesCounted(r)
  <2>1. ~Sent(r) /\ Attempts(r) = 0 /\ ~IsAccepted(r) /\ ~IsAnswered(r)
    BY <1>1, <1>2 DEF Sent, Attempts, IsAccepted, IsAnswered
  <2>2. QED
    BY <2>1 DEF CopiesCounted, Init
<1>7. NewestOpen /\ LinksAddressed
  BY <1>1 DEF NewestOpen, LinksAddressed, Init
<1>8. QED
  BY <1>1, <1>3, <1>5, <1>6, <1>7 DEF IInv

LEMMA CommandStep == IInv /\ Command => RowsCommand
<1> SUFFICES ASSUME IInv, Command PROVE RowsCommand
  OBVIOUS
<1>1. CASE Register \/ CreateUser \/ ChangePassword
  BY <1>1, RegisterCommand, AccountCommand, ChangePasswordCommand
<1>2. ASSUME NEW kind \in Kind, RequestLink(kind) PROVE RowsCommand
  BY <1>2, RequestLinkCommand
<1>3. ASSUME NEW link \in inbox, VerifyEmail(link) \/ ResetPassword(link) PROVE RowsCommand
  BY <1>3, VerifyEmailCommand, ResetPasswordCommand
<1>4. QED
  BY <1>1, <1>2, <1>3 DEF Command

LEMMA StepIInv == IInv /\ [Next]_vars => IInv'
<1> SUFFICES ASSUME IInv, [Next]_vars PROVE IInv'
  OBVIOUS
<1>1. CASE Command \/ Administer
  BY <1>1, CommandStep, AccountCommand, RowsCommandStep
<1>2. CASE Take
  BY <1>2, PickStep DEF Take
<1>3. ASSUME NEW w \in Worker, Look(w) PROVE IInv'
  BY <1>3, SkipCommand, DropCommand, RowsCommandStep, BeginStep DEF Look
<1>4. ASSUME NEW w \in Worker, Talk(w) \/ Save(w) \/ Crash(w) PROVE IInv'
  BY <1>4, TransmitStep, RefuseStep, SaveStep, CrashStep DEF Talk
<1>5. ASSUME NEW r \in Rows, Expire(r) \/ BackOffEnds(r) \/ Ageing(r) PROVE IInv'
  BY <1>5, TimeAges, RowsAgeStep DEF IInv
<1>6. CASE UNCHANGED vars
  <2>1. RowsAge
    BY <1>6 DEF vars, IInv, TypeOK, RowsAge, SameMail
  <2>2. QED
    BY <2>1, RowsAgeStep
<1>7. QED
  BY <1>1, <1>2, <1>3, <1>4, <1>5, <1>6 DEF Next

\* The user lock, held through the SMTP dialogue, keeps what was checked.
THEOREM UserLockHolds == Spec => []IInv
BY InitIInv, StepIInv, PTL DEF Spec

\* Types, for every number of workers and links.
THEOREM TypeCorrect == Spec => []TypeOK
<1>1. IInv => TypeOK
  BY DEF IInv
<1>2. QED
  BY <1>1, UserLockHolds, PTL

LEMMA NewestIsOnlyOpen == IInv => OneOpenPerKind
<1> SUFFICES ASSUME IInv, NEW kind \in Kind, NEW q \in OpenRows(kind), NEW r \in OpenRows(kind)
             PROVE  q = r
  BY DEF OneOpenPerKind
<1>1. q \in Nat /\ r \in Nat
  BY RowsTyped DEF IInv, OpenRows, Rows
<1>2. ~(q < r) /\ ~(r < q)
  BY DEF IInv, NewestOpen, OpenRows
<1>3. QED
  BY <1>1, <1>2

\* The partial unique indexes are never hit by the commands themselves.
THEOREM OneOpenLink == Spec => []OneOpenPerKind
BY NewestIsOnlyOpen, UserLockHolds, PTL

LEMMA CountedIsRecorded == IInv => DeliveriesRecorded /\ CopiesBounded
<1> SUFFICES ASSUME IInv, NEW r \in Rows
             PROVE  /\ Cardinality(Accepting(r)) <= 1
                    /\ copies[r] = unrecorded[r] + (IF rows[r].sent THEN 1 ELSE 0)
                                                 + Cardinality(Accepting(r))
                    /\ copies[r] <= MaxAttempts + crashes
  BY DEF DeliveriesRecorded, CopiesBounded
<1>1. r \in 1..MaxRow /\ rows[r] \in Row
  BY RowsTyped DEF IInv
<1>2. /\ CopiesCounted(r) /\ copies[r] \in Nat /\ unrecorded[r] \in Nat /\ crashes \in Nat
      /\ Sent(r) = rows[r].sent
      /\ Attempts(r) = rows[r].attempts /\ rows[r].attempts \in 0..MaxAttempts
  <2>1. CopiesCounted(r)
    BY <1>1 DEF IInv
  <2>2. copies[r] \in Nat /\ unrecorded[r] \in Nat /\ crashes \in Nat
    BY <1>1, AccountMailAssumption DEF IInv, TypeOK
  <2>3. rows[r].sent \in BOOLEAN /\ rows[r].attempts \in 0..MaxAttempts
    BY <1>1 DEF Row
  <2>4. Sent(r) = rows[r].sent /\ Attempts(r) = rows[r].attempts
    BY <2>3 DEF Sent, Attempts
  <2>5. QED
    BY <2>1, <2>2, <2>3, <2>4
<1>3. \A w \in Worker : w \in Accepting(r) <=> job[w].stage = "accepted" /\ job[w].row = r
  BY DEF Accepting, IInv, TypeOK, Job
<1>4. CASE IsAccepted(r)
  <2>1. PICK w \in Worker : job[w].stage = "accepted" /\ job[w].row = r
    BY <1>4 DEF IsAccepted
  <2>2. Accepting(r) = {w}
    <3>1. \A v \in Accepting(r) : v \in Worker
      BY DEF Accepting
    <3>2. QED
      BY <1>3, <2>1, <3>1 DEF IInv, OneInFlight, InLock, Locked
  <2>3. Cardinality(Accepting(r)) = 1
    BY <2>2, FS_Singleton
  <2>4. rows[r].attempts < MaxAttempts
    BY <2>1 DEF IInv, JobHeld, InLock, Locked
  <2>5. QED
    BY <1>2, <1>4, <2>3, <2>4 DEF CopiesCounted
<1>5. CASE ~IsAccepted(r)
  <2>1. Accepting(r) = {}
    BY <1>3, <1>5 DEF IsAccepted, Accepting
  <2>2. Cardinality(Accepting(r)) = 0
    BY <2>1, FS_EmptySet
  <2>3. IsAnswered(r) => rows[r].attempts < MaxAttempts
    BY DEF IInv, IsAnswered, JobHeld, InLock, Locked
  <2>4. QED
    BY <1>2, <1>5, <2>2, <2>3 DEF CopiesCounted
<1>6. QED
  BY <1>4, <1>5

\* deliver_verification_email and deliver_password_reset mail a row twice only
\* when the record of the first mail was lost.
THEOREM MailRecorded == Spec => []DeliveriesRecorded
<1>1. IInv => DeliveriesRecorded
  BY CountedIsRecorded
<1>2. QED
  BY <1>1, UserLockHolds, PTL

\* A row is mailed at most once for every attempt and every lost transaction.
THEOREM MailBounded == Spec => []CopiesBounded
<1>1. IInv => CopiesBounded
  BY CountedIsRecorded
<1>2. QED
  BY <1>1, UserLockHolds, PTL
-----------------------------------------------------------------------------
(***************************************************************************)
(* What a step may do.                                                     *)
(***************************************************************************)

LEMMA OnlyTransmitMails ==
  ASSUME [Next]_vars, \A w \in Worker : ~Accept(w) /\ ~LoseReply(w)
  PROVE  inbox' = inbox
<1>1. CASE Command \/ Administer \/ Take
  BY <1>1 DEF Command, Register, CreateUser, ChangePassword, RequestLink, VerifyEmail,
              ResetPassword, ReplacePassword, Administer, Take, Pick
<1>2. ASSUME NEW w \in Worker, Look(w) \/ Talk(w) \/ Save(w) \/ Crash(w) PROVE inbox' = inbox
  BY <1>2 DEF Look, Skip, Drop, Begin, Talk, Refuse, Save, Crash
<1>3. ASSUME NEW r \in Rows, Expire(r) \/ BackOffEnds(r) \/ Ageing(r) PROVE inbox' = inbox
  BY <1>3 DEF Expire, BackOffEnds, Ageing
<1>4. CASE UNCHANGED vars
  BY <1>4 DEF vars
<1>5. QED
  BY <1>1, <1>2, <1>3, <1>4 DEF Next

LEMMA TransmitIsToOwner ==
  ASSUME IInv, [Next]_vars, NEW link \in inbox' \ inbox
  PROVE  /\ link.to = account.email
         /\ link.password = account.password
         /\ Open(link.row)
         /\ Eligible(rows[link.row].kind)
<1>1. PICK w \in Worker : Accept(w) \/ LoseReply(w)
  BY OnlyTransmitMails
<1>2. PICK r \in Rows : r = job[w].row
  BY <1>1, JobTyped DEF Accept, LoseReply, Transmit, IInv
<1>3. link = LinkOf(r) /\ job[w].stage = "sending"
  BY <1>1, <1>2 DEF Accept, LoseReply, Transmit
<1>4. Open(r) /\ Deliverable(r)
  BY <1>2, <1>3 DEF IInv, JobHeld, InLock, Locked
<1>5. /\ link.row = r
      /\ link.to = IF rows[r].kind = "verify" THEN rows[r].email ELSE account.email
      /\ link.password = IF rows[r].kind = "verify" THEN account.password
                         ELSE rows[r].credential
  BY <1>3 DEF LinkOf
<1>6. rows[r].kind \in {"verify", "reset"}
  BY <1>2, RowsTyped DEF IInv, Row, Kind
<1>7. QED
  BY <1>4, <1>5, <1>6 DEF Deliverable, Bound

\* A mail leaves for the account as it is: nothing slips between the check and
\* the SMTP dialogue.
THEOREM OwnerIsMailed == Spec => MailGoesToOwner
<1>1. IInv /\ [Next]_vars =>
        \A link \in inbox' \ inbox :
           /\ link.to = account.email
           /\ link.password = account.password
           /\ Open(link.row)
           /\ Eligible(rows[link.row].kind)
  BY TransmitIsToOwner
<1>2. QED
  BY <1>1, UserLockHolds, PTL DEF Spec, MailGoesToOwner

LEMMA OnlyVerifyEmailVerifies ==
  ASSUME TypeOK, [Next]_vars, \A link \in inbox : ~VerifyEmail(link)
  PROVE  account'.verified = account.verified
<1>1. /\ account \in Account
      /\ \A s : [account EXCEPT !.status = s].verified = account.verified
      /\ \A a : [account EXCEPT !.email = a].verified = account.verified
      /\ [account EXCEPT !.password = @ + 1].verified = account.verified
  BY DEF TypeOK, Account
<1>2. CASE Command
  BY <1>1, <1>2 DEF Command, Register, CreateUser, ChangePassword, RequestLink,
                    ResetPassword, ReplacePassword
<1>3. CASE Administer
  BY <1>1, <1>3 DEF Administer
<1>4. CASE Take
  BY <1>4 DEF Take, Pick
<1>5. ASSUME NEW w \in Worker, Look(w) \/ Talk(w) \/ Save(w) \/ Crash(w)
      PROVE  account' = account
  BY <1>5 DEF Look, Skip, Drop, Begin, Talk, Accept, LoseReply, Transmit, Refuse, Save, Crash
<1>6. ASSUME NEW r \in Rows, Expire(r) \/ BackOffEnds(r) \/ Ageing(r)
      PROVE  account' = account
  BY <1>6 DEF Expire, BackOffEnds, Ageing
<1>7. CASE UNCHANGED vars
  BY <1>7 DEF vars
<1>8. QED
  BY <1>2, <1>3, <1>4, <1>5, <1>6, <1>7 DEF Next

LEMMA VerifyingLinkIsNewest ==
  ASSUME IInv, [Next]_vars, ~account.verified, account'.verified
  PROVE  \E link \in inbox :
            /\ link.to = account'.email
            /\ link.password = account.password
            /\ \A r \in Rows : rows[r].kind = "verify" => r <= link.row
            /\ rows[link.row].kind = "verify"
<1>1. PICK link \in inbox : VerifyEmail(link)
  BY OnlyVerifyEmailVerifies DEF IInv
<1>2. link.row \in Rows /\ account \in Account
  BY DEF IInv, TypeOK
<1>3. /\ rows[link.row].kind = "verify" /\ Open(link.row)
      /\ link.password = account.password /\ rows[link.row].email = account.email
  BY <1>1 DEF VerifyEmail, Verifies, Usable
<1>4. account'.email = account.email
  BY <1>1, <1>2 DEF VerifyEmail, Account
<1>5. link.to = rows[link.row].email
  BY <1>3 DEF IInv, LinksAddressed
<1>6. ASSUME NEW r \in Rows, rows[r].kind = "verify" PROVE r <= link.row
  <2>1. ~(link.row < r)
    BY <1>2, <1>3, <1>6 DEF IInv, NewestOpen
  <2>2. r \in Nat /\ link.row \in Nat
    BY <1>2, RowsTyped DEF IInv, Rows
  <2>3. QED
    BY <2>1, <2>2
<1>7. QED
  BY <1>3, <1>4, <1>5, <1>6

\* verify_email: only the newest link, sent to the address the account has and
\* signed under the password it has, verifies the address.
THEOREM OnlyNewestVerifies == Spec => NewestLinkVerifies
<1>1. IInv /\ [Next]_vars =>
        (~account.verified /\ account'.verified =>
          \E link \in inbox :
             /\ link.to = account'.email
             /\ link.password = account.password
             /\ \A r \in Rows : rows[r].kind = "verify" => r <= link.row
             /\ rows[link.row].kind = "verify")
  BY VerifyingLinkIsNewest
<1>2. QED
  BY <1>1, UserLockHolds, PTL DEF Spec, NewestLinkVerifies

-----------------------------------------------------------------------------
(***************************************************************************)
(* The refinement: the two tables are an outbox.                           *)
(***************************************************************************)

LEMMA InitBox == Init => Box!Init
<1> SUFFICES ASSUME Init PROVE Box!Init
  OBVIOUS
<1>1. Rows = {}
  BY DEF Init, Rows
<1>2. [r \in 1..MaxRow |-> QueueState(r)] = [r \in 1..MaxRow |-> "absent"]
  BY <1>1 DEF QueueState
<1>3. QED
  BY <1>2 DEF Init, Box!Init

Closes(r) == QueueState(r) \in {"queued", "delivered"} /\ QueueState(r)' = "closed"
Queues(r) == QueueState(r) = "absent" /\ QueueState(r)' = "queued"

\* Rows may be closed and queued in one step.
LEMMA QueueMoves ==
  ASSUME copies' = copies,
         \A r \in 1..MaxRow : QueueState(r)' = QueueState(r) \/ Closes(r) \/ Queues(r)
  PROVE  [Box!Next]_(Box!vars)
<1>1. PICK closed \in SUBSET (1..MaxRow) : closed = {r \in 1..MaxRow : Closes(r)}
  OBVIOUS
<1>2. PICK new \in SUBSET (1..MaxRow) : new = {r \in 1..MaxRow : Queues(r)}
  OBVIOUS
<1>3. \A r \in closed : QueueState(r) \in {"queued", "delivered"}
  BY <1>1 DEF Closes
<1>4. \A r \in new : QueueState(r) = "absent"
  BY <1>2 DEF Queues
<1>5. \A r \in 1..MaxRow :
        QueueState(r)' = IF r \in closed THEN "closed"
                         ELSE IF r \in new THEN "queued" ELSE QueueState(r)
  BY <1>1, <1>2 DEF Closes, Queues
<1>6. Box!Replace(closed, new)
  BY <1>3, <1>4, <1>5 DEF Box!Replace
<1>7. QED
  BY <1>6 DEF Box!Next

LEMMA CommandMoves ==
  ASSUME IInv, RowsCommand PROVE [Box!Next]_(Box!vars)
<1>1. /\ Len(rows') \in Nat /\ Rows' = 1..Len(rows') /\ Rows \subseteq Rows'
      /\ \A w \in Worker : ~InLock(w) /\ ~InLock(w)'
  BY RowsCommandType DEF IInv
<1>2. \A r : ~InFlight(r) /\ ~InFlight(r)'
  BY <1>1 DEF InFlight, InLock
<1>3. ASSUME NEW r \in 1..MaxRow
      PROVE  QueueState(r)' = QueueState(r) \/ Closes(r) \/ Queues(r)
  <2>1. CASE r \in Rows
    <3>1. r \in Rows' /\ SameMail(rows[r], rows'[r]) /\ rows'[r].expired = rows[r].expired
      BY <1>1, <2>1 DEF RowsCommand
    <3>2. QED
      BY <1>2, <2>1, <3>1 DEF QueueState, Closes, SameMail, Open
  <2>2. CASE r \in Rows' /\ r \notin Rows
    <3>1. Fresh(rows'[r])
      BY <1>1, <2>2 DEF RowsCommand
    <3>2. QED
      BY <2>2, <3>1 DEF QueueState, Queues, Fresh, Open
  <2>3. CASE r \notin Rows' /\ r \notin Rows
    BY <2>3 DEF QueueState
  <2>4. QED
    BY <1>1, <2>1, <2>2, <2>3
<1>4. QED
  BY <1>3, QueueMoves DEF RowsCommand, counts

LEMMA AgeMoves ==
  ASSUME IInv, RowsAge PROVE [Box!Next]_(Box!vars)
<1>1. /\ Rows' = Rows /\ copies' = copies
      /\ \A r : InFlight(r)' <=> InFlight(r)
  BY DEF RowsAge, Rows, InFlight, counts
<1>2. ASSUME NEW r \in 1..MaxRow PROVE QueueState(r)' = QueueState(r) \/ Closes(r)
  <2>1. CASE r \in Rows
    <3>1. /\ rows'[r].state = rows[r].state /\ rows'[r].sent = rows[r].sent
          /\ rows'[r].attempts = rows[r].attempts
          /\ rows[r].expired => rows'[r].expired
      BY <2>1 DEF RowsAge, SameMail
    <3>2. QED
      BY <1>1, <2>1, <3>1 DEF QueueState, Closes, Open
  <2>2. CASE r \notin Rows
    BY <1>1, <2>2 DEF QueueState
  <2>3. QED
    BY <2>1, <2>2
<1>3. QED
  BY <1>1, <1>2, QueueMoves

\* A turn that leaves the rows alone moves at most the row its worker holds.
LEMMA TurnMoves ==
  ASSUME IInv, rows' = rows, NEW w \in Worker, \A v \in Worker \ {w} : job'[v] = job[v],
         NEW r \in 1..MaxRow, ~(InLock(w) /\ job[w].row = r),
         ~(InLock(w)' /\ job'[w].row = r)
  PROVE  QueueState(r)' = QueueState(r)
<1>1. InFlight(r)' <=> InFlight(r)
  BY DEF InFlight, InLock
<1>2. QED
  BY <1>1 DEF QueueState, Rows, Open

\* A row in flight, and one that is due, is queued.
LEMMA HeldIsQueued ==
  ASSUME IInv, NEW w \in Worker, InLock(w)
  PROVE  QueueState(job[w].row) = "queued"
BY JobTyped DEF IInv, JobHeld, QueueState, InFlight, InLock, Locked

LEMMA BeginMoves ==
  ASSUME IInv, IInv', NEW w \in Worker, Begin(w) PROVE UNCHANGED Box!vars
<1>1. PICK r \in 1..MaxRow : r = job[w].row /\ r \in Rows
  BY JobTyped DEF IInv, Begin
<1>2. /\ \A v \in Worker \ {w} : job'[v] = job[v]
      /\ job'[w].stage = "sending" /\ job'[w].row = r /\ rows' = rows /\ copies' = copies
  BY <1>1, StageChange DEF IInv, Begin, Locked, counts
<1>3. Due(r) /\ job[w].stage = "picked"
  BY <1>1 DEF Begin, MayDeliver, StillDue
<1>4. QueueState(r) = "queued"
  BY <1>1, <1>3 DEF QueueState, Due
<1>5. QueueState(r)' = "queued"
  <2>1. InFlight(r)' /\ Rows' = Rows
    BY <1>2 DEF InFlight, Locked, Rows
  <2>2. QED
    BY <1>1, <1>2, <1>3, <2>1 DEF QueueState, Due, Open
<1>6. \A q \in 1..MaxRow : QueueState(q)' = QueueState(q)
  <2>1. ~InLock(w)
    BY <1>3 DEF InLock, Locked
  <2>2. ASSUME NEW q \in 1..MaxRow, q # r PROVE QueueState(q)' = QueueState(q)
    BY <1>2, <2>1, <2>2, TurnMoves
  <2>3. QED
    BY <1>4, <1>5, <2>2
<1>7. QED
  BY <1>2, <1>6 DEF Box!vars

LEMMA PickMoves ==
  ASSUME IInv, NEW w \in Worker, NEW r \in Rows, Pick(w, r) PROVE UNCHANGED Box!vars
<1>1. PICK new : new = [stage |-> "picked", row |-> r]
  OBVIOUS
<1>2. job' = [job EXCEPT ![w] = new] /\ new.stage = "picked" /\ job[w] = Idle
  BY <1>1 DEF Pick
<1>3. /\ \A v \in Worker \ {w} : job'[v] = job[v]
      /\ job'[w].stage = "picked" /\ job[w].stage = "idle" /\ rows' = rows
      /\ copies' = copies
  BY <1>2 DEF IInv, TypeOK, Idle, Pick, counts
<1>4. \A q \in 1..MaxRow : QueueState(q)' = QueueState(q)
  BY <1>3, TurnMoves DEF InLock, Locked
<1>5. QED
  BY <1>3, <1>4 DEF Box!vars

\* While its worker talks to the server a row stays queued.
LEMMA TalkKeeps ==
  ASSUME IInv, NEW w \in Worker, job[w].stage = "sending", rows' = rows,
         NEW s \in Locked, job' = [job EXCEPT ![w].stage = s]
  PROVE  \A q \in 1..MaxRow : QueueState(q)' = QueueState(q)
<1>1. /\ \A v \in Worker \ {w} : job'[v] = job[v]
      /\ job'[w].stage = s /\ job'[w].row = job[w].row
  BY StageChange DEF IInv, Locked
<1>2. \A q : InFlight(q)' <=> InFlight(q)
  BY <1>1 DEF InFlight, Locked
<1>3. QED
  BY <1>2 DEF QueueState, Rows, Open

LEMMA TransmitMoves ==
  ASSUME IInv, NEW w \in Worker, Accept(w) \/ LoseReply(w)
  PROVE  \E r \in 1..MaxRow : Box!Transmit(r)
<1>1. PICK r \in 1..MaxRow : r = job[w].row
  BY JobTyped DEF IInv, Accept, LoseReply, Transmit
<1>2. /\ job[w].stage = "sending" /\ rows' = rows
      /\ copies' = [copies EXCEPT ![r] = @ + 1]
  BY <1>1 DEF Accept, LoseReply, Transmit
<1>3. PICK s \in Locked : job' = [job EXCEPT ![w].stage = s]
  BY DEF Accept, LoseReply, Locked
<1>4. \A q \in 1..MaxRow : QueueState(q)' = QueueState(q)
  BY <1>2, <1>3, TalkKeeps
<1>5. QueueState(r) = "queued"
  BY <1>1, <1>2, HeldIsQueued DEF InLock, Locked
<1>6. Box!Transmit(r)
  BY <1>2, <1>4, <1>5 DEF Box!Transmit
<1>7. QED
  BY <1>6

LEMMA RefuseMoves ==
  ASSUME IInv, NEW w \in Worker, Refuse(w) PROVE UNCHANGED Box!vars
<1>1. PICK s \in Locked : job' = [job EXCEPT ![w].stage = s]
  BY DEF Refuse, Locked
<1>2. \A q \in 1..MaxRow : QueueState(q)' = QueueState(q)
  BY <1>1, TalkKeeps DEF Refuse
<1>3. QED
  BY <1>2 DEF Box!vars, Refuse, counts

LEMMA CrashMoves ==
  ASSUME IInv, NEW w \in Worker, Crash(w) PROVE [Box!Next]_(Box!vars)
<1>1. /\ rows' = rows /\ copies' = copies /\ Done(w)
  BY DEF Crash
<1>2. /\ \A v \in Worker \ {w} : job'[v] = job[v]
      /\ ~InLock(w)'
  BY <1>1, DoneJobs DEF IInv, InLock, Locked, Idle
<1>3. ASSUME NEW r \in 1..MaxRow PROVE QueueState(r)' = QueueState(r) \/ Closes(r)
  <2>1. CASE ~(InLock(w) /\ job[w].row = r)
    BY <1>1, <1>2, <2>1, TurnMoves
  <2>2. CASE InLock(w) /\ job[w].row = r
    <3>1. QueueState(r) = "queued" /\ r \in Rows
      BY <2>2, HeldIsQueued, JobTyped DEF IInv, InLock, Locked
    <3>2. Open(r) /\ ~rows[r].sent
      BY <2>2 DEF IInv, JobHeld
    <3>3. QueueState(r)' \in {"queued", "closed"}
      BY <1>1, <3>1, <3>2 DEF QueueState, Rows, Open
    <3>4. QED
      BY <3>1, <3>3 DEF Closes
  <2>3. QED
    BY <2>1, <2>2
<1>4. QED
  BY <1>1, <1>3, QueueMoves

LEMMA SaveMoves ==
  ASSUME IInv, NEW w \in Worker, Save(w) PROVE [Box!Next]_(Box!vars)
<1>1. PICK r \in Rows : r = job[w].row
  BY SaveWrites
<1>2. PICK new \in Row : new = Recorded(w)
  BY SaveWrites
<1>3. /\ InLock(w) /\ JobHeld(w)
      /\ new.sent <=> job[w].stage = "accepted"
      /\ new.state = rows[r].state
  BY <1>1, <1>2, SaveWrites
<1>4. /\ rows' = [rows EXCEPT ![r] = new] /\ Done(w) /\ copies' = copies
  BY <1>1, <1>2 DEF Save, counts
<1>5. /\ rows'[r] = new /\ \A q \in Rows \ {r} : rows'[q] = rows[q]
      /\ Rows' = Rows /\ r \in 1..MaxRow
  BY <1>4, UpdateFacts, RowsTyped DEF IInv, Rows
<1>6. /\ \A v \in Worker \ {w} : job'[v] = job[v] /\ ~InLock(v)
      /\ ~InLock(w)'
  BY <1>3, <1>4, DoneJobs, NobodyElse DEF IInv, InLock, Locked, Idle
<1>7. ASSUME NEW q \in 1..MaxRow, q # r PROVE QueueState(q)' = QueueState(q)
  <2>1. ~InFlight(q) /\ ~InFlight(q)'
    BY <1>1, <1>6, <1>7 DEF InFlight, InLock
  <2>2. QED
    BY <1>5, <1>7, <2>1 DEF QueueState, Open
<1>8. QueueState(r) = "queued" /\ Open(r)
  BY <1>1, <1>3, HeldIsQueued DEF JobHeld
<1>9. CASE job[w].stage = "accepted"
  <2>1. QueueState(r)' = "delivered"
    BY <1>3, <1>5, <1>8, <1>9 DEF QueueState, Open
  <2>2. copies[r] > 0
    <3>1. CopiesCounted(r) /\ unrecorded[r] \in Nat /\ IsAccepted(r)
      BY <1>1, <1>5, <1>9 DEF IInv, TypeOK, IsAccepted
    <3>2. QED
      BY <3>1 DEF CopiesCounted
  <2>3. Box!Move(r, "queued", "delivered")
    BY <1>5, <1>7, <1>8, <2>1 DEF Box!Move
  <2>4. Box!Settle(r)
    BY <1>4, <2>2, <2>3 DEF Box!Settle, Box!Deliver
  <2>5. QED
    BY <1>5, <2>4 DEF Box!Next
<1>10. CASE job[w].stage # "accepted"
  <2>1. QueueState(r)' \in {"queued", "closed"}
    BY <1>3, <1>5, <1>8, <1>10 DEF QueueState, Open
  <2>2. QED
    BY <1>4, <1>7, <1>8, <2>1, QueueMoves DEF Closes
<1>11. QED
  BY <1>9, <1>10

LEMMA StepBox == IInv /\ IInv' /\ [Next]_vars => [Box!Next]_(Box!vars)
<1> SUFFICES ASSUME IInv, IInv', [Next]_vars PROVE [Box!Next]_(Box!vars)
  OBVIOUS
<1>1. CASE Command \/ Administer
  BY <1>1, CommandStep, AccountCommand, CommandMoves
<1>2. CASE Take
  BY <1>2, PickMoves DEF Take
<1>3. ASSUME NEW w \in Worker, Look(w) PROVE [Box!Next]_(Box!vars)
  BY <1>3, SkipCommand, DropCommand, CommandMoves, BeginMoves DEF Look
<1>4. ASSUME NEW w \in Worker, Talk(w) PROVE [Box!Next]_(Box!vars)
  BY <1>4, TransmitMoves, RefuseMoves DEF Talk, Box!Next
<1>5. ASSUME NEW w \in Worker, Save(w) \/ Crash(w) PROVE [Box!Next]_(Box!vars)
  BY <1>5, SaveMoves, CrashMoves
<1>6. ASSUME NEW r \in Rows, Expire(r) \/ BackOffEnds(r) \/ Ageing(r)
      PROVE  [Box!Next]_(Box!vars)
  BY <1>6, TimeAges, AgeMoves DEF IInv
<1>7. CASE UNCHANGED vars
  <2>1. RowsAge
    BY <1>7 DEF vars, IInv, TypeOK, RowsAge, SameMail
  <2>2. QED
    BY <2>1, AgeMoves
<1>8. QED
  BY <1>1, <1>2, <1>3, <1>4, <1>5, <1>6, <1>7 DEF Next

\* The two tables keep the promise of an outbox, for every number of workers and
\* links (ImplementsOutbox without its fairness).
THEOREM TablesAreOutbox == Spec => Box!Spec
<1>1. IInv /\ IInv' /\ [Next]_vars => [Box!Next]_(Box!vars)
  BY StepBox
<1>2. QED
  BY <1>1, InitBox, UserLockHolds, PTL DEF Spec, Box!Spec
=============================================================================
