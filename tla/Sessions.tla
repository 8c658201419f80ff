------------------------------ MODULE Sessions ------------------------------
(***************************************************************************)
(* The dashboard sessions and the password of one account.                 *)
(*                                                                         *)
(* Every request first reads without a lock (the password hash, the        *)
(* session behind an access token, the claims of a refresh token, the      *)
(* reset row), then locks the user row, checks again and decides, and then *)
(* writes and commits.  A request is at one of these three points; while   *)
(* it holds a plan it holds the user row, and with it all the sessions and *)
(* reset rows of the account.                                              *)
(*                                                                         *)
(* Password hashes are numbered in the order they are set: the salt makes  *)
(* every hash a new one.  Refresh tokens are numbered in the order they    *)
(* are signed; a token stays verifiable until its session expires, so any  *)
(* token that was ever signed may be presented, once or many times.        *)
(***************************************************************************)
EXTENDS Integers, Sequences, FiniteSets

CONSTANTS
    Thread,        \* concurrent requests
    Session,       \* identifiers of RefreshTokenSession rows
    Reset,         \* identifiers of PasswordResetRequest rows
    MaxPassword,   \* bound: passwords the account goes through
    MaxToken,      \* bound: refresh tokens that are signed
    NoSession,
    NoReset,
    NoWork

SessionRow == [token : 1..MaxToken, credential : 1..MaxPassword, revoked : BOOLEAN,
               expired : BOOLEAN]
ResetRow == [status : {"open", "expired", "consumed", "invalidated"},
             credential : 1..MaxPassword]

\* What a request does next.  reading: nothing is locked yet.  The others are
\* the plans of a request that holds the user row.
Reading == {"login", "refresh", "logout", "change", "reset"}
Plan == {"open", "rotate", "end", "replace", "issue"}
Work == [stage : Reading \cup Plan, password : 0..MaxPassword, token : 0..MaxToken,
         reset : Reset \cup {NoReset}]

ASSUME SessionsAssumption ==
    /\ MaxPassword \in Nat \ {0}
    /\ MaxToken \in Nat
    /\ NoSession \notin SessionRow
    /\ NoReset \notin ResetRow
    /\ NoReset \notin Reset
    /\ NoWork \notin Work

VARIABLES
    password,   \* the current password hash
    eligible,   \* the account may authenticate: active and verified
    session,    \* session[s]: its row, or NoSession
    reset,      \* reset[q]: its row, or NoReset
    signed,     \* signed[k]: the session refresh token k was signed for
    work,       \* work[t]: the request t carries out, or NoWork
    \* what happened, for the properties
    proof,      \* proof[s]: the password presented at the login that opened s
    exchanged,  \* tokens that were exchanged for a new pair
    replayed,   \* sessions ended by a token that had been exchanged before
    basis       \* basis[p]: the password on whose proof password p + 1 was set

rows == <<password, eligible, session, reset, signed>>
history == <<proof, exchanged, replayed, basis>>
vars == <<rows, work, history>>

Idle(t) == work[t] = NoWork
At(t, stage) == work[t] # NoWork /\ work[t].stage = stage
HoldsUser(t) == work[t] # NoWork /\ work[t].stage \in Plan
\* (_Unlocked: as if the user row were read without select_for_update.)
UserFree_Unlocked == TRUE
UserFree == \A t \in Thread : ~HoldsUser(t)

\* _session_is_current: usable, of an eligible account, and bound to the
\* password as it now is.
Current(s) ==
    /\ session[s] # NoSession
    /\ ~session[s].revoked
    /\ ~session[s].expired
    /\ eligible
    /\ session[s].credential = password

Init ==
    /\ password = 1
    /\ eligible = TRUE
    /\ session = [s \in Session |-> NoSession]
    /\ reset = [q \in Reset |-> NoReset]
    /\ signed = <<>>
    /\ work = [t \in Thread |-> NoWork]
    /\ proof = [s \in Session |-> 0]
    /\ exchanged = {}
    /\ replayed = {}
    /\ basis = <<>>

-----------------------------------------------------------------------------
(* Reading without a lock                                                  *)

Start(t, w) ==
    /\ Idle(t)
    /\ work' = [work EXCEPT ![t] = w]
    /\ UNCHANGED <<rows, history>>

\* login_user: the password presented matches the hash as read here.
CheckPassword(t) ==
    Start(t, [stage |-> "login", password |-> password, token |-> 0, reset |-> NoReset])

\* refresh_session, logout_session: the claims of a token that has not expired.
PresentToken(t, k, stage) ==
    /\ stage \in {"refresh", "logout"}
    /\ ~session[signed[k]].expired
    /\ Start(t, [stage |-> stage, password |-> 0, token |-> k, reset |-> NoReset])

\* change_password: authenticate_access_token read a current session and the
\* user; the current password was presented with the new one.
AuthenticateChange(t) ==
    /\ \E s \in Session : Current(s)
    /\ Start(t, [stage |-> "change", password |-> password, token |-> 0,
                 reset |-> NoReset])

\* reset_password: the row named by the link.
FollowLink(t, q) ==
    /\ reset[q] # NoReset
    /\ Start(t, [stage |-> "reset", password |-> 0, token |-> 0, reset |-> q])

-----------------------------------------------------------------------------
(* Under the user lock: check again and decide                             *)

Decide(t, plan) ==
    /\ UserFree
    /\ work' = [work EXCEPT ![t].stage = plan]
    /\ UNCHANGED <<rows, history>>

\* (_Unchecked: as if the hash were not compared with the one read before.)
MayLogIn_Unchecked(t) == eligible
MayLogIn(t) == eligible /\ password = work[t].password
DecideLogin(t) ==
    /\ At(t, "login")
    /\ MayLogIn(t)
    /\ Decide(t, "open")

\* A revoked session refuses and stays as it is.  One that is not current ends;
\* a token that is not the session's own was used before and ends it too.
Rotates(t) ==
    LET s == signed[work[t].token]
    IN  Current(s) /\ session[s].token = work[t].token
DecideRefresh(t) ==
    /\ At(t, "refresh")
    /\ ~session[signed[work[t].token]].revoked
    /\ Decide(t, IF Rotates(t) THEN "rotate" ELSE "end")

DecideLogout(t) ==
    /\ At(t, "logout")
    /\ ~session[signed[work[t].token]].revoked
    /\ Decide(t, "end")

\* _current_user compares the credential read at authentication; the session
\* itself is not read again.
\* (_Trusting: as if the actor read at authentication were used as it is.)
MayChange_Trusting(t) == TRUE
MayChange(t) == eligible /\ work[t].password = password
DecideChange(t) ==
    /\ At(t, "change")
    /\ MayChange(t)
    /\ Decide(t, "replace")

DecideReset(t) ==
    /\ At(t, "reset")
    /\ eligible
    /\ reset[work[t].reset].status = "open"
    /\ reset[work[t].reset].credential = password
    /\ Decide(t, "replace")

\* request_password_reset; its cooldown and hourly cap are refusals.
RequestReset(t, q) ==
    /\ Idle(t)
    /\ eligible
    /\ reset[q] = NoReset
    /\ UserFree
    /\ work' = [work EXCEPT ![t] = [stage |-> "issue", password |-> 0, token |-> 0,
                                    reset |-> q]]
    /\ UNCHANGED <<rows, history>>

-----------------------------------------------------------------------------
(* Write and commit                                                        *)

Release(t) == work' = [work EXCEPT ![t] = NoWork]

NewSession ==
    [token |-> Len(signed) + 1, credential |-> password, revoked |-> FALSE,
     expired |-> FALSE]

OpenSession(t, s) ==
    /\ At(t, "open")
    /\ session[s] = NoSession
    /\ Len(signed) < MaxToken
    /\ session' = [session EXCEPT ![s] = NewSession]
    /\ signed' = Append(signed, s)
    /\ proof' = [proof EXCEPT ![s] = work[t].password]
    /\ Release(t)
    /\ UNCHANGED <<password, eligible, reset, exchanged, replayed, basis>>

\* (_Reusable: as if the session kept its token when it signs a new one.)
Rotated_Reusable(s) == session
Rotated(s) == [session EXCEPT ![s].token = Len(signed) + 1]

Rotate(t) ==
    LET s == signed[work[t].token]
    IN  /\ At(t, "rotate")
        /\ Len(signed) < MaxToken
        /\ session' = Rotated(s)
        /\ signed' = Append(signed, s)
        /\ exchanged' = exchanged \cup {work[t].token}
        /\ Release(t)
        /\ UNCHANGED <<password, eligible, reset, proof, replayed, basis>>

\* Logout, reuse, or a session that is no longer current.  The transaction
\* commits, and only then is the request refused.
\* (_RolledBack: as if the refusal were raised inside the transaction.)
Ended_RolledBack(s) == session
Ended(s) == [session EXCEPT ![s].revoked = TRUE]

End(t) ==
    LET s == signed[work[t].token]
    IN  /\ At(t, "end")
        /\ session' = Ended(s)
        /\ replayed' = IF work[t].token \in exchanged THEN replayed \cup {s} ELSE replayed
        /\ Release(t)
        /\ UNCHANGED <<password, eligible, reset, signed, proof, exchanged, basis>>

\* Rows neither consumed nor invalidated: the partial unique index counts them,
\* expired or not.
OpenResets == {q \in Reset : reset[q] # NoReset /\ reset[q].status \in {"open", "expired"}}

\* reset_password consumes its row first, and _replace_password invalidates the
\* rows that are still open.
ClosedResets(used) ==
    [q \in Reset |->
       IF q = used THEN [reset[q] EXCEPT !.status = "consumed"]
       ELSE IF q \in OpenResets THEN [reset[q] EXCEPT !.status = "invalidated"]
       ELSE reset[q]]

EndedSessions ==
    [s \in Session |-> IF session[s] = NoSession THEN NoSession
                       ELSE [session[s] EXCEPT !.revoked = TRUE]]

\* change_password shows the current password, reset_password a link that is
\* bound to one.
Basis(w) == IF w.reset = NoReset THEN w.password ELSE reset[w.reset].credential

\* _replace_password: a new hash, and every session revoked.
Replace(t) ==
    /\ At(t, "replace")
    /\ password < MaxPassword
    /\ password' = password + 1
    /\ session' = EndedSessions
    /\ reset' = ClosedResets(work[t].reset)
    /\ basis' = Append(basis, Basis(work[t]))
    /\ Release(t)
    /\ UNCHANGED <<eligible, signed, proof, exchanged, replayed>>

\* A new link invalidates those still open.
IssueReset(t) ==
    /\ At(t, "issue")
    /\ reset' = [q \in Reset |->
         IF q = work[t].reset THEN [status |-> "open", credential |-> password]
         ELSE IF q \in OpenResets THEN [reset[q] EXCEPT !.status = "invalidated"]
         ELSE reset[q]]
    /\ Release(t)
    /\ UNCHANGED <<password, eligible, session, signed, history>>

\* A refusal, an exception or a lost worker: nothing is written.
Abort(t) ==
    /\ ~Idle(t)
    /\ Release(t)
    /\ UNCHANGED <<rows, history>>

-----------------------------------------------------------------------------
(* What the account's requests do not do                                   *)

\* The site administration disables or restores the account, or sets a
\* password; both are an UPDATE of the user row, which waits for its lock, and
\* neither touches the sessions and reset rows.
SetEligible ==
    /\ UserFree
    /\ eligible' = ~eligible
    /\ UNCHANGED <<password, session, reset, signed, work, history>>

SetPassword ==
    /\ UserFree
    /\ password < MaxPassword
    /\ password' = password + 1
    /\ basis' = Append(basis, password)
    /\ UNCHANGED <<eligible, session, reset, signed, work, proof, exchanged, replayed>>

ExpireSession(s) ==
    /\ session[s] # NoSession
    /\ ~session[s].expired
    /\ session' = [session EXCEPT ![s].expired = TRUE]
    /\ UNCHANGED <<password, eligible, reset, signed, work, history>>

\* deliver_password_reset, under the user lock: a link that could no longer be
\* used is invalidated instead of sent.  What it sends changes no row kept here.
DeliverReset(q) ==
    /\ UserFree
    /\ reset[q] # NoReset
    /\ reset[q].status = "open"
    /\ eligible => reset[q].credential # password
    /\ reset' = [reset EXCEPT ![q].status = "invalidated"]
    /\ UNCHANGED <<password, eligible, session, signed, work, history>>

ExpireReset(q) ==
    /\ reset[q] # NoReset
    /\ reset[q].status = "open"
    /\ reset' = [reset EXCEPT ![q].status = "expired"]
    /\ UNCHANGED <<password, eligible, session, signed, work, history>>

-----------------------------------------------------------------------------
Read(t) ==
    \/ CheckPassword(t)
    \/ \E k \in 1..Len(signed), stage \in {"refresh", "logout"} : PresentToken(t, k, stage)
    \/ AuthenticateChange(t)
    \/ \E q \in Reset : FollowLink(t, q)

Lock(t) ==
    \/ DecideLogin(t) \/ DecideRefresh(t) \/ DecideLogout(t)
    \/ DecideChange(t) \/ DecideReset(t)
    \/ \E q \in Reset : RequestReset(t, q)

Commit(t) ==
    \/ \E s \in Session : OpenSession(t, s)
    \/ Rotate(t) \/ End(t) \/ Replace(t) \/ IssueReset(t)

Next ==
    \/ \E t \in Thread : Read(t) \/ Lock(t) \/ Commit(t) \/ Abort(t)
    \/ SetEligible \/ SetPassword
    \/ \E s \in Session : ExpireSession(s)
    \/ \E q \in Reset : ExpireReset(q) \/ DeliverReset(q)

Spec == Init /\ [][Next]_vars

-----------------------------------------------------------------------------
\* Every row, plan and record of the past has its type.
TypeOK ==
    /\ password \in 1..MaxPassword
    /\ eligible \in BOOLEAN
    /\ session \in [Session -> SessionRow \cup {NoSession}]
    /\ reset \in [Reset -> ResetRow \cup {NoReset}]
    /\ signed \in Seq(Session)
    /\ Len(signed) <= MaxToken
    /\ work \in [Thread -> Work \cup {NoWork}]
    /\ proof \in [Session -> 0..MaxPassword]
    /\ exchanged \subseteq 1..Len(signed)
    /\ replayed \subseteq Session
    /\ basis \in Seq(1..MaxPassword)

\* A refresh token is exchanged at most once: the tokens signed for a session
\* are a chain in which every one but the last, the session's own, has been
\* given up for the next (refresh_session under the user and session locks,
\* however often and however concurrently a token is presented).
TokensFormChain ==
    \A k \in 1..Len(signed) :
        k \in exchanged <=> session[signed[k]].token # k

\* A token that was used before, presented again, ends its session: the
\* revocation is committed although the request is refused.
ReuseIsFatal == \A s \in replayed : session[s] # NoSession /\ session[s].revoked

\* A revoked session stays revoked and no token is signed for it any more, even
\* by a refresh that had read it before the logout, the reuse or the password
\* change that revoked it.
RevocationIsFinal ==
    [][\A s \in Session :
          session[s] # NoSession /\ session[s].revoked =>
              /\ session'[s] = [session[s] EXCEPT !.expired = session'[s].expired]
              /\ \A k \in (Len(signed) + 1)..Len(signed') : signed'[k] # s]_vars

\* A session that authenticates was opened with the password as it is now: a
\* login that read the old hash opens none after the change, and none opened
\* before it survives, whoever made the change.
SessionsProvePassword == \A s \in Session : Current(s) => proof[s] = password

\* Each password was set by someone who proved to know, or held a link bound
\* to, the very password it replaces: of two changes that start from the same
\* password, only one takes effect.
ReplacementsBuildOnCurrent ==
    /\ Len(basis) = password - 1
    /\ \A p \in 1..Len(basis) : basis[p] = p

\* At most one reset row is neither consumed nor invalidated, as the partial
\* unique index demands; expired ones count.
OneOpenReset ==
    \A q, r \in Reset :
        /\ reset[q] # NoReset /\ reset[q].status \in {"open", "expired"}
        /\ reset[r] # NoReset /\ reset[r].status \in {"open", "expired"}
        => q = r
=============================================================================
