-------------------------- MODULE Sessions_proofs --------------------------
(***************************************************************************)
(* Proofs about Sessions for every set of requests, sessions and reset     *)
(* rows: what the user row's lock keeps true between a request's decision  *)
(* and its commit, and the properties that rest on it.  The second part is *)
(* about InvitationQueue, for every number of workers, organizations and   *)
(* invitations: its rows are locked in the same way while the mail goes    *)
(* out.                                                                    *)
(***************************************************************************)
EXTENDS Sessions, InvitationQueue, Recursion, SequenceTheorems, TLAPS

USE SessionsAssumption

(***************************************************************************)
(* The inductive invariant.  A request refers to rows that exist; one that *)
(* holds the user row still has, when it commits, the reason it was given  *)
(* its plan for, although sessions and links expire and the account may be *)
(* disabled meanwhile.                                                     *)
(***************************************************************************)

Refers(w) ==
    /\ w.stage \in {"refresh", "logout", "rotate", "end"} => w.token \in 1..Len(signed)
    /\ w.stage = "change" => w.reset = NoReset
    /\ w.stage \in {"reset", "issue"} => w.reset \in Reset
    /\ w.stage \in {"reset", "replace"} /\ w.reset # NoReset => reset[w.reset] # NoReset

Warranted(w) ==
    /\ w.stage = "open" => w.password = password
    /\ w.stage = "rotate" => /\ session[signed[w.token]].token = w.token
                             /\ ~session[signed[w.token]].revoked
    /\ w.stage = "replace" => Basis(w) = password

OneHolder == \A t, u \in Thread : HoldsUser(t) /\ HoldsUser(u) => t = u

WorkWarranted ==
    \A t \in Thread : work[t] # NoWork => Refers(work[t]) /\ Warranted(work[t])

\* The rows of a session and the tokens signed for it name each other, and its
\* credential is the password its login presented.
SessionRows ==
    \A s \in Session : session[s] # NoSession =>
        /\ session[s].token \in 1..Len(signed)
        /\ signed[session[s].token] = s
        /\ session[s].credential = proof[s]

SignedForSessions == \A k \in 1..Len(signed) : session[signed[k]] # NoSession

IInv ==
    /\ TypeOK
    /\ OneHolder
    /\ WorkWarranted
    /\ SessionRows
    /\ SignedForSessions
    /\ TokensFormChain
    /\ ReuseIsFatal
    /\ ReplacementsBuildOnCurrent
    /\ OneOpenReset

-----------------------------------------------------------------------------
(***************************************************************************)
(* Records and sequences.                                                  *)
(***************************************************************************)

LEMMA WorkFields ==
  ASSUME NEW w \in Work
  PROVE  /\ w.stage \in Reading \cup Plan
         /\ w.password \in 0..MaxPassword
         /\ w.token \in 0..MaxToken
         /\ w.reset \in Reset \cup {NoReset}
BY DEF Work

LEMMA SessionFields ==
  ASSUME NEW kept \in SessionRow
  PROVE  /\ kept.token \in 1..MaxToken
         /\ kept.credential \in 1..MaxPassword
         /\ kept.revoked \in BOOLEAN
         /\ kept.expired \in BOOLEAN
         /\ kept # NoSession
BY DEF SessionRow

LEMMA ResetFields ==
  ASSUME NEW kept \in ResetRow
  PROVE  /\ kept.credential \in 1..MaxPassword
         /\ kept.status \in {"open", "expired", "consumed", "invalidated"}
         /\ kept # NoReset
BY DEF ResetRow

\* What the edits of a session row leave alone.
LEMMA SessionEdits ==
  ASSUME NEW kept \in SessionRow
  PROVE  /\ \A k \in 1..MaxToken :
              /\ [kept EXCEPT !.token = k] \in SessionRow
              /\ [kept EXCEPT !.token = k].token = k
              /\ [kept EXCEPT !.token = k].credential = kept.credential
              /\ [kept EXCEPT !.token = k].revoked = kept.revoked
         /\ \A b \in BOOLEAN :
              /\ [kept EXCEPT !.revoked = b] \in SessionRow
              /\ [kept EXCEPT !.revoked = b].token = kept.token
              /\ [kept EXCEPT !.revoked = b].credential = kept.credential
              /\ [kept EXCEPT !.revoked = b].revoked = b
              /\ [kept EXCEPT !.expired = b] \in SessionRow
              /\ [kept EXCEPT !.expired = b].token = kept.token
              /\ [kept EXCEPT !.expired = b].credential = kept.credential
              /\ [kept EXCEPT !.expired = b].revoked = kept.revoked
BY DEF SessionRow

LEMMA ResetEdits ==
  ASSUME NEW kept \in ResetRow,
         NEW x \in {"open", "expired", "consumed", "invalidated"}
  PROVE  /\ [kept EXCEPT !.status = x] \in ResetRow
         /\ [kept EXCEPT !.status = x].status = x
         /\ [kept EXCEPT !.status = x].credential = kept.credential
BY DEF ResetRow

\* Appending to a sequence keeps what it held.
LEMMA Appended ==
  ASSUME NEW S, NEW seq \in Seq(S), NEW x \in S
  PROVE  /\ Append(seq, x) \in Seq(S)
         /\ Len(seq) \in Nat
         /\ Len(Append(seq, x)) = Len(seq) + 1
         /\ \A i \in 1..Len(seq) : Append(seq, x)[i] = seq[i]
         /\ Append(seq, x)[Len(seq) + 1] = x
OBVIOUS

\* The session a known token was signed for has a row.
LEMMA SessionOfToken ==
  ASSUME TypeOK, SignedForSessions, NEW k \in 1..Len(signed)
  PROVE  /\ signed[k] \in Session
         /\ session[signed[k]] # NoSession
         /\ session[signed[k]] \in SessionRow
         /\ k \in 1..MaxToken
<1>1. signed[k] \in Session
  BY DEF TypeOK
<1>2. Len(signed) \in Nat
  BY DEF TypeOK
<1>3. QED
  BY <1>1, <1>2 DEF TypeOK, SignedForSessions

\* A request on its way holds a record of what it does.
LEMMA RequestUnderWay ==
  ASSUME IInv, NEW t \in Thread, work[t] # NoWork
  PROVE  work[t] \in Work /\ Refers(work[t]) /\ Warranted(work[t])
BY DEF IInv, TypeOK, WorkWarranted

-----------------------------------------------------------------------------
(***************************************************************************)
(* Type correctness.                                                       *)
(***************************************************************************)

WorkTyped == work \in [Thread -> Work \cup {NoWork}]

LEMMA InitTyped == Init => TypeOK
<1> SUFFICES ASSUME Init PROVE TypeOK
  OBVIOUS
<1>1. signed \in Seq(Session) /\ Len(signed) = 0 /\ basis \in Seq(1..MaxPassword)
  BY DEF Init
<1>2. QED
  BY <1>1 DEF Init, TypeOK

LEMMA WorkType ==
  ASSUME IInv, Next
  PROVE  WorkTyped'
<1> USE DEF WorkTyped
<1>0. WorkTyped
  BY DEF IInv, TypeOK
<1>1. ASSUME NEW t \in Thread, Read(t) PROVE WorkTyped'
  <2>1. CASE CheckPassword(t)
    BY <1>0, <2>1 DEF CheckPassword, Start, Work, Reading, IInv, TypeOK
  <2>2. ASSUME NEW k \in 1..Len(signed), NEW task \in {"refresh", "logout"},
               PresentToken(t, k, task)
        PROVE WorkTyped'
    <3>1. k \in 0..MaxToken
      BY SessionOfToken DEF IInv
    <3>2. QED
      BY <1>0, <2>2, <3>1 DEF PresentToken, Start, Work, Reading
  <2>3. CASE AuthenticateChange(t)
    BY <1>0, <2>3 DEF AuthenticateChange, Start, Work, Reading, IInv, TypeOK
  <2>4. ASSUME NEW q \in Reset, FollowLink(t, q) PROVE WorkTyped'
    BY <1>0, <2>4 DEF FollowLink, Start, Work, Reading
  <2>5. QED
    BY <1>1, <2>1, <2>2, <2>3, <2>4 DEF Read
<1>2. ASSUME NEW t \in Thread, Lock(t) PROVE WorkTyped'
  <2>1. ASSUME NEW plan \in Plan, work[t] # NoWork, Decide(t, plan) PROVE WorkTyped'
    <3>1. work[t] \in Work
      BY <1>0, <2>1
    <3>2. [work[t] EXCEPT !.stage = plan] \in Work
      BY <3>1 DEF Work
    <3>3. QED
      BY <1>0, <2>1, <3>2 DEF Decide
  <2>2. ASSUME NEW q \in Reset, RequestReset(t, q) PROVE WorkTyped'
    BY <1>0, <2>2 DEF RequestReset, Work, Plan
  <2>3. QED
    BY <1>2, <2>1, <2>2
       DEF Lock, DecideLogin, DecideRefresh, DecideLogout, DecideChange, DecideReset,
           At, Plan
<1>3. ASSUME NEW t \in Thread, Release(t) PROVE WorkTyped'
  BY <1>0, <1>3 DEF Release
<1>4. QED
  BY <1>0, <1>1, <1>2, <1>3
     DEF Next, Commit, OpenSession, Rotate, End, Replace, IssueReset, Abort,
         SetEligible, SetPassword, ExpireSession, ExpireReset, DeliverReset

SessionTyped == session \in [Session -> SessionRow \cup {NoSession}]
ResetTyped == reset \in [Reset -> ResetRow \cup {NoReset}]

\* A request that ends or rotates a session has its token's session in hand.
LEMMA SessionInHand ==
  ASSUME IInv, NEW t \in Thread, At(t, "rotate") \/ At(t, "end")
  PROVE  /\ work[t].token \in 1..Len(signed)
         /\ signed[work[t].token] \in Session
         /\ session[signed[work[t].token]] \in SessionRow
         /\ work[t].token \in 1..MaxToken
<1>1. work[t].token \in 1..Len(signed)
  BY RequestUnderWay DEF At, Refers
<1>2. QED
  BY <1>1, SessionOfToken DEF IInv

\* The sessions after a password change.
LEMMA EndedType ==
  ASSUME SessionTyped, NEW s \in Session
  PROVE  /\ EndedSessions[s] \in SessionRow \cup {NoSession}
         /\ EndedSessions[s] = NoSession <=> session[s] = NoSession
         /\ session[s] # NoSession =>
              /\ EndedSessions[s] = [session[s] EXCEPT !.revoked = TRUE]
              /\ EndedSessions[s].revoked
              /\ EndedSessions[s].token = session[s].token
              /\ EndedSessions[s].credential = session[s].credential
<1>1. CASE session[s] = NoSession
  BY <1>1 DEF EndedSessions
<1>2. CASE session[s] # NoSession
  <2>1. session[s] \in SessionRow
    BY <1>2 DEF SessionTyped
  <2>2. EndedSessions[s] = [session[s] EXCEPT !.revoked = TRUE]
    BY <1>2 DEF EndedSessions
  <2>3. /\ [session[s] EXCEPT !.revoked = TRUE] \in SessionRow
        /\ [session[s] EXCEPT !.revoked = TRUE].revoked = TRUE
        /\ [session[s] EXCEPT !.revoked = TRUE].token = session[s].token
        /\ [session[s] EXCEPT !.revoked = TRUE].credential = session[s].credential
    BY <2>1, SessionEdits
  <2>4. QED
    BY <1>2, <2>2, <2>3, SessionFields
<1>3. QED
  BY <1>1, <1>2

LEMMA SessionType ==
  ASSUME IInv, Next
  PROVE  SessionTyped'
<1> USE DEF SessionTyped
<1>0. SessionTyped
  BY DEF IInv, TypeOK
<1>1. ASSUME NEW t \in Thread, NEW s \in Session, OpenSession(t, s) PROVE SessionTyped'
  <2>1. Len(signed) + 1 \in 1..MaxToken /\ password \in 1..MaxPassword
    BY <1>1 DEF OpenSession, IInv, TypeOK
  <2>2. NewSession \in SessionRow
    BY <2>1 DEF NewSession, SessionRow
  <2>3. QED
    BY <1>0, <1>1, <2>2 DEF OpenSession
<1>2. ASSUME NEW t \in Thread, Rotate(t) PROVE SessionTyped'
  <2>1. Len(signed) + 1 \in 1..MaxToken
    BY <1>2 DEF Rotate, IInv, TypeOK
  <2>2. [session[signed[work[t].token]] EXCEPT !.token = Len(signed) + 1] \in SessionRow
    BY <1>2, <2>1, SessionInHand, SessionEdits DEF Rotate
  <2>3. session' = [session EXCEPT ![signed[work[t].token]] =
                      [session[signed[work[t].token]] EXCEPT !.token = Len(signed) + 1]]
    BY <1>2 DEF Rotate, Rotated
  <2>4. QED
    BY <1>0, <2>2, <2>3
<1>3. ASSUME NEW t \in Thread, End(t) PROVE SessionTyped'
  <2>1. [session[signed[work[t].token]] EXCEPT !.revoked = TRUE] \in SessionRow
    BY <1>3, SessionInHand, SessionEdits DEF End
  <2>2. session' = [session EXCEPT ![signed[work[t].token]] =
                      [session[signed[work[t].token]] EXCEPT !.revoked = TRUE]]
    BY <1>3 DEF End, Ended
  <2>3. QED
    BY <1>0, <2>1, <2>2
<1>4. ASSUME NEW t \in Thread, Replace(t) PROVE SessionTyped'
  <2>1. session' = EndedSessions
    BY <1>4 DEF Replace
  <2>2. \A s \in Session : EndedSessions[s] \in SessionRow \cup {NoSession}
    BY <1>0, EndedType
  <2>3. EndedSessions = [s \in Session |-> EndedSessions[s]]
    BY DEF EndedSessions
  <2>4. QED
    BY <2>1, <2>2, <2>3
<1>5. ASSUME NEW s \in Session, ExpireSession(s) PROVE SessionTyped'
  <2>1. session[s] \in SessionRow
    BY <1>0, <1>5 DEF ExpireSession
  <2>2. [session[s] EXCEPT !.expired = TRUE] \in SessionRow
    BY <2>1, SessionEdits
  <2>3. session' = [session EXCEPT ![s] = [session[s] EXCEPT !.expired = TRUE]]
    BY <1>5 DEF ExpireSession
  <2>4. QED
    BY <1>0, <2>2, <2>3
<1>6. QED
  BY <1>0, <1>1, <1>2, <1>3, <1>4, <1>5
     DEF Next, Commit, IssueReset, Abort, SetEligible, SetPassword, ExpireReset, DeliverReset,
         Read, CheckPassword, PresentToken, AuthenticateChange, FollowLink, Start,
         Lock, DecideLogin, DecideRefresh, DecideLogout, DecideChange, DecideReset,
         Decide, RequestReset, rows

\* The steps that touch reset rows.
LEMMA ResetSteps ==
  ASSUME Next
  PROVE  \/ UNCHANGED reset
         \/ \E t \in Thread : Replace(t) \/ IssueReset(t)
         \/ \E r \in Reset : ExpireReset(r) \/ DeliverReset(r)
BY DEF Next, Commit, OpenSession, Rotate, End, Abort, SetEligible, SetPassword,
       ExpireSession, Read, CheckPassword, PresentToken, AuthenticateChange,
       FollowLink, Start, Lock, DecideLogin, DecideRefresh, DecideLogout,
       DecideChange, DecideReset, Decide, RequestReset, rows

\* What a reset row may become in one step.
LEMMA ResetStep ==
  ASSUME IInv, Next, NEW q \in Reset
  PROVE  \/ reset'[q] = reset[q]
         \/ /\ reset[q] \in ResetRow
            /\ \E x \in {"expired", "consumed", "invalidated"} :
                  /\ reset'[q] = [reset[q] EXCEPT !.status = x]
                  /\ x = "expired" => reset[q].status = "open"
         \/ \E t \in Thread : IssueReset(t) /\ q = work[t].reset
<1>0. ResetTyped
  BY DEF IInv, TypeOK, ResetTyped
<1>1. ASSUME NEW t \in Thread, Replace(t)
      PROVE  \/ reset'[q] = reset[q]
             \/ reset[q] \in ResetRow /\ \E x \in {"consumed", "invalidated"} :
                   reset'[q] = [reset[q] EXCEPT !.status = x]
  <2>1. work[t].reset = q => reset[q] \in ResetRow
    <3>1. SUFFICES ASSUME work[t].reset = q PROVE reset[q] # NoReset
      BY <1>0 DEF ResetTyped
    <3>2. Refers(work[t]) /\ work[t].stage = "replace"
      BY <1>1, RequestUnderWay DEF Replace, At
    <3>3. QED
      BY <3>1, <3>2 DEF Refers
  <2>2. q \in OpenResets => reset[q] \in ResetRow
    BY <1>0 DEF OpenResets, ResetTyped
  <2>3. QED
    BY <1>1, <2>1, <2>2 DEF Replace, ClosedResets
<1>2. ASSUME NEW t \in Thread, IssueReset(t), q # work[t].reset
      PROVE  \/ reset'[q] = reset[q]
             \/ /\ reset[q] \in ResetRow
                /\ reset'[q] = [reset[q] EXCEPT !.status = "invalidated"]
  <2>1. q \in OpenResets => reset[q] \in ResetRow
    BY <1>0 DEF OpenResets, ResetTyped
  <2>2. QED
    BY <1>2, <2>1 DEF IssueReset
<1>3. ASSUME NEW r \in Reset, ExpireReset(r)
      PROVE  \/ reset'[q] = reset[q]
             \/ /\ reset[q] \in ResetRow /\ reset[q].status = "open"
                /\ reset'[q] = [reset[q] EXCEPT !.status = "expired"]
  BY <1>0, <1>3 DEF ExpireReset, ResetTyped
<1>4. ASSUME NEW r \in Reset, DeliverReset(r)
      PROVE  \/ reset'[q] = reset[q]
             \/ /\ reset[q] \in ResetRow
                /\ reset'[q] = [reset[q] EXCEPT !.status = "invalidated"]
  BY <1>0, <1>4 DEF DeliverReset, ResetTyped
<1>5. QED
  BY <1>1, <1>2, <1>3, <1>4, ResetSteps

LEMMA ResetType ==
  ASSUME IInv, Next
  PROVE  ResetTyped'
<1>0. ResetTyped
  BY DEF IInv, TypeOK, ResetTyped
<1>1. ASSUME NEW q \in Reset PROVE reset'[q] \in ResetRow \cup {NoReset}
  <2>1. CASE reset'[q] = reset[q]
    BY <1>0, <2>1 DEF ResetTyped
  <2>2. ASSUME NEW x \in {"expired", "consumed", "invalidated"}, reset[q] \in ResetRow,
               reset'[q] = [reset[q] EXCEPT !.status = x]
        PROVE  reset'[q] \in ResetRow
    <3>1. [reset[q] EXCEPT !.status = x] \in ResetRow
      BY <2>2, ResetEdits
    <3>2. QED
      BY <2>2, <3>1, Zenon
  <2>3. ASSUME NEW t \in Thread, IssueReset(t), q = work[t].reset
        PROVE  reset'[q] \in ResetRow
    <3>1. reset'[q] = [status |-> "open", credential |-> password]
      BY <2>3 DEF IssueReset
    <3>2. QED
      BY <3>1 DEF ResetRow, IInv, TypeOK
  <2>4. QED
    BY <2>1, <2>2, <2>3, ResetStep
<1>2. reset' = [q \in Reset |-> reset'[q]]
  <2>1. reset = [q \in Reset |-> reset[q]]
    BY <1>0 DEF ResetTyped
  <2>2. ASSUME NEW t \in Thread, Replace(t) PROVE reset' = [q \in Reset |-> reset'[q]]
    BY <2>2 DEF Replace, ClosedResets
  <2>3. ASSUME NEW t \in Thread, IssueReset(t) PROVE reset' = [q \in Reset |-> reset'[q]]
    BY <2>3 DEF IssueReset
  <2>4. ASSUME NEW r \in Reset, ExpireReset(r) \/ DeliverReset(r)
        PROVE reset' = [q \in Reset |-> reset'[q]]
    <3>1. PICK kept : reset' = [reset EXCEPT ![r] = kept]
      BY <2>4 DEF ExpireReset, DeliverReset
    <3>2. QED
      BY <2>1, <3>1
  <2>5. QED
    BY <2>1, <2>2, <2>3, <2>4, ResetSteps
<1>3. QED
  BY <1>1, <1>2 DEF ResetTyped

\* Steps that only read, decide or give up leave every row and the history.
LEMMA QuietSteps ==
  ASSUME NEW t \in Thread, Read(t) \/ Lock(t) \/ Abort(t)
  PROVE  UNCHANGED <<rows, history>>
BY DEF Read, CheckPassword, PresentToken, AuthenticateChange, FollowLink, Start, Lock,
       DecideLogin, DecideRefresh, DecideLogout, DecideChange, DecideReset, Decide,
       RequestReset, Abort

\* A new token is signed when a session opens or rotates, and then only.
LEMMA SignedStep ==
  ASSUME IInv, Next
  PROVE  \/ signed' = signed
         \/ \E t \in Thread, s \in Session :
               /\ OpenSession(t, s) \/ Rotate(t)
               /\ Rotate(t) => s = signed[work[t].token]
               /\ signed' = Append(signed, s)
               /\ Len(signed) < MaxToken
<1>1. ASSUME NEW t \in Thread, Rotate(t)
      PROVE  \E s \in Session : /\ s = signed[work[t].token]
                                /\ signed' = Append(signed, s)
                                /\ Len(signed) < MaxToken
  BY <1>1, SessionInHand DEF Rotate
<1>2. ASSUME NEW t \in Thread, NEW s \in Session, OpenSession(t, s)
      PROVE  ~Rotate(t) /\ signed' = Append(signed, s) /\ Len(signed) < MaxToken
  BY <1>2 DEF OpenSession, Rotate, At
<1>3. ASSUME NEW t \in Thread, End(t) \/ Replace(t) \/ IssueReset(t) PROVE signed' = signed
  BY <1>3 DEF End, Replace, IssueReset
<1>4. SetEligible \/ SetPassword \/ (\E s \in Session : ExpireSession(s))
        \/ (\E q \in Reset : ExpireReset(q) \/ DeliverReset(q)) => signed' = signed
  BY DEF SetEligible, SetPassword, ExpireSession, ExpireReset, DeliverReset
<1>5. ASSUME NEW t \in Thread, Read(t) \/ Lock(t) \/ Abort(t) PROVE signed' = signed
  BY <1>5, QuietSteps DEF rows
<1>6. QED
  BY <1>1, <1>2, <1>3, <1>4, <1>5 DEF Next, Commit

SignedTyped == signed \in Seq(Session) /\ Len(signed) <= MaxToken

LEMMA SignedGrows ==
  ASSUME IInv, Next
  PROVE  /\ SignedTyped'
         /\ Len(signed) \in Nat /\ Len(signed') \in Nat
         /\ Len(signed) <= Len(signed')
         /\ \A k \in 1..Len(signed) : signed'[k] = signed[k]
<1>1. signed \in Seq(Session) /\ Len(signed) <= MaxToken
  BY DEF IInv, TypeOK
<1>2. CASE signed' = signed
  BY <1>1, <1>2 DEF SignedTyped
<1>3. ASSUME NEW s \in Session, signed' = Append(signed, s), Len(signed) < MaxToken
      PROVE  /\ SignedTyped'
             /\ Len(signed) \in Nat /\ Len(signed') \in Nat
             /\ Len(signed) <= Len(signed')
             /\ \A k \in 1..Len(signed) : signed'[k] = signed[k]
  BY <1>1, <1>3, Appended DEF SignedTyped
<1>4. QED
  BY <1>2, <1>3, SignedStep

HistoryTyped ==
    /\ proof \in [Session -> 0..MaxPassword]
    /\ exchanged \subseteq 1..Len(signed)
    /\ replayed \subseteq Session
    /\ basis \in Seq(1..MaxPassword)

LEMMA HistoryType ==
  ASSUME IInv, Next
  PROVE  HistoryTyped'
<1> USE DEF HistoryTyped
<1>0. HistoryTyped
  BY DEF IInv, TypeOK
<1>1. exchanged \subseteq 1..Len(signed')
  BY <1>0, SignedGrows
<1>2. ASSUME NEW t \in Thread, NEW s \in Session, OpenSession(t, s) PROVE HistoryTyped'
  <2>1. work[t].password \in 0..MaxPassword
    BY <1>2, RequestUnderWay, WorkFields DEF OpenSession, At
  <2>2. QED
    BY <1>0, <1>1, <1>2, <2>1 DEF OpenSession
<1>3. ASSUME NEW t \in Thread, Rotate(t) PROVE HistoryTyped'
  <2>1. work[t].token \in 1..Len(signed')
    BY <1>3, SessionInHand, SignedGrows DEF Rotate
  <2>2. QED
    BY <1>0, <1>1, <1>3, <2>1 DEF Rotate
<1>4. ASSUME NEW t \in Thread, End(t) PROVE HistoryTyped'
  BY <1>0, <1>1, <1>4, SessionInHand DEF End
<1>5. ASSUME NEW t \in Thread, Replace(t) PROVE HistoryTyped'
  <2>1. work[t].stage = "replace" /\ Basis(work[t]) = password
    BY <1>5, RequestUnderWay DEF Replace, At, Warranted
  <2>2. Append(basis, Basis(work[t])) \in Seq(1..MaxPassword)
    BY <1>0, <2>1, Appended DEF IInv, TypeOK
  <2>3. QED
    BY <1>0, <1>1, <1>5, <2>2 DEF Replace
<1>6. CASE SetPassword
  <2>1. Append(basis, password) \in Seq(1..MaxPassword)
    BY <1>0, Appended DEF IInv, TypeOK
  <2>2. QED
    BY <1>0, <1>1, <1>6, <2>1 DEF SetPassword
<1>7. ASSUME UNCHANGED history PROVE HistoryTyped'
  BY <1>0, <1>1, <1>7 DEF history
<1>8. ASSUME NEW t \in Thread, IssueReset(t) PROVE UNCHANGED history
  BY <1>8 DEF IssueReset
<1>9. SetEligible \/ (\E s \in Session : ExpireSession(s))
        \/ (\E q \in Reset : ExpireReset(q) \/ DeliverReset(q)) => UNCHANGED history
  BY DEF SetEligible, ExpireSession, ExpireReset, DeliverReset
<1>10. QED
  BY <1>2, <1>3, <1>4, <1>5, <1>6, <1>7, <1>8, <1>9, QuietSteps DEF Next, Commit

\* The account: its password is replaced one at a time.
LEMMA AccountStep ==
  ASSUME IInv, Next
  PROVE  /\ eligible' \in BOOLEAN
         /\ \/ password' = password
            \/ password < MaxPassword /\ password' = password + 1
<1>1. ASSUME NEW t \in Thread, Read(t) \/ Lock(t) \/ Abort(t)
      PROVE  eligible' = eligible /\ password' = password
  BY <1>1, QuietSteps DEF rows
<1>2. ASSUME NEW t \in Thread, Commit(t)
      PROVE  /\ eligible' = eligible
             /\ \/ password' = password
                \/ password < MaxPassword /\ password' = password + 1
  BY <1>2 DEF Commit, OpenSession, Rotate, End, Replace, IssueReset
<1>3. eligible \in BOOLEAN
  BY DEF IInv, TypeOK
<1>4. QED
  BY <1>1, <1>2, <1>3 DEF Next, SetEligible, SetPassword, ExpireSession, ExpireReset, DeliverReset

LEMMA TypeStep ==
  ASSUME IInv, Next
  PROVE  TypeOK'
<1>1. password' \in 1..MaxPassword
  BY AccountStep DEF IInv, TypeOK
<1>2. QED
  BY <1>1, AccountStep, SessionType, ResetType, SignedGrows, WorkType, HistoryType
     DEF TypeOK, SessionTyped, ResetTyped, SignedTyped, WorkTyped, HistoryTyped

-----------------------------------------------------------------------------
(***************************************************************************)
(* The user row's lock.                                                    *)
(***************************************************************************)

LEMMA OneHolderStep ==
  ASSUME IInv, Next
  PROVE  OneHolder'
<1>0. OneHolder /\ WorkTyped
  BY DEF IInv, TypeOK, WorkTyped
<1>1. ASSUME NEW t \in Thread, UserFree,
             \A u \in Thread : u # t => work'[u] = work[u]
      PROVE  OneHolder'
  BY <1>1 DEF OneHolder, HoldsUser, UserFree
<1>2. ASSUME NEW t \in Thread, work'[t] = NoWork \/ work'[t].stage \notin Plan,
             \A u \in Thread : u # t => work'[u] = work[u]
      PROVE  OneHolder'
  BY <1>0, <1>2 DEF OneHolder, HoldsUser
<1>3. ASSUME NEW t \in Thread, Read(t)
      PROVE  /\ work'[t] = NoWork \/ work'[t].stage \notin Plan
             /\ \A u \in Thread : u # t => work'[u] = work[u]
  BY <1>0, <1>3
     DEF Read, CheckPassword, PresentToken, AuthenticateChange, FollowLink, Start, Plan,
         WorkTyped
<1>4. ASSUME NEW t \in Thread, Lock(t)
      PROVE  UserFree /\ \A u \in Thread : u # t => work'[u] = work[u]
  BY <1>0, <1>4
     DEF Lock, DecideLogin, DecideRefresh, DecideLogout, DecideChange, DecideReset,
         Decide, RequestReset, WorkTyped
<1>5. ASSUME NEW t \in Thread, Commit(t) \/ Abort(t)
      PROVE  work'[t] = NoWork /\ \A u \in Thread : u # t => work'[u] = work[u]
  BY <1>0, <1>5
     DEF Commit, OpenSession, Rotate, End, Replace, IssueReset, Abort, Release, WorkTyped
<1>6. work' = work => OneHolder'
  BY <1>0 DEF OneHolder, HoldsUser
<1>7. QED
  BY <1>1, <1>2, <1>3, <1>4, <1>5, <1>6
     DEF Next, SetEligible, SetPassword, ExpireSession, ExpireReset, DeliverReset

LEMMA ResetsRemain ==
  ASSUME IInv, Next, NEW q \in Reset, reset[q] # NoReset
  PROVE  reset'[q] # NoReset
<1>1. ASSUME NEW x \in {"expired", "consumed", "invalidated"}, reset[q] \in ResetRow,
             reset'[q] = [reset[q] EXCEPT !.status = x]
      PROVE  reset'[q] # NoReset
  <2>1. [reset[q] EXCEPT !.status = x] \in ResetRow
    BY <1>1, ResetEdits
  <2>2. QED
    BY <1>1, <2>1, Zenon
<1>2. ASSUME NEW t \in Thread, IssueReset(t), q = work[t].reset
      PROVE  reset'[q] # NoReset
  <2>1. reset'[q] = [status |-> "open", credential |-> password]
    BY <1>2 DEF IssueReset
  <2>2. reset'[q] \in ResetRow
    BY <2>1 DEF ResetRow, IInv, TypeOK
  <2>3. QED
    BY <2>2, Zenon
<1>3. QED
  BY <1>1, <1>2, ResetStep

\* What a request refers to stays.
LEMMA RefersStays ==
  ASSUME IInv, Next, NEW w \in Work, Refers(w)
  PROVE  Refers(w)'
<1>1. w.token \in 1..Len(signed) => w.token \in 1..Len(signed')
  BY SignedGrows
<1>2. w.reset \in Reset /\ reset[w.reset] # NoReset => reset'[w.reset] # NoReset
  BY ResetsRemain
<1>3. QED
  BY <1>1, <1>2, WorkFields DEF Refers

\* Reading finds what the request refers to.
LEMMA ReadRefers ==
  ASSUME IInv, Next, NEW t \in Thread, Read(t)
  PROVE  Refers(work[t])' /\ work'[t].stage \notin Plan
<1>0. /\ UNCHANGED <<rows, history>>
      /\ work \in [Thread -> Work \cup {NoWork}]
  BY QuietSteps DEF IInv, TypeOK
<1>1. CASE CheckPassword(t)
  BY <1>0, <1>1 DEF CheckPassword, Start, Refers, Plan
<1>2. ASSUME NEW k \in 1..Len(signed), NEW task \in {"refresh", "logout"},
             PresentToken(t, k, task)
      PROVE  Refers(work[t])' /\ work'[t].stage \notin Plan
  BY <1>0, <1>2 DEF PresentToken, Start, Refers, Plan, rows
<1>3. CASE AuthenticateChange(t)
  BY <1>0, <1>3 DEF AuthenticateChange, Start, Refers, Plan
<1>4. ASSUME NEW q \in Reset, FollowLink(t, q)
      PROVE  Refers(work[t])' /\ work'[t].stage \notin Plan
  BY <1>0, <1>4 DEF FollowLink, Start, Refers, Plan, rows
<1>5. QED
  BY <1>1, <1>2, <1>3, <1>4 DEF Read

\* A decision under the lock gives the plan its reason.
LEMMA DecisionWarranted ==
  ASSUME IInv, Next, NEW t \in Thread, Lock(t)
  PROVE  Refers(work[t])' /\ Warranted(work[t])'
<1>0. /\ UNCHANGED <<rows, history>>
      /\ work \in [Thread -> Work \cup {NoWork}]
  BY QuietSteps DEF IInv, TypeOK
<1> DEFINE w == work[t]
<1>1. ASSUME NEW plan \in Plan, w # NoWork, Decide(t, plan)
      PROVE  /\ work'[t].stage = plan
             /\ work'[t].password = w.password
             /\ work'[t].token = w.token
             /\ work'[t].reset = w.reset
             /\ w \in Work /\ Refers(w)
  <2>1. w \in Work /\ Refers(w)
    BY <1>1, RequestUnderWay
  <2>2. work'[t] = [w EXCEPT !.stage = plan]
    BY <1>0, <1>1 DEF Decide
  <2>3. QED
    BY <2>1, <2>2 DEF Work
<1>2. CASE DecideLogin(t)
  <2>1. w # NoWork /\ Decide(t, "open") /\ w.password = password
    BY <1>2 DEF DecideLogin, At, MayLogIn
  <2>2. work'[t].stage = "open" /\ work'[t].password = w.password
    BY <1>1, <2>1 DEF Plan
  <2>3. QED
    BY <1>0, <2>1, <2>2 DEF Refers, Warranted, rows
<1>3. CASE DecideRefresh(t)
  <2>1. w # NoWork /\ w.stage = "refresh" /\ Decide(t, IF Rotates(t) THEN "rotate" ELSE "end")
    BY <1>3 DEF DecideRefresh, At
  <2>2. /\ work'[t].stage = IF Rotates(t) THEN "rotate" ELSE "end"
        /\ work'[t].token = w.token
        /\ w.token \in 1..Len(signed)
    <3>1. CASE Rotates(t)
      BY <1>1, <2>1, <3>1 DEF Plan, Refers
    <3>2. CASE ~Rotates(t)
      BY <1>1, <2>1, <3>2 DEF Plan, Refers
    <3>3. QED
      BY <3>1, <3>2
  <2>3. Rotates(t) => session[signed[w.token]].token = w.token
                      /\ ~session[signed[w.token]].revoked
    BY DEF Rotates, Current
  <2>4. QED
    BY <1>0, <2>2, <2>3 DEF Refers, Warranted, rows
<1>4. CASE DecideLogout(t)
  <2>1. w # NoWork /\ w.stage = "logout" /\ Decide(t, "end")
    BY <1>4 DEF DecideLogout, At
  <2>2. work'[t].stage = "end" /\ work'[t].token = w.token /\ w.token \in 1..Len(signed)
    BY <1>1, <2>1 DEF Plan, Refers
  <2>3. QED
    BY <1>0, <2>2 DEF Refers, Warranted, rows
<1>5. CASE DecideChange(t)
  <2>1. w # NoWork /\ w.stage = "change" /\ Decide(t, "replace") /\ w.password = password
    BY <1>5 DEF DecideChange, At, MayChange
  <2>2. /\ work'[t].stage = "replace" /\ work'[t].reset = NoReset
        /\ work'[t].password = w.password
    BY <1>1, <2>1 DEF Plan, Refers
  <2>3. QED
    BY <1>0, <2>1, <2>2 DEF Refers, Warranted, Basis, rows
<1>6. CASE DecideReset(t)
  <2>1. /\ w # NoWork /\ w.stage = "reset" /\ Decide(t, "replace")
        /\ reset[w.reset].credential = password
    BY <1>6 DEF DecideReset, At
  <2>2. /\ work'[t].stage = "replace" /\ work'[t].reset = w.reset
        /\ w.reset \in Reset /\ reset[w.reset] # NoReset
    BY <1>1, <2>1 DEF Plan, Refers
  <2>3. QED
    BY <1>0, <2>1, <2>2 DEF Refers, Warranted, Basis, rows
<1>7. ASSUME NEW q \in Reset, RequestReset(t, q)
      PROVE  Refers(work[t])' /\ Warranted(work[t])'
  BY <1>0, <1>7 DEF RequestReset, Refers, Warranted
<1>8. QED
  BY <1>2, <1>3, <1>4, <1>5, <1>6, <1>7 DEF Lock

\* While one request holds the user row, no other request holds a plan.
LEMMA OthersUnplanned ==
  ASSUME IInv, NEW t \in Thread, HoldsUser(t), NEW u \in Thread, u # t, work[u] # NoWork
  PROVE  work[u].stage \notin Plan
BY DEF IInv, OneHolder, HoldsUser

LEMMA NoPlanWarranted ==
  ASSUME NEW w \in Work, w.stage \notin Plan
  PROVE  Warranted(w)'
BY DEF Warranted, Plan

\* What happens outside the requests does not take a plan's reason away.
LEMMA WarrantStays ==
  ASSUME IInv, Next, NEW w \in Work, Refers(w), Warranted(w),
         \/ SetEligible
         \/ \E s \in Session : ExpireSession(s)
         \/ \E q \in Reset : ExpireReset(q)
         \/ w.stage \notin Plan
  PROVE  Warranted(w)'
<1>1. CASE SetEligible
  BY <1>1 DEF SetEligible, Warranted, Basis
<1>2. CASE w.stage \notin Plan
  BY <1>2, NoPlanWarranted
<1>3. ASSUME NEW s \in Session, ExpireSession(s)
      PROVE  Warranted(w)'
  <2>1. UNCHANGED <<password, signed, reset>>
    BY <1>3 DEF ExpireSession
  <2>2. w.stage = "rotate" =>
          /\ session'[signed[w.token]].token = session[signed[w.token]].token
          /\ session'[signed[w.token]].revoked = session[signed[w.token]].revoked
    <3>1. SUFFICES ASSUME w.stage = "rotate"
                   PROVE  /\ session'[signed[w.token]].token = session[signed[w.token]].token
                          /\ session'[signed[w.token]].revoked = session[signed[w.token]].revoked
      OBVIOUS
    <3> DEFINE r == signed[w.token]
    <3>2. r \in Session /\ session[r] \in SessionRow
      BY <3>1, SessionOfToken DEF Refers, IInv
    <3>3. /\ [session[r] EXCEPT !.expired = TRUE].token = session[r].token
          /\ [session[r] EXCEPT !.expired = TRUE].revoked = session[r].revoked
      BY <3>2, SessionEdits
    <3>4. session'[r] = session[r] \/ session'[r] = [session[r] EXCEPT !.expired = TRUE]
      BY <1>3, <3>2 DEF ExpireSession, IInv, TypeOK
    <3>5. QED
      BY <3>3, <3>4, Zenon
  <2>3. QED
    BY <2>1, <2>2 DEF Warranted, Basis
<1>4. ASSUME NEW q \in Reset, ExpireReset(q)
      PROVE  Warranted(w)'
  <2>1. UNCHANGED <<password, signed, session>>
    BY <1>4 DEF ExpireReset
  <2>2. w.stage = "replace" /\ w.reset # NoReset =>
          reset'[w.reset].credential = reset[w.reset].credential
    <3>1. SUFFICES ASSUME w.stage = "replace", w.reset # NoReset
                   PROVE  reset'[w.reset].credential = reset[w.reset].credential
      OBVIOUS
    <3> DEFINE r == w.reset
    <3>2. r \in Reset /\ reset[r] \in ResetRow
      BY <3>1, WorkFields DEF Refers, IInv, TypeOK
    <3>3. [reset[r] EXCEPT !.status = "expired"].credential = reset[r].credential
      BY <3>2, ResetEdits
    <3>4. reset'[r] = reset[r] \/ reset'[r] = [reset[r] EXCEPT !.status = "expired"]
      BY <1>4, <3>2 DEF ExpireReset, IInv, TypeOK
    <3>5. QED
      BY <3>3, <3>4, Zenon
  <2>3. QED
    BY <2>1, <2>2 DEF Warranted, Basis
<1>5. QED
  BY <1>1, <1>2, <1>3, <1>4

LEMMA WorkWarrantedStep ==
  ASSUME IInv, Next
  PROVE  WorkWarranted'
<1> SUFFICES ASSUME NEW u \in Thread, work'[u] # NoWork
             PROVE  Refers(work[u])' /\ Warranted(work[u])'
  BY DEF WorkWarranted
<1>0. work \in [Thread -> Work \cup {NoWork}]
  BY DEF IInv, TypeOK
<1>1. ASSUME work'[u] = work[u]
      PROVE  /\ work[u] \in Work /\ Refers(work[u]) /\ Warranted(work[u])
             /\ Refers(work[u])'
  <2>1. work[u] \in Work /\ Refers(work[u]) /\ Warranted(work[u])
    BY <1>1, RequestUnderWay
  <2>2. ASSUME NEW w \in Work, Refers(w), work'[u] = w PROVE Refers(work[u])'
    <3>1. Refers(w)'
      BY <2>2, RefersStays
    <3>2. QED
      BY <2>2, <3>1 DEF Refers
  <2>3. QED
    BY <1>1, <2>1, <2>2
<1>2. ASSUME work'[u] = work[u], work[u].stage \notin Plan
      PROVE  Refers(work[u])' /\ Warranted(work[u])'
  BY <1>1, <1>2 DEF Warranted, Plan
<1>3. ASSUME NEW t \in Thread, Read(t)
      PROVE  Refers(work[u])' /\ Warranted(work[u])'
  <2>1. CASE u = t
    BY <1>3, <2>1, ReadRefers DEF Warranted, Plan
  <2>2. CASE u # t
    <3>1. work'[u] = work[u]
      BY <1>0, <1>3, <2>2
         DEF Read, CheckPassword, PresentToken, AuthenticateChange, FollowLink, Start
    <3>2. UNCHANGED <<password, session, signed, reset>>
      BY <1>3, QuietSteps DEF rows
    <3>3. QED
      BY <1>1, <3>1, <3>2 DEF Warranted, Basis
  <2>3. QED
    BY <2>1, <2>2
<1>4. ASSUME NEW t \in Thread, Lock(t)
      PROVE  Refers(work[u])' /\ Warranted(work[u])'
  <2>1. CASE u = t
    BY <1>4, <2>1, DecisionWarranted
  <2>2. CASE u # t
    <3>1. work'[u] = work[u]
      BY <1>0, <1>4, <2>2
         DEF Lock, DecideLogin, DecideRefresh, DecideLogout, DecideChange, DecideReset,
             Decide, RequestReset
    <3>2. UNCHANGED <<password, session, signed, reset>>
      BY <1>4, QuietSteps DEF rows
    <3>3. QED
      BY <1>1, <3>1, <3>2 DEF Warranted, Basis
  <2>3. QED
    BY <2>1, <2>2
<1>5. ASSUME NEW t \in Thread, Commit(t)
      PROVE  Refers(work[u])' /\ Warranted(work[u])'
  <2>1. HoldsUser(t) /\ Release(t)
    BY <1>5
       DEF Commit, OpenSession, Rotate, End, Replace, IssueReset, At, HoldsUser, Plan
  <2>2. u # t /\ work'[u] = work[u]
    BY <1>0, <2>1 DEF Release
  <2>3. work[u].stage \notin Plan
    BY <2>1, <2>2, OthersUnplanned
  <2>4. QED
    BY <1>2, <2>2, <2>3
<1>6. ASSUME NEW t \in Thread, Abort(t)
      PROVE  Refers(work[u])' /\ Warranted(work[u])'
  <2>1. work'[u] = work[u]
    BY <1>0, <1>6 DEF Abort, Release
  <2>2. UNCHANGED <<password, session, signed, reset>>
    BY <1>6, QuietSteps DEF rows
  <2>3. QED
    BY <1>1, <2>1, <2>2 DEF Warranted, Basis
<1>7. ASSUME SetEligible \/ SetPassword \/ (\E s \in Session : ExpireSession(s))
               \/ (\E q \in Reset : ExpireReset(q) \/ DeliverReset(q))
      PROVE  Refers(work[u])' /\ Warranted(work[u])'
  <2>1. work'[u] = work[u]
    BY <1>7 DEF SetEligible, SetPassword, ExpireSession, ExpireReset, DeliverReset
  <2>2. SetPassword \/ (\E q \in Reset : DeliverReset(q)) => work[u].stage \notin Plan
    BY <2>1 DEF SetPassword, DeliverReset, UserFree, HoldsUser
  <2>3. ASSUME NEW w \in Work, Refers(w), Warranted(w), work'[u] = w, work[u] = w
        PROVE  Warranted(work[u])'
    <3>1. Warranted(w)'
      BY <1>7, <2>2, <2>3, WarrantStays
    <3>2. QED
      BY <2>3, <3>1 DEF Warranted, Basis
  <2>4. QED
    BY <1>1, <2>1, <2>3
<1>8. QED
  BY <1>3, <1>4, <1>5, <1>6, <1>7 DEF Next

-----------------------------------------------------------------------------
(***************************************************************************)
(* Sessions and their tokens.                                              *)
(***************************************************************************)

\* What a session may become in one step.
LEMMA SessionStep ==
  ASSUME IInv, Next, NEW s \in Session
  PROVE  \/ session'[s] = session[s]
         \/ /\ session[s] \in SessionRow
            /\ \/ session'[s] = [session[s] EXCEPT !.revoked = TRUE]
               \/ session'[s] = [session[s] EXCEPT !.expired = TRUE]
         \/ \E t \in Thread : OpenSession(t, s)
         \/ \E t \in Thread : Rotate(t) /\ s = signed[work[t].token]
<1>0. session \in [Session -> SessionRow \cup {NoSession}]
  BY DEF IInv, TypeOK
<1>1. ASSUME NEW t \in Thread, NEW r \in Session, OpenSession(t, r), r # s
      PROVE  session'[s] = session[s]
  BY <1>0, <1>1 DEF OpenSession
<1>2. ASSUME NEW t \in Thread, Rotate(t), s # signed[work[t].token]
      PROVE  session'[s] = session[s]
  BY <1>0, <1>2 DEF Rotate, Rotated
<1>3. ASSUME NEW t \in Thread, End(t)
      PROVE  \/ session'[s] = session[s]
             \/ /\ session[s] \in SessionRow
                /\ session'[s] = [session[s] EXCEPT !.revoked = TRUE]
  <2> DEFINE r == signed[work[t].token]
  <2>1. r \in Session /\ session[r] \in SessionRow
    BY <1>3, SessionInHand DEF End
  <2>2. session' = [session EXCEPT ![r] = [session[r] EXCEPT !.revoked = TRUE]]
    BY <1>3 DEF End, Ended
  <2>3. QED
    BY <1>0, <2>1, <2>2
<1>4. ASSUME NEW t \in Thread, Replace(t)
      PROVE  \/ session'[s] = session[s]
             \/ /\ session[s] \in SessionRow
                /\ session'[s] = [session[s] EXCEPT !.revoked = TRUE]
  BY <1>0, <1>4, EndedType DEF Replace, SessionTyped
<1>5. ASSUME NEW r \in Session, ExpireSession(r)
      PROVE  \/ session'[s] = session[s]
             \/ /\ session[s] \in SessionRow
                /\ session'[s] = [session[s] EXCEPT !.expired = TRUE]
  BY <1>0, <1>5 DEF ExpireSession
<1>6. ASSUME NEW t \in Thread, Read(t) \/ Lock(t) \/ Abort(t) PROVE session'[s] = session[s]
  BY <1>6, QuietSteps DEF rows
<1>7. QED
  BY <1>1, <1>2, <1>3, <1>4, <1>5, <1>6
     DEF Next, Commit, IssueReset, SetEligible, SetPassword, ExpireReset, DeliverReset

Tokens == SessionRows /\ SignedForSessions /\ TokensFormChain

\* Steps that sign nothing keep the tokens and credentials of the sessions.
LEMMA UnsignedTokens ==
  ASSUME IInv, Next, UNCHANGED <<signed, exchanged, proof>>
  PROVE  Tokens'
<1>1. ASSUME NEW t \in Thread PROVE ~Rotate(t) /\ \A s \in Session : ~OpenSession(t, s)
  <2>1. ASSUME NEW s \in Session, signed' = Append(signed, s) PROVE FALSE
    BY <2>1, Appended DEF IInv, TypeOK
  <2>2. QED
    BY <2>1, SessionInHand DEF Rotate, OpenSession
<1>2. ASSUME NEW s \in Session
      PROVE  \/ session'[s] = session[s]
             \/ /\ session[s] # NoSession /\ session'[s] # NoSession
                /\ session'[s].token = session[s].token
                /\ session'[s].credential = session[s].credential
  <2>1. ASSUME session[s] \in SessionRow,
               \/ session'[s] = [session[s] EXCEPT !.revoked = TRUE]
               \/ session'[s] = [session[s] EXCEPT !.expired = TRUE]
        PROVE  /\ session[s] # NoSession /\ session'[s] # NoSession
               /\ session'[s].token = session[s].token
               /\ session'[s].credential = session[s].credential
    <3>1. /\ session'[s] \in SessionRow
          /\ session'[s].token = session[s].token
          /\ session'[s].credential = session[s].credential
      <4>1. /\ [session[s] EXCEPT !.revoked = TRUE] \in SessionRow
            /\ [session[s] EXCEPT !.revoked = TRUE].token = session[s].token
            /\ [session[s] EXCEPT !.revoked = TRUE].credential = session[s].credential
            /\ [session[s] EXCEPT !.expired = TRUE] \in SessionRow
            /\ [session[s] EXCEPT !.expired = TRUE].token = session[s].token
            /\ [session[s] EXCEPT !.expired = TRUE].credential = session[s].credential
        BY <2>1, SessionEdits
      <4>2. QED
        BY <2>1, <4>1, Zenon
    <3>2. QED
      BY <2>1, <3>1, Zenon
  <2>2. QED
    BY <1>1, <2>1, SessionStep
<1>3. \A k \in 1..Len(signed) : signed[k] \in Session
  BY DEF IInv, TypeOK
<1>4. SessionRows'
  BY <1>2 DEF IInv, SessionRows
<1>5. SignedForSessions'
  BY <1>2, <1>3 DEF IInv, SignedForSessions
<1>6. TokensFormChain'
  BY <1>2, <1>3 DEF IInv, TokensFormChain
<1>7. QED
  BY <1>4, <1>5, <1>6 DEF Tokens

LEMMA OpenedTokens ==
  ASSUME IInv, NEW t \in Thread, NEW s \in Session, OpenSession(t, s)
  PROVE  Tokens'
<1> DEFINE n == Len(signed) + 1
<1>0. /\ session \in [Session -> SessionRow \cup {NoSession}]
      /\ signed \in Seq(Session) /\ Len(signed) \in Nat
      /\ proof \in [Session -> 0..MaxPassword]
      /\ exchanged \subseteq 1..Len(signed)
      /\ password \in 1..MaxPassword
  BY DEF IInv, TypeOK
<1>1. /\ Len(signed') = n /\ signed'[n] = s
      /\ \A k \in 1..Len(signed) : signed'[k] = signed[k]
      /\ exchanged' = exchanged
  BY <1>0, Appended DEF OpenSession
<1>2. /\ session[s] = NoSession
      /\ \A r \in Session : r # s => session'[r] = session[r] /\ proof'[r] = proof[r]
  BY <1>0 DEF OpenSession
<1>3. /\ session'[s].token = n
      /\ session'[s].credential = password
      /\ session'[s] # NoSession
  <2>1. session'[s] = NewSession
    BY <1>0 DEF OpenSession
  <2>2. n \in 1..MaxToken
    BY <1>0 DEF OpenSession
  <2>3. NewSession \in SessionRow /\ NewSession.token = n /\ NewSession.credential = password
    BY <1>0, <2>2 DEF NewSession, SessionRow
  <2>4. QED
    BY <2>1, <2>3, Zenon
<1>4. proof'[s] = password
  <2>1. work[t].password = password
    BY RequestUnderWay DEF OpenSession, At, Warranted
  <2>2. QED
    BY <1>0, <2>1 DEF OpenSession
<1>5. \A k \in 1..Len(signed) : signed[k] # s /\ signed[k] \in Session
  BY <1>0, <1>2 DEF IInv, SignedForSessions
<1>6. SessionRows'
  <2> SUFFICES ASSUME NEW r \in Session, session'[r] # NoSession
               PROVE  /\ session'[r].token \in 1..n
                      /\ signed'[session'[r].token] = r
                      /\ session'[r].credential = proof'[r]
    BY <1>1 DEF SessionRows
  <2>1. CASE r = s
    BY <1>0, <1>1, <1>3, <1>4, <2>1
  <2>2. CASE r # s
    <3>1. session'[r] = session[r] /\ proof'[r] = proof[r]
      BY <1>2, <2>2
    <3>2. /\ session[r].token \in 1..Len(signed)
          /\ signed[session[r].token] = r
          /\ session[r].credential = proof[r]
      BY <3>1 DEF IInv, SessionRows
    <3>3. QED
      BY <1>0, <1>1, <3>1, <3>2
  <2>3. QED
    BY <2>1, <2>2
<1>7. SignedForSessions'
  <2> SUFFICES ASSUME NEW k \in 1..n PROVE session'[signed'[k]] # NoSession
    BY <1>1 DEF SignedForSessions
  <2>1. CASE k = n
    BY <1>1, <1>3, <2>1
  <2>2. CASE k \in 1..Len(signed)
    <3>1. signed'[k] = signed[k] /\ session[signed[k]] # NoSession
      BY <1>1, <2>2 DEF IInv, SignedForSessions
    <3>2. QED
      BY <1>2, <1>5, <2>2, <3>1
  <2>3. QED
    BY <1>0, <2>1, <2>2
<1>8. TokensFormChain'
  BY <1>0, <1>1, <1>2, <1>3, <1>5 DEF IInv, TokensFormChain
<1>9. QED
  BY <1>6, <1>7, <1>8 DEF Tokens

LEMMA RotatedTokens ==
  ASSUME IInv, NEW t \in Thread, Rotate(t)
  PROVE  Tokens'
<1> DEFINE n == Len(signed) + 1
           old == work[t].token
           s == signed[old]
<1>0. /\ session \in [Session -> SessionRow \cup {NoSession}]
      /\ signed \in Seq(Session) /\ Len(signed) \in Nat
      /\ exchanged \subseteq 1..Len(signed)
  BY DEF IInv, TypeOK
<1>1. /\ old \in 1..Len(signed) /\ s \in Session /\ session[s] \in SessionRow
      /\ session[s].token = old
  BY SessionInHand, RequestUnderWay DEF Rotate, At, Warranted
<1>2. /\ Len(signed') = n /\ signed'[n] = s
      /\ \A k \in 1..Len(signed) : signed'[k] = signed[k] /\ signed[k] \in Session
      /\ exchanged' = exchanged \cup {old}
      /\ proof' = proof
  <2>1. signed' = Append(signed, s) /\ exchanged' = exchanged \cup {old} /\ proof' = proof
    BY DEF Rotate
  <2>2. QED
    BY <1>0, <1>1, <2>1, Appended
<1>3. \A r \in Session : r # s => session'[r] = session[r]
  BY <1>0 DEF Rotate, Rotated
<1>4. /\ session'[s].token = n
      /\ session'[s].credential = session[s].credential
      /\ session'[s] # NoSession /\ session[s] # NoSession
  <2>1. session'[s] = [session[s] EXCEPT !.token = n]
    BY <1>0, <1>1 DEF Rotate, Rotated
  <2>2. n \in 1..MaxToken
    BY <1>0 DEF Rotate
  <2>3. /\ [session[s] EXCEPT !.token = n] \in SessionRow
        /\ [session[s] EXCEPT !.token = n].token = n
        /\ [session[s] EXCEPT !.token = n].credential = session[s].credential
    BY <1>1, <2>2, SessionEdits
  <2>4. QED
    BY <1>1, <2>1, <2>3, Zenon
<1>5. SessionRows'
  BY <1>0, <1>1, <1>2, <1>3, <1>4 DEF IInv, SessionRows
<1>6. SignedForSessions'
  BY <1>0, <1>1, <1>2, <1>3, <1>4 DEF IInv, SignedForSessions
<1>7. TokensFormChain'
  BY <1>0, <1>1, <1>2, <1>3, <1>4 DEF IInv, TokensFormChain
<1>8. QED
  BY <1>5, <1>6, <1>7 DEF Tokens

LEMMA TokensStep ==
  ASSUME IInv, Next
  PROVE  Tokens'
<1>1. ASSUME NEW t \in Thread, Read(t) \/ Lock(t) \/ Abort(t)
      PROVE  UNCHANGED <<signed, exchanged, proof>>
  BY <1>1, QuietSteps DEF rows, history
<1>2. ASSUME NEW t \in Thread, End(t) \/ Replace(t) \/ IssueReset(t)
      PROVE  UNCHANGED <<signed, exchanged, proof>>
  BY <1>2 DEF End, Replace, IssueReset, history
<1>3. SetEligible \/ SetPassword \/ (\E s \in Session : ExpireSession(s))
        \/ (\E q \in Reset : ExpireReset(q) \/ DeliverReset(q)) => UNCHANGED <<signed, exchanged, proof>>
  BY DEF SetEligible, SetPassword, ExpireSession, ExpireReset, DeliverReset, history
<1>4. QED
  BY <1>1, <1>2, <1>3, UnsignedTokens, OpenedTokens, RotatedTokens DEF Next, Commit

\* A revoked session is not touched again, but for the passing of time.
LEMMA RevokedRemains ==
  ASSUME IInv, Next, NEW s \in Session, session[s] # NoSession, session[s].revoked
  PROVE  /\ \A t \in Thread : ~OpenSession(t, s) /\ ~(Rotate(t) /\ s = signed[work[t].token])
         /\ session'[s] = [session[s] EXCEPT !.expired = session'[s].expired]
         /\ session'[s] # NoSession
         /\ session'[s].revoked
<1>0. session[s] \in SessionRow
  BY DEF IInv, TypeOK
<1>1. ASSUME NEW t \in Thread PROVE ~OpenSession(t, s) /\ ~(Rotate(t) /\ s = signed[work[t].token])
  BY RequestUnderWay DEF OpenSession, Rotate, At, Warranted
<1>2. \/ session'[s] = session[s]
      \/ session'[s] = [session[s] EXCEPT !.revoked = TRUE]
      \/ session'[s] = [session[s] EXCEPT !.expired = TRUE]
  BY <1>1, SessionStep
<1>3. [session[s] EXCEPT !.revoked = TRUE] = session[s]
  BY <1>0 DEF SessionRow
<1>4. session'[s] = session[s] \/ session'[s] = [session[s] EXCEPT !.expired = TRUE]
  BY <1>2, <1>3
<1>5. \A kept \in SessionRow :
        /\ kept = [kept EXCEPT !.expired = kept.expired]
        /\ [kept EXCEPT !.expired = TRUE].expired = TRUE
        /\ [kept EXCEPT !.expired = TRUE] \in SessionRow
        /\ [kept EXCEPT !.expired = TRUE].revoked = kept.revoked
  BY DEF SessionRow
<1>6. CASE session'[s] = session[s]
  <2>1. session[s] = [session[s] EXCEPT !.expired = session[s].expired]
    BY <1>0, <1>5, Zenon
  <2>2. QED
    BY <1>1, <1>6, <2>1, Zenon
<1>7. CASE session'[s] = [session[s] EXCEPT !.expired = TRUE]
  <2> DEFINE kept == session[s]
             late == [kept EXCEPT !.expired = TRUE]
  <2>1. late \in SessionRow /\ late.revoked = kept.revoked
    BY <1>0, <1>5, Zenon
  <2>2. late = [kept EXCEPT !.expired = late.expired]
    BY <1>0 DEF SessionRow
  <2>3. late # NoSession
    BY <2>1
  <2> HIDE DEF late
  <2>4. session'[s] = late
    BY <1>7 DEF late
  <2>5. QED
    BY <1>1, <2>1, <2>2, <2>3, <2>4, Zenon
<1>8. QED
  BY <1>4, <1>6, <1>7

LEMMA ReuseStep ==
  ASSUME IInv, Next
  PROVE  ReuseIsFatal'
<1>1. ASSUME NEW s \in replayed
      PROVE  session'[s] # NoSession /\ session'[s].revoked
  BY <1>1, RevokedRemains DEF IInv, TypeOK, ReuseIsFatal
<1>2. ASSUME NEW t \in Thread, End(t)
      PROVE  LET s == signed[work[t].token]
             IN  /\ session'[s] # NoSession /\ session'[s].revoked
                 /\ replayed' \subseteq replayed \cup {s}
  <2> DEFINE s == signed[work[t].token]
  <2>1. s \in Session /\ session[s] \in SessionRow
    BY <1>2, SessionInHand DEF End
  <2>2. session'[s] = [session[s] EXCEPT !.revoked = TRUE]
    BY <1>2, <2>1 DEF End, Ended, IInv, TypeOK
  <2>3. /\ [session[s] EXCEPT !.revoked = TRUE] \in SessionRow
        /\ [session[s] EXCEPT !.revoked = TRUE].revoked
    BY <2>1 DEF SessionRow
  <2>4. session'[s] # NoSession /\ session'[s].revoked
    BY <2>2, <2>3
  <2>5. replayed' \subseteq replayed \cup {s}
    BY <1>2 DEF End
  <2>6. QED
    BY <2>4, <2>5
<1>3. ASSUME NEW t \in Thread, Read(t) \/ Lock(t) \/ Abort(t) PROVE replayed' = replayed
  BY <1>3, QuietSteps DEF history
<1>4. replayed' = replayed => ReuseIsFatal'
  BY <1>1 DEF ReuseIsFatal
<1>5. ASSUME NEW t \in Thread, End(t) PROVE ReuseIsFatal'
  BY <1>1, <1>2, <1>5 DEF ReuseIsFatal
<1>6. QED
  BY <1>3, <1>4, <1>5
     DEF Next, Commit, OpenSession, Rotate, Replace, IssueReset, SetEligible, SetPassword,
         ExpireSession, ExpireReset, DeliverReset, history

-----------------------------------------------------------------------------
(***************************************************************************)
(* Passwords and reset links.                                              *)
(***************************************************************************)

LEMMA BasisStep ==
  ASSUME IInv, Next
  PROVE  ReplacementsBuildOnCurrent'
<1>0. /\ basis \in Seq(1..MaxPassword) /\ password \in 1..MaxPassword
      /\ Len(basis) = password - 1
      /\ \A p \in 1..Len(basis) : basis[p] = p
  BY DEF IInv, TypeOK, ReplacementsBuildOnCurrent
<1>1. ASSUME basis' = Append(basis, password), password' = password + 1
      PROVE  ReplacementsBuildOnCurrent'
  <2>1. /\ Len(basis') = Len(basis) + 1
        /\ \A i \in 1..Len(basis) : basis'[i] = basis[i]
        /\ basis'[Len(basis) + 1] = password
    BY <1>0, <1>1, Appended
  <2>2. QED
    BY <1>0, <1>1, <2>1 DEF ReplacementsBuildOnCurrent
<1>2. ASSUME NEW t \in Thread, Replace(t) PROVE ReplacementsBuildOnCurrent'
  <2>1. Basis(work[t]) = password
    BY <1>2, RequestUnderWay DEF Replace, At, Warranted
  <2>2. QED
    BY <1>1, <1>2, <2>1 DEF Replace
<1>3. SetPassword => ReplacementsBuildOnCurrent'
  BY <1>1 DEF SetPassword
<1>4. UNCHANGED <<basis, password>> => ReplacementsBuildOnCurrent'
  BY <1>0 DEF ReplacementsBuildOnCurrent
<1>5. ASSUME NEW t \in Thread, Read(t) \/ Lock(t) \/ Abort(t)
      PROVE  UNCHANGED <<basis, password>>
  BY <1>5, QuietSteps DEF rows, history
<1>6. QED
  BY <1>2, <1>3, <1>4, <1>5
     DEF Next, Commit, OpenSession, Rotate, End, IssueReset, SetEligible, ExpireSession,
         ExpireReset, DeliverReset, history

Open(q) == reset[q] # NoReset /\ reset[q].status \in {"open", "expired"}

LEMMA OneOpenResetStep ==
  ASSUME IInv, Next
  PROVE  OneOpenReset'
<1> SUFFICES ASSUME NEW q \in Reset, NEW r \in Reset, Open(q)', Open(r)' PROVE q = r
  BY DEF OneOpenReset, Open
<1>0. reset \in [Reset -> ResetRow \cup {NoReset}]
  BY DEF IInv, TypeOK
<1>1. ASSUME NEW t \in Thread, IssueReset(t), NEW p \in Reset, p # work[t].reset
      PROVE  ~Open(p)'
  <2>1. CASE p \in OpenResets
    <3>1. reset[p] \in ResetRow
      BY <1>0, <2>1 DEF OpenResets
    <3>2. reset'[p] = [reset[p] EXCEPT !.status = "invalidated"]
      BY <1>1, <2>1 DEF IssueReset
    <3>3. [reset[p] EXCEPT !.status = "invalidated"].status = "invalidated"
      BY <3>1, ResetEdits
    <3>4. QED
      BY <3>2, <3>3 DEF Open
  <2>2. CASE p \notin OpenResets
    BY <1>1, <2>2 DEF IssueReset, OpenResets, Open
  <2>3. QED
    BY <2>1, <2>2
<1>2. ASSUME NEW p \in Reset, \A t \in Thread : ~IssueReset(t), Open(p)'
      PROVE  Open(p)
  <2>1. ASSUME NEW x \in {"expired", "consumed", "invalidated"}, reset[p] \in ResetRow,
               reset'[p] = [reset[p] EXCEPT !.status = x],
               x = "expired" => reset[p].status = "open"
        PROVE  Open(p)
    <3>1. [reset[p] EXCEPT !.status = x].status = x
      BY <2>1, ResetEdits
    <3>2. reset'[p].status = x
      BY <2>1, <3>1, Zenon
    <3>3. x = "expired"
      BY <1>2, <3>2 DEF Open
    <3>4. QED
      BY <2>1, <3>3, ResetFields DEF Open
  <2>2. CASE reset'[p] = reset[p]
    BY <1>2, <2>2 DEF Open
  <2>3. QED
    BY <1>2, <2>1, <2>2, ResetStep
<1>3. CASE \E t \in Thread : IssueReset(t)
  BY <1>1, <1>3
<1>4. CASE \A t \in Thread : ~IssueReset(t)
  BY <1>2, <1>4 DEF IInv, OneOpenReset, Open
<1>5. QED
  BY <1>3, <1>4

-----------------------------------------------------------------------------
(***************************************************************************)
(* The theorems.                                                           *)
(***************************************************************************)

LEMMA InitInv == Init => IInv
<1> SUFFICES ASSUME Init PROVE IInv
  OBVIOUS
<1>1. TypeOK
  BY InitTyped
<1>2. Len(signed) = 0 /\ Len(basis) = 0
  BY DEF Init
<1>3. OneHolder /\ WorkWarranted
  BY DEF Init, OneHolder, HoldsUser, WorkWarranted
<1>4. SessionRows /\ SignedForSessions /\ TokensFormChain
  BY <1>2 DEF Init, SessionRows, SignedForSessions, TokensFormChain
<1>5. ReuseIsFatal /\ ReplacementsBuildOnCurrent /\ OneOpenReset
  BY <1>2 DEF Init, ReuseIsFatal, ReplacementsBuildOnCurrent, OneOpenReset
<1>6. QED
  BY <1>1, <1>3, <1>4, <1>5 DEF IInv

LEMMA Stutter == IInv /\ UNCHANGED vars => IInv'
BY DEF IInv, vars, rows, history, TypeOK, OneHolder, HoldsUser, WorkWarranted, Refers,
       Warranted, Basis, SessionRows, SignedForSessions, TokensFormChain, ReuseIsFatal,
       ReplacementsBuildOnCurrent, OneOpenReset

\* The lock on the user row keeps what a request decided on true until it
\* commits, and with it the chain of tokens and the sequence of passwords.
THEOREM UserLockHolds == Spec => []IInv
<1>1. IInv /\ Next => IInv'
  BY TypeStep, OneHolderStep, WorkWarrantedStep, TokensStep, ReuseStep, BasisStep,
     OneOpenResetStep
     DEF IInv, Tokens
<1>2. IInv /\ [Next]_vars => IInv'
  BY <1>1, Stutter
<1>3. QED
  BY InitInv, <1>2, PTL DEF Spec

\* Every row, plan and record of the past keeps its type.
THEOREM TypeCorrect == Spec => []TypeOK
<1>1. IInv => TypeOK
  BY DEF IInv
<1>2. QED
  BY <1>1, UserLockHolds, PTL

\* A refresh token is exchanged at most once, however many requests present it.
THEOREM TokensStayAChain == Spec => []TokensFormChain
<1>1. IInv => TokensFormChain
  BY DEF IInv
<1>2. QED
  BY <1>1, UserLockHolds, PTL

\* Presenting an exchanged token again costs the session its life, for good.
THEOREM ReuseStaysFatal == Spec => []ReuseIsFatal
<1>1. IInv => ReuseIsFatal
  BY DEF IInv
<1>2. QED
  BY <1>1, UserLockHolds, PTL

\* A session that authenticates was opened with the password as it now is.
THEOREM SessionsAreProved == Spec => []SessionsProvePassword
<1>1. IInv => SessionsProvePassword
  BY DEF IInv, SessionRows, SessionsProvePassword, Current
<1>2. QED
  BY <1>1, UserLockHolds, PTL

\* Of two password changes that start from the same password, one takes effect.
THEOREM NoPasswordIsLost == Spec => []ReplacementsBuildOnCurrent
<1>1. IInv => ReplacementsBuildOnCurrent
  BY DEF IInv
<1>2. QED
  BY <1>1, UserLockHolds, PTL

\* The unique index on open reset rows never refuses a request.
THEOREM OneOpenResetEach == Spec => []OneOpenReset
<1>1. IInv => OneOpenReset
  BY DEF IInv
<1>2. QED
  BY <1>1, UserLockHolds, PTL

\* A revoked session stays as it is but for the passing of time, and no token
\* is signed for it any more.
THEOREM RevocationStaysFinal == Spec => RevocationIsFinal
<1>1. IInv /\ [Next]_vars =>
        [\A s \in Session :
            session[s] # NoSession /\ session[s].revoked =>
                /\ session'[s] = [session[s] EXCEPT !.expired = session'[s].expired]
                /\ \A k \in (Len(signed) + 1)..Len(signed') : signed'[k] # s]_vars
  <2> SUFFICES ASSUME IInv, Next, NEW s \in Session,
                      session[s] # NoSession, session[s].revoked
               PROVE  /\ session'[s] = [session[s] EXCEPT !.expired = session'[s].expired]
                      /\ \A k \in (Len(signed) + 1)..Len(signed') : signed'[k] # s
    OBVIOUS
  <2>1. session'[s] = [session[s] EXCEPT !.expired = session'[s].expired]
    BY RevokedRemains
  <2>2. signed \in Seq(Session) /\ Len(signed) \in Nat
    BY DEF IInv, TypeOK
  <2>3. ASSUME NEW r \in Session, r # s, signed' = Append(signed, r)
        PROVE  \A k \in (Len(signed) + 1)..Len(signed') : signed'[k] # s
    BY <2>2, <2>3, Appended
  <2>4. signed' = signed => \A k \in (Len(signed) + 1)..Len(signed') : signed'[k] # s
    BY <2>2
  <2>5. \/ signed' = signed
        \/ \E r \in Session : r # s /\ signed' = Append(signed, r)
    BY RevokedRemains, SignedStep
  <2>6. QED
    BY <2>1, <2>3, <2>4, <2>5
<1>2. QED
  BY <1>1, UserLockHolds, PTL DEF Spec, RevocationIsFinal
-----------------------------------------------------------------------------
(***************************************************************************)
(* The mailing of invitations (InvitationQueue), for every number of runs, *)
(* tenants, rows, attempts and crashes.                                    *)
(***************************************************************************)

USE InvitationQueueAssumption

\* What Selected leaves comes from its argument and is as distinct as that was.
Distinct(s) == \A j, k \in DOMAIN s : s[j] = s[k] => j = k

LEMMA SelectedFacts ==
  ASSUME NEW A, NEW s \in Seq(A), NEW S
  PROVE  /\ Selected(s, S) \in Seq(A \cap S)
         /\ Distinct(s) => Distinct(Selected(s, S))
<1> DEFINE N == Len(s)
           Kept(f) == f = [n \in 0..N |->
                             IF n = 0 THEN <<>>
                             ELSE IF s[n] \in S THEN Append(f[n - 1], s[n]) ELSE f[n - 1]]
           h == CHOOSE g : Kept(g)
<1>1. N \in Nat /\ DOMAIN s = 1..N /\ \A n \in 1..N : s[n] \in A
  BY LenProperties, ElementOfSeq
<1>2. Selected(s, S) = h[N]
  BY DEF Selected
<1> HIDE DEF N
<1>3. Kept(h)
  <2> DEFINE step == [z \in Seq(A) \X (1..N) |->
                        IF s[z[2]] \in S THEN Append(z[1], s[z[2]]) ELSE z[1]]
  <2>1. step \in [Seq(A) \X (1..N) -> Seq(A)]
    BY <1>1, AppendProperties
  <2>2. <<>> \in Seq(A)
    BY EmptySeq
  <2> HIDE DEF step
  <2>3. PICK g \in [0..N -> Seq(A)] :
            g[0] = <<>> /\ \A n \in 1..N : g[n] = step[<<g[n - 1], n>>]
    <3>1. Histories(N, Seq(A), <<>>, step) # {}
      BY <1>1, <2>1, <2>2, Iteration
    <3>2. QED
      BY <3>1 DEF Histories
  <2>4. ASSUME NEW n \in 1..N
        PROVE  g[n] = IF s[n] \in S THEN Append(g[n - 1], s[n]) ELSE g[n - 1]
    <3>1. n - 1 \in 0..N
      BY <1>1
    <3>2. <<g[n - 1], n>> \in Seq(A) \X (1..N)
      BY <2>3, <3>1
    <3>3. g[n] = step[<<g[n - 1], n>>]
      BY <2>3
    <3>4. QED
      BY <3>2, <3>3 DEF step
  <2>5. Kept(g)
    <3>1. \A n \in 0..N : n = 0 \/ n \in 1..N
      BY <1>1
    <3>2. QED
      BY <2>3, <2>4, <3>1
  <2>6. QED
    BY <2>5
<1> HIDE DEF h
<1>4. /\ h[0] = <<>>
      /\ \A n \in 1..N : h[n] = IF s[n] \in S THEN Append(h[n - 1], s[n]) ELSE h[n - 1]
  <2>1. h[0] = <<>>
    BY <1>1, <1>3
  <2>2. ASSUME NEW n \in 1..N
        PROVE  h[n] = IF s[n] \in S THEN Append(h[n - 1], s[n]) ELSE h[n - 1]
    <3>1. n \in 0..N /\ n # 0
      BY <1>1
    <3>2. QED
      BY <1>3, <3>1, Zenon
  <2>3. QED
    BY <2>1, <2>2
<1> DEFINE Good(n) == /\ h[n] \in Seq(A \cap S)
                      /\ \A k \in DOMAIN h[n] : \E j \in 1..n : s[j] = h[n][k]
                      /\ Distinct(s) => Distinct(h[n])
           Bad == {n \in 0..N : ~Good(n)}
<1>5. SUFFICES ASSUME Bad # {} PROVE FALSE
  BY <1>1, <1>2
<1>6. PICK n \in Bad : \A m \in Nat : m < n => m \notin Bad
  <2>1. Bad \in SUBSET Nat
    OBVIOUS
  <2> HIDE DEF Bad
  <2>2. QED
    BY <1>5, <2>1, LeastNumber
<1>7. CASE n = 0
  <2>1. h[0] \in Seq(A \cap S) /\ DOMAIN h[0] = {}
    BY <1>4
  <2>2. QED
    BY <1>6, <1>7, <2>1 DEF Distinct
<1>8. CASE n # 0
  <2>1. n \in 1..N /\ n - 1 \in Nat /\ n - 1 < n /\ n - 1 \in 0..N
    BY <1>1, <1>6, <1>8
  <2>2. Good(n - 1)
    BY <1>6, <2>1
  <2> DEFINE before == h[n - 1]
  <2>3. /\ before \in Seq(A \cap S)
        /\ \A k \in DOMAIN before : \E j \in 1..(n - 1) : s[j] = before[k]
        /\ Distinct(s) => Distinct(before)
    BY <2>2
  <2> HIDE DEF before
  <2>4. CASE s[n] \notin S
    <3>1. h[n] = before
      BY <1>4, <2>1, <2>4 DEF before
    <3>2. Good(n)
      BY <2>1, <2>3, <3>1
    <3>3. QED
      BY <1>6, <3>2
  <2>5. CASE s[n] \in S
    <3> DEFINE after == Append(before, s[n])
    <3>1. h[n] = after
      BY <1>4, <2>1, <2>5 DEF before
    <3>2. s[n] \in A \cap S
      BY <1>1, <2>1, <2>5
    <3>3. /\ after \in Seq(A \cap S) /\ Len(before) \in Nat
          /\ DOMAIN after = 1..(Len(before) + 1) /\ DOMAIN before = 1..Len(before)
          /\ \A k \in DOMAIN before : after[k] = before[k]
          /\ after[Len(before) + 1] = s[n]
      BY <2>3, <3>2, AppendProperties, LenProperties
    <3> HIDE DEF after
    <3>4. \A k \in DOMAIN after : k \in DOMAIN before \/ k = Len(before) + 1
      BY <3>3
    <3>5. \A k \in DOMAIN after : \E j \in 1..n : s[j] = after[k]
      BY <2>1, <2>3, <3>3, <3>4
    <3>6. ASSUME Distinct(s) PROVE Distinct(after)
      <4>1. \A k \in DOMAIN before : before[k] # s[n]
        BY <1>1, <2>1, <2>3, <3>6 DEF Distinct
      <4>2. Distinct(before)
        BY <2>3, <3>6
      <4>3. QED
        BY <3>3, <3>4, <4>1, <4>2 DEF Distinct
    <3>7. Good(n)
      BY <3>1, <3>3, <3>5, <3>6
    <3>8. QED
      BY <1>6, <3>7
  <2>6. QED
    BY <2>4, <2>5
<1>9. QED
  BY <1>7, <1>8

-----------------------------------------------------------------------------
(***************************************************************************)
(* The inductive invariant.  Batches and the order name rows that exist,   *)
(* and the lock of a tenant keeps what its run has checked.                *)
(***************************************************************************)
Invited == {i \in Invitation : row[i] # NoInvitation}
Busy(w) == stage[w] # "reading"

Types ==
    /\ active \subseteq Tenant
    /\ row \in [Invitation -> Row \cup {NoInvitation}]
    /\ order \in Seq(Invited)
    /\ Distinct(order)
    /\ todo \in [Worker -> Seq(Invited)]
    /\ stage \in [Worker -> Stage]
    /\ \A w \in Worker : Busy(w) => todo[w] # <<>>
    /\ crashes \in 0..MaxCrash
    /\ copies \in [Invitation -> Nat]
    /\ unrecorded \in [Invitation -> Nat]

\* Two runs never are at rows of one tenant.
Exclusive ==
    \A v, w \in Worker :
        Busy(v) /\ Busy(w) /\ row[AtHand(v)].tenant = row[AtHand(w)].tenant => v = w

\* What the run has checked stays so until it has saved the row.
Held(w) ==
    Busy(w) => /\ row[AtHand(w)].open
               /\ ~row[AtHand(w)].sent
               /\ row[AtHand(w)].attempts < MaxAttempts
               /\ row[AtHand(w)].tenant \in active

Taken(i) == \E w \in Worker : stage[w] = "accepted" /\ AtHand(w) = i
Sent(i) == row[i] # NoInvitation /\ row[i].sent
Accounted(i) ==
    copies[i] = unrecorded[i] + (IF Taken(i) THEN 1 ELSE 0) + (IF Sent(i) THEN 1 ELSE 0)

QueueInv ==
    /\ Types
    /\ Exclusive
    /\ \A w \in Worker : Held(w)
    /\ \A i \in Invitation : Accounted(i)

LEMMA InitQueue == QueueInit => QueueInv
<1> SUFFICES ASSUME QueueInit PROVE QueueInv
  OBVIOUS
<1> USE DEF QueueInit
<1>1. Types
  <2>1. order \in Seq(Invited) /\ \A w \in Worker : todo[w] \in Seq(Invited)
    BY EmptySeq
  <2>2. Distinct(order)
    BY DEF Distinct
  <2>3. QED
    BY <2>1, <2>2 DEF Types, Busy, Stage
<1>2. Exclusive /\ \A w \in Worker : Held(w)
  BY DEF Exclusive, Held, Busy
<1>3. ASSUME NEW i \in Invitation PROVE Accounted(i)
  <2>1. ~Taken(i) /\ ~Sent(i)
    BY DEF Taken, Sent
  <2>2. QED
    BY <2>1 DEF Accounted
<1>4. QED
  BY <1>1, <1>2, <1>3 DEF QueueInv

\* The first of a batch.
LEMMA AtWork ==
  ASSUME Types, NEW w \in Worker, todo[w] # <<>>
  PROVE  /\ AtHand(w) \in Invitation
         /\ row[AtHand(w)] \in Row
         /\ Tail(todo[w]) \in Seq(Invited)
<1>1. todo[w] \in Seq(Invited)
  BY DEF Types
<1>2. Head(todo[w]) \in Invited /\ Tail(todo[w]) \in Seq(Invited)
  BY <1>1, HeadTailProperties
<1>3. QED
  BY <1>2 DEF AtHand, Invited, Types

\* A batch stays a batch while rows are only added.
LEMMA BatchesKept ==
  ASSUME Types, Invited \subseteq Invited', UNCHANGED todo
  PROVE  todo' \in [Worker -> Seq(Invited')]
<1>1. \A w \in Worker : todo[w] \in Seq(Invited')
  BY SeqMonotonic DEF Types
<1>2. QED
  BY <1>1 DEF Types

\* A step that leaves the runs and the mails alone, and the rows the runs are at.
LEMMA RunsKept ==
  ASSUME QueueInv, UNCHANGED <<todo, stage, copies, unrecorded>>,
         \A w \in Worker :
            Busy(w) => /\ row'[AtHand(w)].tenant = row[AtHand(w)].tenant
                       /\ row'[AtHand(w)].open = row[AtHand(w)].open
                       /\ row'[AtHand(w)].sent = row[AtHand(w)].sent
                       /\ row'[AtHand(w)].attempts = row[AtHand(w)].attempts
                       /\ row[AtHand(w)].tenant \in active',
         \A i \in Invitation : Sent(i)' <=> Sent(i)
  PROVE  Exclusive' /\ (\A w \in Worker : Held(w)') /\ (\A i \in Invitation : Accounted(i)')
<1>1. \A w \in Worker : (Busy(w)' <=> Busy(w)) /\ AtHand(w)' = AtHand(w)
  BY DEF Busy, AtHand
<1>2. Exclusive'
  BY <1>1 DEF QueueInv, Exclusive
<1>3. ASSUME NEW w \in Worker PROVE Held(w)'
  BY <1>1 DEF QueueInv, Held
<1>4. ASSUME NEW i \in Invitation PROVE Accounted(i)'
  <2>1. Taken(i)' <=> Taken(i)
    BY <1>1 DEF Taken
  <2>2. Accounted(i)
    BY DEF QueueInv
  <2>3. QED
    BY <2>1, <2>2 DEF Accounted
<1>5. QED
  BY <1>2, <1>3, <1>4

LEMMA InviteStep ==
  ASSUME QueueInv, NEW i \in Invitation, NEW t \in Tenant, NEW same \in SUBSET Invitation,
         Invite(i, t, same)
  PROVE  QueueInv'
<1> USE DEF Invite
<1>1. Types /\ \A w \in Worker : Busy(w) => todo[w] # <<>>
  BY DEF QueueInv, Types
<1>2. ASSUME NEW j \in Invitation, j # i
      PROVE  /\ row'[j] = IF j \in same THEN [row[j] EXCEPT !.open = FALSE] ELSE row[j]
             /\ j \in same => row[j] \in Row /\ row[j].tenant = t
  BY <1>1, <1>2 DEF Types, OpenAt
<1>3. /\ row'[i] = [tenant |-> t, open |-> TRUE, expired |-> FALSE, sent |-> FALSE,
                    attempts |-> 0]
      /\ row'[i] \in Row
  BY <1>1 DEF Types, Row, QueueInv
<1>4. ASSUME NEW j \in Invitation
      PROVE  /\ row'[j] \in Row \cup {NoInvitation}
             /\ row[j] # NoInvitation => row'[j] # NoInvitation
             /\ Sent(j)' <=> Sent(j)
  <2>1. CASE j = i
    <3>1. ~Sent(j)' /\ ~Sent(j)
      BY <1>3, <2>1 DEF Sent
    <3>2. QED
      BY <1>3, <2>1, <3>1
  <2>2. CASE j # i /\ j \in same
    <3>1. row[j] \in Row /\ row'[j] = [row[j] EXCEPT !.open = FALSE]
      BY <1>2, <2>2
    <3>2. row'[j] \in Row /\ row'[j].sent = row[j].sent
      BY <3>1 DEF Row
    <3>3. QED
      BY <1>1, <3>1, <3>2 DEF Sent, QueueInv
  <2>3. CASE j # i /\ j \notin same
    BY <1>1, <1>2, <2>3 DEF Types, Sent
  <2>4. QED
    BY <2>1, <2>2, <2>3
<1>5. Invited \subseteq Invited' /\ i \in Invited' /\ i \notin Invited
  BY <1>3, <1>4 DEF Invited, QueueInv
<1>6. order' \in Seq(Invited') /\ Distinct(order')
  <2>1. order \in Seq(Invited) /\ order \in Seq(Invited') /\ Distinct(order)
    BY <1>1, <1>5, SeqMonotonic DEF Types
  <2>2. /\ order' \in Seq(Invited') /\ Len(order) \in Nat
        /\ DOMAIN order' = 1..(Len(order) + 1) /\ DOMAIN order = 1..Len(order)
        /\ \A k \in DOMAIN order : order'[k] = order[k] /\ order[k] \in Invited
        /\ order'[Len(order) + 1] = i
    BY <1>5, <2>1, AppendProperties, LenProperties, ElementOfSeq
  <2>3. \A k \in DOMAIN order' : k \in DOMAIN order \/ k = Len(order) + 1
    BY <2>2
  <2>4. QED
    BY <1>5, <2>1, <2>2, <2>3 DEF Distinct
<1>7. Types'
  <2>1. todo' \in [Worker -> Seq(Invited')]
    BY <1>1, <1>5, BatchesKept
  <2>2. row' \in [Invitation -> Row \cup {NoInvitation}]
    BY <1>4
  <2>3. QED
    BY <1>1, <1>6, <2>1, <2>2 DEF Types, Busy
<1>8. ASSUME NEW w \in Worker, Busy(w)
      PROVE  row'[AtHand(w)] = row[AtHand(w)] /\ row[AtHand(w)].tenant \in active'
  <2>1. AtHand(w) \in Invitation /\ row[AtHand(w)] \in Row
    BY <1>1, <1>8, AtWork
  <2>2. AtHand(w) # i
    BY <2>1 DEF QueueInv
  <2>3. row[AtHand(w)].tenant # t
    BY <1>8 DEF TenantFree, Holds, Busy
  <2>4. QED
    BY <1>2, <1>8, <2>1, <2>2, <2>3 DEF QueueInv, Held
<1>9. QED
  BY <1>4, <1>7, <1>8, RunsKept DEF QueueInv

\* One field of a row changes.
LEMMA RowSet ==
  ASSUME QueueInv, NEW i \in Invitation, NEW new, row[i] # NoInvitation, new \in Row,
         row' = [row EXCEPT ![i] = new]
  PROVE  /\ row' \in [Invitation -> Row \cup {NoInvitation}]
         /\ Invited' = Invited
         /\ row'[i] = new
         /\ \A j \in Invitation \ {i} : row'[j] = row[j]
BY DEF QueueInv, Types, Invited

LEMMA CloseStep ==
  ASSUME QueueInv, NEW i \in Invitation, Close(i)
  PROVE  QueueInv'
<1> USE DEF Close
<1> DEFINE new == [row[i] EXCEPT !.open = FALSE]
<1>1. Types /\ row[i] \in Row
  BY DEF QueueInv, Types
<1>2. new \in Row /\ new.sent = row[i].sent /\ row' = [row EXCEPT ![i] = new]
  BY <1>1 DEF Row, Types
<1> HIDE DEF new
<1>3. /\ row' \in [Invitation -> Row \cup {NoInvitation}] /\ Invited' = Invited
      /\ row'[i] = new /\ \A j \in Invitation \ {i} : row'[j] = row[j]
  BY <1>2, RowSet
<1>4. Types'
  BY <1>1, <1>3 DEF Types, Busy
<1>5. ASSUME NEW w \in Worker, Busy(w)
      PROVE  row'[AtHand(w)] = row[AtHand(w)] /\ row[AtHand(w)].tenant \in active'
  <2>1. AtHand(w) \in Invitation /\ todo[w] # <<>>
    BY <1>1, <1>5, AtWork DEF Types
  <2>2. AtHand(w) # i
    BY <1>5 DEF TenantFree, Holds, Busy
  <2>3. QED
    BY <1>3, <1>5, <2>1, <2>2 DEF QueueInv, Held
<1>6. ASSUME NEW j \in Invitation PROVE Sent(j)' <=> Sent(j)
  BY <1>1, <1>2, <1>3 DEF Sent, QueueInv
<1>7. QED
  BY <1>4, <1>5, <1>6, RunsKept DEF QueueInv

LEMMA ExpireStep ==
  ASSUME QueueInv, NEW i \in Invitation, Expire(i)
  PROVE  QueueInv'
<1> USE DEF Expire
<1> DEFINE new == [row[i] EXCEPT !.expired = TRUE]
<1>1. Types /\ row[i] \in Row
  BY DEF QueueInv, Types
<1>2. /\ new \in Row /\ row' = [row EXCEPT ![i] = new]
      /\ new.sent = row[i].sent /\ new.tenant = row[i].tenant
      /\ new.open = row[i].open /\ new.attempts = row[i].attempts
  BY <1>1 DEF Row, Types
<1> HIDE DEF new
<1>3. /\ row' \in [Invitation -> Row \cup {NoInvitation}] /\ Invited' = Invited
      /\ row'[i] = new /\ \A j \in Invitation \ {i} : row'[j] = row[j]
  BY <1>2, RowSet
<1>4. Types'
  BY <1>1, <1>3 DEF Types, Busy
<1>5. ASSUME NEW w \in Worker, Busy(w)
      PROVE  /\ row'[AtHand(w)].tenant = row[AtHand(w)].tenant
             /\ row'[AtHand(w)].open = row[AtHand(w)].open
             /\ row'[AtHand(w)].sent = row[AtHand(w)].sent
             /\ row'[AtHand(w)].attempts = row[AtHand(w)].attempts
             /\ row[AtHand(w)].tenant \in active'
  <2>1. AtHand(w) \in Invitation /\ todo[w] # <<>>
    BY <1>1, <1>5, AtWork DEF Types
  <2>2. QED
    BY <1>2, <1>3, <1>5, <2>1 DEF QueueInv, Held
<1>6. ASSUME NEW j \in Invitation PROVE Sent(j)' <=> Sent(j)
  BY <1>1, <1>2, <1>3 DEF Sent, QueueInv
<1>7. QED
  BY <1>4, <1>5, <1>6, RunsKept DEF QueueInv

LEMMA BackOffEndsStep ==
  ASSUME QueueInv, NEW i \in Invitation, BackOffEnds(i)
  PROVE  QueueInv'
<1> USE DEF BackOffEnds
<1>1. Types /\ Invited' = Invited /\ i \in Invited
  BY DEF QueueInv, Invited
<1>2. order' \in Seq(Invited) /\ Distinct(order')
  <2>1. order \in Seq(Invited) /\ Distinct(order)
    BY <1>1 DEF Types
  <2>2. /\ order' \in Seq(Invited) /\ Len(order) \in Nat
        /\ DOMAIN order' = 1..(Len(order) + 1) /\ DOMAIN order = 1..Len(order)
        /\ \A k \in DOMAIN order : order'[k] = order[k]
        /\ order'[Len(order) + 1] = i
    BY <1>1, <2>1, AppendProperties, LenProperties
  <2>3. \A k \in DOMAIN order' : k \in DOMAIN order \/ k = Len(order) + 1
    BY <2>2
  <2>4. QED
    BY <2>1, <2>2, <2>3 DEF Distinct, Listed
<1>3. Types'
  BY <1>1, <1>2 DEF Types, Busy
<1>4. \A j \in Invitation : Sent(j)' <=> Sent(j)
  BY DEF Sent
<1>5. \A w \in Worker : Busy(w) => row[AtHand(w)].tenant \in active'
  BY DEF QueueInv, Held
<1>6. QED
  BY <1>3, <1>4, <1>5, RunsKept DEF QueueInv

LEMMA ArchiveStep ==
  ASSUME QueueInv, NEW t \in Tenant, ArchiveOrganization(t)
  PROVE  QueueInv'
<1> USE DEF ArchiveOrganization
<1>1. Types /\ Invited' = Invited
  BY DEF QueueInv, Invited
<1>2. Types'
  BY <1>1 DEF Types, Busy
<1>3. ASSUME NEW w \in Worker, Busy(w) PROVE row[AtHand(w)].tenant \in active'
  <2>1. row[AtHand(w)].tenant # t
    BY <1>3 DEF TenantFree, Holds, Busy
  <2>2. QED
    BY <1>3, <2>1 DEF QueueInv, Held
<1>4. \A j \in Invitation : Sent(j)' <=> Sent(j)
  BY DEF Sent
<1>5. QED
  BY <1>2, <1>3, <1>4, RunsKept DEF QueueInv

\* A step of w leaves the other runs where they are.
LEMMA OthersKept ==
  ASSUME QueueInv, NEW w \in Worker, NEW x, NEW y \in Stage, x \in Seq(Invited),
         y # "reading" => x # <<>>, Invited' = Invited,
         todo' = [todo EXCEPT ![w] = x], stage' = [stage EXCEPT ![w] = y]
  PROVE  /\ todo' \in [Worker -> Seq(Invited')]
         /\ stage' \in [Worker -> Stage]
         /\ \A v \in Worker : Busy(v)' => todo'[v] # <<>>
         /\ stage'[w] = y /\ (Busy(w)' <=> y # "reading") /\ AtHand(w)' = Head(x)
         /\ \A v \in Worker \ {w} : /\ stage'[v] = stage[v]
                                    /\ Busy(v)' <=> Busy(v)
                                    /\ AtHand(v)' = AtHand(v)
<1>1. todo \in [Worker -> Seq(Invited)] /\ stage \in [Worker -> Stage]
  BY DEF QueueInv, Types
<1> DEFINE Batches == Seq(Invited)
<1>2. todo \in [Worker -> Batches] /\ x \in Batches /\ Seq(Invited') = Batches
  BY <1>1
<1> HIDE DEF Batches
<1>3. todo' \in [Worker -> Batches] /\ todo'[w] = x /\ \A v \in Worker \ {w} : todo'[v] = todo[v]
  BY <1>2
<1>4. /\ stage' \in [Worker -> Stage] /\ stage'[w] = y
      /\ \A v \in Worker \ {w} : stage'[v] = stage[v]
  BY <1>1
<1>5. \A v \in Worker : Busy(v)' => todo'[v] # <<>>
  BY <1>3, <1>4 DEF Busy, QueueInv, Types
<1>6. QED
  BY <1>2, <1>3, <1>4, <1>5 DEF Busy, AtHand

\* No two runs are at one row.
LEMMA Alone ==
  ASSUME QueueInv, NEW v \in Worker, NEW w \in Worker, Busy(v), Busy(w), AtHand(v) = AtHand(w)
  PROVE  v = w
BY DEF QueueInv, Exclusive

LEMMA ReadBatchStep ==
  ASSUME QueueInv, NEW w \in Worker, ReadBatch(w)
  PROVE  QueueInv'
<1> USE DEF ReadBatch
<1> DEFINE n == IF Len(DueRows) < Batch THEN Len(DueRows) ELSE Batch
           x == SubSeq(DueRows, 1, n)
<1>1. Types /\ Invited' = Invited /\ todo[w] = <<>> /\ ~Busy(w) /\ stage[w] = "reading"
  BY DEF QueueInv, Invited, Types, Busy
<1>2. x \in Seq(Invited)
  <2>1. DueRows \in Seq(Invited)
    <3>1. DueRows \in Seq(Invited \cap {i \in Invitation : Due(i)})
      BY <1>1, SelectedFacts DEF DueRows, Types
    <3>2. QED
      BY <3>1, SeqMonotonic
  <2> HIDE DEF Invited, DueRows
  <2>2. Len(DueRows) \in Nat /\ n \in Int /\ n <= Len(DueRows)
    BY <2>1, LenProperties DEF QueueInv
  <2>3. \A i \in 1..n : DueRows[i] \in Invited
    BY <2>1, <2>2, ElementOfSeq
  <2> HIDE DEF n
  <2>4. QED
    BY <2>2, <2>3, SubSeqProperties
<1>3. todo' = [todo EXCEPT ![w] = x]
  OBVIOUS
<1> HIDE DEF x
<1>4. stage' = [stage EXCEPT ![w] = "reading"]
  BY <1>1 DEF Types
<1>5. /\ todo' \in [Worker -> Seq(Invited')] /\ stage' \in [Worker -> Stage]
      /\ \A v \in Worker : Busy(v)' => todo'[v] # <<>>
      /\ \A v \in Worker : stage'[v] = stage[v] /\ (Busy(v)' <=> Busy(v))
      /\ \A v \in Worker \ {w} : AtHand(v)' = AtHand(v)
  BY <1>1, <1>2, <1>3, <1>4, OthersKept DEF Stage
<1>6. Types'
  BY <1>1, <1>5 DEF Types
<1>7. Exclusive'
  BY <1>1, <1>5 DEF QueueInv, Exclusive
<1>8. ASSUME NEW v \in Worker PROVE Held(v)'
  BY <1>1, <1>5 DEF QueueInv, Held
<1>9. ASSUME NEW i \in Invitation PROVE Accounted(i)'
  <2>1. Taken(i)' <=> Taken(i)
    BY <1>1, <1>5 DEF Taken
  <2>2. (Sent(i)' <=> Sent(i)) /\ Accounted(i)
    BY DEF Sent, QueueInv
  <2>3. QED
    BY <2>1, <2>2 DEF Accounted
<1>10. QED
  BY <1>6, <1>7, <1>8, <1>9 DEF QueueInv

LEMMA LookStep ==
  ASSUME QueueInv, NEW w \in Worker, Look(w)
  PROVE  QueueInv'
<1> USE DEF Look
<1>1. /\ Types /\ Invited' = Invited /\ todo[w] # <<>> /\ ~Busy(w) /\ todo[w] \in Seq(Invited)
      /\ AtHand(w) \in Invitation /\ Tail(todo[w]) \in Seq(Invited)
  BY AtWork DEF QueueInv, Invited, Types, Busy
<1>2. CASE Sends(AtHand(w))
  <2>1. /\ todo' = [todo EXCEPT ![w] = todo[w]]
        /\ stage' = [stage EXCEPT ![w] = "sending"]
    BY <1>1, <1>2 DEF Types
  <2>2. /\ todo' \in [Worker -> Seq(Invited')] /\ stage' \in [Worker -> Stage]
        /\ \A v \in Worker : Busy(v)' => todo'[v] # <<>>
        /\ Busy(w)' /\ stage'[w] = "sending"
        /\ \A v \in Worker \ {w} : stage'[v] = stage[v] /\ (Busy(v)' <=> Busy(v))
        /\ \A v \in Worker : AtHand(v)' = AtHand(v)
    BY <1>1, <2>1, OthersKept DEF Stage, AtHand
  <2>3. Types'
    BY <1>1, <2>2 DEF Types
  <2>4. \A v \in Worker : Busy(v) => row[AtHand(v)].tenant # row[AtHand(w)].tenant
    BY DEF TenantFree, Holds, Busy
  <2>5. Exclusive'
    BY <2>2, <2>4 DEF QueueInv, Exclusive
  <2>6. ASSUME NEW v \in Worker PROVE Held(v)'
    <3>1. CASE v = w
      BY <1>2, <2>2, <3>1 DEF Held, Sends, Due
    <3>2. CASE v # w
      BY <2>2, <3>2 DEF QueueInv, Held
    <3>3. QED
      BY <3>1, <3>2
  <2>7. ASSUME NEW i \in Invitation PROVE Accounted(i)'
    <3>1. Taken(i)' <=> Taken(i)
      BY <1>1, <2>2 DEF Taken, Busy
    <3>2. (Sent(i)' <=> Sent(i)) /\ Accounted(i)
      BY DEF Sent, QueueInv
    <3>3. QED
      BY <3>1, <3>2 DEF Accounted
  <2>8. QED
    BY <2>3, <2>5, <2>6, <2>7 DEF QueueInv
<1>3. CASE ~Sends(AtHand(w))
  <2>1. /\ todo' = [todo EXCEPT ![w] = Tail(todo[w])]
        /\ stage' = [stage EXCEPT ![w] = "reading"]
    BY <1>1, <1>3 DEF Types
  <2>2. /\ todo' \in [Worker -> Seq(Invited')] /\ stage' \in [Worker -> Stage]
        /\ \A v \in Worker : Busy(v)' => todo'[v] # <<>>
        /\ \A v \in Worker : stage'[v] = stage[v] /\ (Busy(v)' <=> Busy(v))
        /\ \A v \in Worker \ {w} : AtHand(v)' = AtHand(v)
    BY <1>1, <2>1, OthersKept DEF Stage, Busy
  <2>3. Types'
    BY <1>1, <2>2 DEF Types
  <2>4. Exclusive'
    BY <1>1, <2>2 DEF QueueInv, Exclusive
  <2>5. ASSUME NEW v \in Worker PROVE Held(v)'
    BY <1>1, <2>2 DEF QueueInv, Held
  <2>6. ASSUME NEW i \in Invitation PROVE Accounted(i)'
    <3>1. Taken(i)' <=> Taken(i)
      BY <1>1, <2>2 DEF Taken, Busy
    <3>2. (Sent(i)' <=> Sent(i)) /\ Accounted(i)
      BY DEF Sent, QueueInv
    <3>3. QED
      BY <3>1, <3>2 DEF Accounted
  <2>7. QED
    BY <2>3, <2>4, <2>5, <2>6 DEF QueueInv
<1>4. QED
  BY <1>2, <1>3

LEMMA RefuseStep ==
  ASSUME QueueInv, NEW w \in Worker, Refuse(w)
  PROVE  QueueInv'
<1> USE DEF Refuse
<1>1. Types /\ Invited' = Invited /\ Busy(w) /\ todo[w] # <<>> /\ todo[w] \in Seq(Invited)
  BY DEF QueueInv, Invited, Types, Busy
<1>2. /\ todo' = [todo EXCEPT ![w] = todo[w]]
      /\ stage' = [stage EXCEPT ![w] = "refused"]
  BY <1>1 DEF Types
<1>3. /\ todo' \in [Worker -> Seq(Invited')] /\ stage' \in [Worker -> Stage]
      /\ \A v \in Worker : Busy(v)' => todo'[v] # <<>>
      /\ stage'[w] = "refused"
      /\ \A v \in Worker \ {w} : stage'[v] = stage[v]
      /\ \A v \in Worker : (Busy(v)' <=> Busy(v)) /\ AtHand(v)' = AtHand(v)
  BY <1>1, <1>2, OthersKept DEF Stage, AtHand
<1>4. Types'
  BY <1>1, <1>3 DEF Types
<1>5. Exclusive' /\ \A v \in Worker : Held(v)'
  BY <1>1, <1>3 DEF QueueInv, Exclusive, Held
<1>6. ASSUME NEW i \in Invitation PROVE Accounted(i)'
  <2>1. Taken(i)' <=> Taken(i)
    BY <1>3 DEF Taken
  <2>2. (Sent(i)' <=> Sent(i)) /\ Accounted(i)
    BY DEF Sent, QueueInv
  <2>3. QED
    BY <2>1, <2>2 DEF Accounted
<1>7. QED
  BY <1>4, <1>5, <1>6 DEF QueueInv

LEMMA TransmitStep ==
  ASSUME QueueInv, NEW w \in Worker, NEW outcome \in {"accepted", "refused"}, Transmit(w, outcome)
  PROVE  QueueInv'
<1> USE DEF Transmit
<1>0. PICK c \in Invitation : c = AtHand(w)
  BY AtWork DEF QueueInv, Types, Busy
<1>1. /\ Types /\ Invited' = Invited /\ Busy(w) /\ todo[w] # <<>> /\ todo[w] \in Seq(Invited)
      /\ copies[c] \in Nat /\ unrecorded[c] \in Nat
  BY DEF QueueInv, Invited, Types, Busy
<1>2. /\ todo' = [todo EXCEPT ![w] = todo[w]]
      /\ stage' = [stage EXCEPT ![w] = outcome]
  BY <1>1 DEF Types
<1>3. /\ todo' \in [Worker -> Seq(Invited')] /\ stage' \in [Worker -> Stage]
      /\ \A v \in Worker : Busy(v)' => todo'[v] # <<>>
      /\ stage'[w] = outcome
      /\ \A v \in Worker \ {w} : stage'[v] = stage[v]
      /\ \A v \in Worker : (Busy(v)' <=> Busy(v)) /\ AtHand(v)' = AtHand(v)
  BY <1>1, <1>2, OthersKept DEF Stage, AtHand
<1>4. /\ copies' \in [Invitation -> Nat] /\ copies'[c] = copies[c] + 1
      /\ \A i \in Invitation \ {c} : copies'[i] = copies[i]
  BY <1>0, <1>1 DEF Types
<1>5. /\ unrecorded' \in [Invitation -> Nat]
      /\ unrecorded'[c] = IF outcome = "accepted" THEN unrecorded[c] ELSE unrecorded[c] + 1
      /\ \A i \in Invitation \ {c} : unrecorded'[i] = unrecorded[i]
  BY <1>0, <1>1 DEF Types
<1>6. Types'
  BY <1>1, <1>3, <1>4, <1>5 DEF Types
<1>7. Exclusive' /\ \A v \in Worker : Held(v)'
  BY <1>1, <1>3 DEF QueueInv, Exclusive, Held
<1>8. ~Taken(c) /\ (Taken(c)' <=> outcome = "accepted")
  <2>1. \A v \in Worker : Busy(v) /\ AtHand(v) = c => v = w
    BY <1>0, <1>1, Alone
  <2>2. QED
    BY <1>0, <1>1, <1>3, <2>1 DEF Taken, Busy
<1>9. \A i \in Invitation \ {c} : Taken(i)' <=> Taken(i)
  BY <1>0, <1>3 DEF Taken
<1>10. ASSUME NEW i \in Invitation PROVE Accounted(i)'
  <2>1. (Sent(i)' <=> Sent(i)) /\ Accounted(i)
    BY DEF Sent, QueueInv
  <2>2. CASE i = c
    BY <1>1, <1>4, <1>5, <1>8, <2>1, <2>2 DEF Accounted
  <2>3. CASE i # c
    BY <1>4, <1>5, <1>9, <2>1, <2>3 DEF Accounted
  <2>4. QED
    BY <2>2, <2>3
<1>11. QED
  BY <1>6, <1>7, <1>10 DEF QueueInv

LEMMA SaveStep ==
  ASSUME QueueInv, NEW w \in Worker, Save(w)
  PROVE  QueueInv'
<1> USE DEF Save, Recorded, Tried
<1>0. PICK c \in Invitation : c = AtHand(w)
  BY AtWork DEF QueueInv, Types, Busy
<1> DEFINE b == stage[w] = "accepted"
           new == [row[c] EXCEPT !.attempts = @ + 1, !.sent = b]
<1>1. /\ Types /\ Busy(w) /\ todo[w] # <<>> /\ todo[w] \in Seq(Invited)
      /\ row[c] \in Row /\ Tail(todo[w]) \in Seq(Invited)
  BY <1>0, AtWork DEF QueueInv, Types, Busy
<1>2. row[c].attempts < MaxAttempts /\ ~row[c].sent
  BY <1>0, <1>1 DEF QueueInv, Held
<1>3. row' = [row EXCEPT ![c] = new]
  BY <1>0, <1>1 DEF Types
<1>4. new \in Row /\ (new.sent <=> stage[w] = "accepted")
  <2>1. b \in BOOLEAN /\ (b <=> stage[w] = "accepted")
    OBVIOUS
  <2> HIDE DEF b
  <2>2. row[c].attempts + 1 \in 0..MaxAttempts
    BY <1>1, <1>2 DEF Row, QueueInv
  <2>3. new \in Row /\ new.sent = b
    BY <1>1, <2>1, <2>2 DEF Row
  <2>4. QED
    BY <2>1, <2>3
<1> HIDE DEF new, b
<1>5. /\ row' \in [Invitation -> Row \cup {NoInvitation}] /\ Invited' = Invited
      /\ row'[c] = new /\ \A j \in Invitation \ {c} : row'[j] = row[j]
  <2>1. row \in [Invitation -> Row \cup {NoInvitation}] /\ row[c] \in Row
    BY <1>1 DEF QueueInv, Types
  <2>2. QED
    BY <1>3, <1>4, <2>1, RowSet
<1>6. order' \in Seq(Invited) /\ Distinct(order')
  <2>1. order' = Selected(order, Invitation \ {c}) /\ order \in Seq(Invited) /\ Distinct(order)
    BY <1>0, <1>1 DEF Types
  <2>2. order' \in Seq(Invited \cap (Invitation \ {c})) /\ Distinct(order')
    <3> DEFINE others == Invitation \ {c}
    <3> HIDE DEF others, Invited
    <3>1. /\ Selected(order, others) \in Seq(Invited \cap others)
          /\ Distinct(Selected(order, others))
      BY <2>1, SelectedFacts, Zenon
    <3>2. QED
      BY <2>1, <3>1, Zenon DEF others
  <2>3. QED
    BY <2>2, SeqMonotonic
<1>7. /\ todo' \in [Worker -> Seq(Invited')] /\ stage' \in [Worker -> Stage]
      /\ \A v \in Worker : Busy(v)' => todo'[v] # <<>>
      /\ stage'[w] = "reading" /\ ~Busy(w)'
      /\ \A v \in Worker \ {w} : /\ stage'[v] = stage[v] /\ (Busy(v)' <=> Busy(v))
                                 /\ AtHand(v)' = AtHand(v)
  BY <1>1, <1>5, OthersKept DEF Stage
<1>8. Types'
  BY <1>1, <1>5, <1>6, <1>7 DEF Types
<1>9. \A v \in Worker : Busy(v) /\ AtHand(v) = c => v = w
  BY <1>0, <1>1, Alone
<1>10. ASSUME NEW v \in Worker, Busy(v)'
       PROVE  /\ v # w /\ Busy(v) /\ AtHand(v)' = AtHand(v)
              /\ row'[AtHand(v)] = row[AtHand(v)]
  <2>1. v # w /\ Busy(v) /\ AtHand(v)' = AtHand(v)
    BY <1>7, <1>10
  <2>2. AtHand(v) \in Invitation
    BY <1>1, <2>1, AtWork DEF Types
  <2>3. QED
    BY <1>5, <1>9, <2>1, <2>2
<1>11. Exclusive' /\ \A v \in Worker : Held(v)'
  <2>1. Exclusive'
    BY <1>10, Zenon DEF QueueInv, Exclusive
  <2>2. active' = active
    OBVIOUS
  <2>3. ASSUME NEW v \in Worker PROVE Held(v)'
    <3>1. CASE Busy(v)'
      <4>1. Held(v) /\ Busy(v)
        BY <1>10, <3>1 DEF QueueInv
      <4>2. QED
        BY <1>10, <2>2, <3>1, <4>1, Zenon DEF Held
    <3>2. CASE ~Busy(v)'
      BY <3>2, Zenon DEF Held
    <3>3. QED
      BY <3>1, <3>2
  <2>4. QED
    BY <2>1, <2>3
<1>12. ~Taken(c)' /\ (Taken(c) <=> stage[w] = "accepted")
  BY <1>0, <1>1, <1>7, <1>9 DEF Taken, Busy
<1>13. ~Sent(c) /\ (Sent(c)' <=> stage[w] = "accepted")
  BY <1>1, <1>2, <1>4, <1>5 DEF Sent, QueueInv
<1>14. ASSUME NEW i \in Invitation PROVE Accounted(i)'
  <2>1. Accounted(i)
    BY DEF QueueInv
  <2>2. CASE i = c
    <3>1. copies[c] \in Nat /\ unrecorded[c] \in Nat
      BY <1>1 DEF Types
    <3>2. QED
      BY <1>12, <1>13, <2>1, <2>2, <3>1 DEF Accounted
  <2>3. CASE i # c
    <3>1. Sent(i)' <=> Sent(i)
      BY <1>5, <2>3 DEF Sent
    <3>2. Taken(i)' <=> Taken(i)
      BY <1>0, <1>7, <2>3 DEF Taken
    <3>3. QED
      BY <2>1, <3>1, <3>2 DEF Accounted
  <2>4. QED
    BY <2>2, <2>3
<1>15. QED
  BY <1>8, <1>11, <1>14 DEF QueueInv

LEMMA CrashStep ==
  ASSUME QueueInv, NEW w \in Worker, Crash(w)
  PROVE  QueueInv'
<1> USE DEF Crash
<1>0. PICK c \in Invitation : c = AtHand(w)
  BY AtWork DEF QueueInv
<1>1. /\ Types /\ Invited' = Invited /\ todo[w] # <<>>
      /\ copies[c] \in Nat /\ unrecorded[c] \in Nat
  BY DEF QueueInv, Invited, Types
<1>2. /\ todo' \in [Worker -> Seq(Invited')] /\ stage' \in [Worker -> Stage]
      /\ \A v \in Worker : Busy(v)' => todo'[v] # <<>>
      /\ stage'[w] = "reading" /\ ~Busy(w)'
      /\ \A v \in Worker \ {w} : /\ stage'[v] = stage[v] /\ (Busy(v)' <=> Busy(v))
                                 /\ AtHand(v)' = AtHand(v)
  BY <1>1, EmptySeq, OthersKept DEF Stage
<1>3. /\ unrecorded' \in [Invitation -> Nat]
      /\ unrecorded'[c] = IF stage[w] = "accepted" THEN unrecorded[c] + 1 ELSE unrecorded[c]
      /\ \A i \in Invitation \ {c} : unrecorded'[i] = unrecorded[i]
  BY <1>0, <1>1 DEF Types
<1>4. crashes' \in 0..MaxCrash
  BY <1>1 DEF Types, QueueInv
<1>5. Types'
  BY <1>1, <1>2, <1>3, <1>4 DEF Types
<1>6. Exclusive' /\ \A v \in Worker : Held(v)'
  BY <1>1, <1>2 DEF QueueInv, Exclusive, Held
<1>7. stage[w] = "accepted" => Taken(c) /\ ~Taken(c)'
  <2>1. \A v \in Worker : Busy(w) /\ Busy(v) /\ AtHand(v) = c => v = w
    BY <1>0, Alone
  <2>2. QED
    BY <1>0, <1>2, <2>1 DEF Taken, Busy
<1>8. ASSUME NEW i \in Invitation, i = c => stage[w] # "accepted"
      PROVE  Taken(i)' <=> Taken(i)
  BY <1>0, <1>2, <1>8 DEF Taken
<1>9. ASSUME NEW i \in Invitation PROVE Accounted(i)'
  <2>1. (Sent(i)' <=> Sent(i)) /\ Accounted(i)
    BY DEF Sent, QueueInv
  <2>2. CASE i = c /\ stage[w] = "accepted"
    BY <1>1, <1>3, <1>7, <2>1, <2>2 DEF Accounted
  <2>3. CASE ~(i = c /\ stage[w] = "accepted")
    BY <1>3, <1>8, <2>1, <2>3 DEF Accounted
  <2>4. QED
    BY <2>2, <2>3
<1>10. QED
  BY <1>5, <1>6, <1>9 DEF QueueInv

LEMMA StepQueue == QueueInv /\ [QueueNext]_queueVars => QueueInv'
<1> SUFFICES ASSUME QueueInv, [QueueNext]_queueVars PROVE QueueInv'
  OBVIOUS
<1>1. ASSUME NEW i \in Invitation, NEW t \in Tenant, NEW same \in SUBSET Invitation,
             Invite(i, t, same)
      PROVE  QueueInv'
  BY <1>1, InviteStep
<1>2. ASSUME NEW i \in Invitation, Close(i) \/ Expire(i) \/ BackOffEnds(i)
      PROVE  QueueInv'
  BY <1>2, CloseStep, ExpireStep, BackOffEndsStep
<1>3. ASSUME NEW t \in Tenant, ArchiveOrganization(t)
      PROVE  QueueInv'
  BY <1>3, ArchiveStep
<1>4. ASSUME NEW w \in Worker, ReadBatch(w) \/ Crash(w)
      PROVE  QueueInv'
  BY <1>4, ReadBatchStep, CrashStep
<1>5. ASSUME NEW w \in Worker, Proceed(w)
      PROVE  QueueInv'
  BY <1>5, LookStep, RefuseStep, SaveStep, TransmitStep DEF Proceed
<1>6. CASE UNCHANGED queueVars
  <2>1. Types'
    BY <1>6 DEF QueueInv, Types, Busy, Invited, queueVars
  <2>2. (\A i \in Invitation : Sent(i)' <=> Sent(i))
        /\ \A w \in Worker : Busy(w) => row[AtHand(w)].tenant \in active'
    BY <1>6 DEF Sent, queueVars, QueueInv, Held
  <2>3. Exclusive' /\ (\A w \in Worker : Held(w)') /\ (\A i \in Invitation : Accounted(i)')
    BY <1>6, <2>2, RunsKept DEF queueVars
  <2>4. QED
    BY <2>1, <2>3 DEF QueueInv
<1>7. QED
  BY <1>1, <1>2, <1>3, <1>4, <1>5, <1>6 DEF QueueNext

\* A mail only leaves while its run holds the row.
LEMMA StepMailed ==
  ASSUME QueueInv, QueueNext, NEW i \in Invitation, copies'[i] # copies[i]
  PROVE  row[i].tenant \in active /\ row[i].open
<1>1. PICK w \in Worker, outcome \in {"accepted", "refused"} : Transmit(w, outcome)
  BY DEF QueueNext, Proceed, Invite, Close, Expire, BackOffEnds, ArchiveOrganization, ReadBatch,
         Look, Refuse, Save, Crash
<1>2. i = AtHand(w)
  BY <1>1 DEF Transmit, QueueInv, Types
<1>3. QED
  BY <1>1, <1>2 DEF Transmit, QueueInv, Held, Busy

\* Types, for every number of runs, rows and crashes; no row is listed twice.
THEOREM QueueTypeCorrect == QueueSpec => []QueueTypeOK
<1>1. QueueInv => QueueTypeOK
  <2> SUFFICES ASSUME QueueInv PROVE QueueTypeOK
    OBVIOUS
  <2>1. Types /\ Invited \subseteq Invitation
    BY DEF QueueInv, Invited
  <2>2. order \in Seq(Invitation) /\ \A w \in Worker : todo[w] \in Seq(Invitation)
    BY <2>1, SeqMonotonic DEF Types
  <2> HIDE DEF Invited
  <2>3. todo \in [Worker -> Seq(Invitation)]
    BY <2>1, <2>2 DEF Types
  <2>4. QED
    BY <2>1, <2>2, <2>3 DEF Types, QueueTypeOK, Busy, Distinct
<1>2. QED
  BY <1>1, InitQueue, StepQueue, PTL DEF QueueSpec

\* deliver_invitation: however many runs have one row in their batches, every
\* mail the server accepted is recorded, about to be, or lost with a reply or a
\* transaction.
THEOREM QueueRecorded == QueueSpec => []InvitationsRecorded
<1>1. QueueInv => InvitationsRecorded
  <2> SUFFICES ASSUME QueueInv, NEW i \in Invitation
               PROVE  copies[i] = unrecorded[i] + Cardinality(Accepting(i))
                        + (IF row[i] # NoInvitation /\ row[i].sent THEN 1 ELSE 0)
    BY DEF InvitationsRecorded
  <2>1. Cardinality(Accepting(i)) = IF Taken(i) THEN 1 ELSE 0
    <3>1. CASE Taken(i)
      <4>1. PICK w \in Worker : stage[w] = "accepted" /\ AtHand(w) = i
        BY <3>1 DEF Taken
      <4>2. Accepting(i) = {w}
        BY <4>1, Alone DEF Accepting, Busy
      <4>3. QED
        BY <3>1, <4>2, FS_Singleton
    <3>2. CASE ~Taken(i)
      <4>1. Accepting(i) = {}
        BY <3>2 DEF Accepting, Taken
      <4>2. QED
        BY <3>2, <4>1, FS_EmptySet
    <3>3. QED
      BY <3>1, <3>2
  <2>2. Accounted(i)
    BY DEF QueueInv
  <2>3. QED
    BY <2>1, <2>2 DEF Accounted, Sent
<1>2. QED
  BY <1>1, InitQueue, StepQueue, PTL DEF QueueSpec

\* The tenant stays locked from the check to the SMTP dialogue: what is mailed is
\* open, and its organization is not archived.
THEOREM QueueMailedWhileActive == QueueSpec => MailedWhileActive
<1>1. QueueInv /\ [QueueNext]_queueVars =>
        [\A i \in Invitation :
            copies'[i] # copies[i] => row[i].tenant \in active /\ row[i].open]_queueVars
  BY StepMailed
<1>2. QED
  BY <1>1, InitQueue, StepQueue, PTL DEF QueueSpec, MailedWhileActive
=============================================================================
