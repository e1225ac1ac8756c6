------------------------------ MODULE Accounts ------------------------------
(***************************************************************************)
(* Accounts and what opens the API: passwords, browser sessions, API       *)
(* tokens, console tickets and the login throttle (auth.py).               *)
(*                                                                         *)
(* A request is admitted on what the rows say then, computes a slow hash   *)
(* or waits for a thread, and writes later; a password change, a logout or *)
(* a lockout may come in between.  Passwords are numbered in the order     *)
(* they are chosen.  Rows are numbered in the order they are issued and    *)
(* stand for their secrets, so a number is never used twice.               *)
(***************************************************************************)
EXTENDS Naturals, FiniteSets

CONSTANTS
  User,
  Caller,     \* threads running requests
  Vm,         \* instances with a console
  Limit,      \* failures in a row that lock a name out
  MaxIssued,  \* bound: sessions, tokens and tickets
  MaxPhrase,  \* bound: passwords chosen after the first
  MaxBegun    \* bound: requests

ASSUME AccountsAssumption ==
  /\ User # {}
  /\ IsFiniteSet(Caller)
  /\ Limit \in Nat \ {0}
  /\ MaxIssued \in Nat /\ MaxPhrase \in Nat /\ MaxBegun \in Nat

VARIABLES
  users,    \* the rows of users
  cred,     \* the rows of sessions, api_tokens and console_tickets
  throttle, \* LoginThrottle's entry for each name
  desk,     \* what each caller's request has read
  budget    \* requests and passwords left

accountsVars == <<users, cred, throttle, desk, budget>>

-----------------------------------------------------------------------------
Id     == 1..MaxIssued
NoId   == 0
Phrase == 0..MaxPhrase

\* worn: the hash has an older release's parameters.  Version 0: no such row.
Account   == [phrase : Phrase, version : 0..MaxPhrase + 1, worn : BOOLEAN]
NoAccount == [phrase |-> 0, version |-> 0, worn |-> FALSE]

\* state: "spent" is revoked, for a token, and used, for a ticket; "gone" is
\* deleted.  from is the session a ticket was minted by.  History: proof is
\* the password the credential was issued on the strength of, late that its
\* issue and a password change overlapped, opened the consoles it opened.
Credential ==
  [kind : {"none", "session", "token", "ticket"}, user : User, version : 0..MaxPhrase + 1,
   state : {"live", "expired", "spent", "gone"}, from : Id \union {NoId}, at : SUBSET Vm,
   proof : Phrase, late : BOOLEAN, opened : 0..2]

NoCredential ==
  [kind |-> "none", user |-> CHOOSE u \in User : TRUE, version |-> 0, state |-> "gone",
   from |-> NoId, at |-> {}, proof |-> 0, late |-> FALSE, opened |-> 0]

\* tries, history: wrong guesses answered since the name was last unlocked.
Attempts   == [count : 0..Limit - 1, blocked : BOOLEAN, tries : 0..Limit + Cardinality(Caller)]
NoAttempts == [count |-> 0, blocked |-> FALSE, tries |-> 0]

Operation == {"first-run", "login", "reset", "password", "token", "ticket", "logout", "revoke",
              "redeem"}

\* seen is the account as the request loaded it, by the credential it showed.
Desk   == [op : Operation \union {"idle"}, user : User, seen : Account, by : Id \union {NoId},
           late : BOOLEAN]
NoDesk == [op |-> "idle", user |-> CHOOSE u \in User : TRUE, seen |-> NoAccount, by |-> NoId,
           late |-> FALSE]

Exists(u)    == users[u].version # 0
Unissued(i)  == cred[i].kind = "none" /\ \A j \in 1..i - 1 : cred[j].kind # "none"
SessionsOf(u) == {i \in Id : cred[i].kind = "session" /\ cred[i].user = u}

\* What resolve_principal and redeem_console_ticket ask of a row.
Current(i) == cred[i].state = "live" /\ cred[i].version = users[cred[i].user].version
Accepts(i) == cred[i].kind \in {"session", "token"} /\ Current(i)
Redeems(i) ==
  /\ cred[i].kind = "ticket" /\ Current(i)
  /\ cred[i].from # NoId => cred[cred[i].from].state # "gone"
Opens(i) == Accepts(i) \/ Redeems(i)

-----------------------------------------------------------------------------
(***************************************************************************)
(* Helpers                                                                 *)
(***************************************************************************)

Begin(q, op, u, seen, i) ==
  /\ desk[q].op = "idle"
  /\ budget.begun > 0
  /\ budget' = [budget EXCEPT !.begun = @ - 1]
  /\ desk' = [desk EXCEPT ![q] = [op |-> op, user |-> u, seen |-> seen, by |-> i, late |-> FALSE]]

Busy(q, op) == desk[q].op = op
Finish(q)   == desk' = [desk EXCEPT ![q] = NoDesk]

\* create_session, create_api_token and mint_console_ticket.
Row(kind, u, version, proof, late) ==
  [NoCredential EXCEPT !.kind = kind, !.state = "live", !.user = u, !.version = version,
                       !.proof = proof, !.late = late]

Insert(r) == \E i \in Id : Unissued(i) /\ cred' = [cred EXCEPT ![i] = r]

\* What a request writes is on the strength of what it showed.
RowBy(q, kind, u) ==
  Row(kind, u, users[u].version, cred[desk[q].by].proof, desk[q].late \/ cred[desk[q].by].late)

\* Overtaken by a change of u: everyone else with a request of u.
Overtake(q, u) ==
  desk' = [r \in Caller |->
             IF r = q THEN NoDesk
             ELSE IF desk[r].op # "idle" /\ desk[r].user = u THEN [desk[r] EXCEPT !.late = TRUE]
             ELSE desk[r]]

\* History: when an overtaken request writes the account, its rows may be of
\* the version it leaves in force.
Tainted(u, late) ==
  [i \in Id |-> IF late /\ cred[i].user = u /\ cred[i].kind # "none"
                THEN [cred[i] EXCEPT !.late = TRUE] ELSE cred[i]]

\* Mutant: the version stays, so only the sessions end.
InvalidateSessions(u, seen, late) ==
  /\ users' = [users EXCEPT ![u].phrase = (MaxPhrase - budget.phrases) + 1, ![u].worn = FALSE]
  /\ cred' = [i \in Id |-> IF i \in SessionsOf(u) THEN [cred[i] EXCEPT !.state = "gone"]
                           ELSE cred[i]]

\* invalidate_credentials: the version that was loaded goes up by one, and
\* the sessions are deleted; the other rows stay.
InvalidateCredentials(u, seen, late) ==
  /\ users' = [users EXCEPT ![u] = [phrase |-> (MaxPhrase - budget.phrases) + 1,
                                    version |-> seen.version + 1, worn |-> FALSE]]
  /\ cred' = [i \in Id |-> IF i \in SessionsOf(u) THEN [cred[i] EXCEPT !.state = "gone"]
                           ELSE Tainted(u, late)[i]]

-----------------------------------------------------------------------------
(***************************************************************************)
(* The throttle                                                            *)
(***************************************************************************)

\* Mutant: a lockout clears the count and blocks nobody.
RecordFailureUnblocked(u) ==
  LET e == throttle[u]
      reached == e.count + 1 >= Limit
  IN throttle' = [throttle EXCEPT ![u] = [count   |-> IF reached THEN 0 ELSE e.count + 1,
                                          blocked |-> e.blocked,
                                          tries   |-> e.tries + 1]]

RecordFailure(u) ==
  LET e == throttle[u]
      reached == e.count + 1 >= Limit
  IN throttle' = [throttle EXCEPT ![u] = [count   |-> IF reached THEN 0 ELSE e.count + 1,
                                          blocked |-> reached \/ e.blocked,
                                          tries   |-> e.tries + 1]]

RecordSuccess(u) == throttle' = [throttle EXCEPT ![u] = NoAttempts]

\* The window has passed.  What was counted meanwhile stays.
Unlock(u) ==
  /\ throttle[u].blocked
  /\ throttle' = [throttle EXCEPT ![u].blocked = FALSE, ![u].tries = 0]
  /\ UNCHANGED <<users, cred, desk, budget>>

-----------------------------------------------------------------------------
(***************************************************************************)
(* Getting in                                                              *)
(***************************************************************************)

\* create_first_account looks for any account, hashes, and inserts its own.
FindNobody(q, u) ==
  /\ \A v \in User : ~Exists(v)
  /\ Begin(q, "first-run", u, NoAccount, NoId)
  /\ UNCHANGED <<users, cred, throttle>>

\* The name is unique; nothing else is asked of the table again.
CreateFirstAccount(q) ==
  LET u == desk[q].user IN
  /\ Busy(q, "first-run")
  /\ ~Exists(u)
  /\ users' = [users EXCEPT ![u] = [NoAccount EXCEPT !.version = 1]]
  /\ Insert(Row("session", u, 1, 0, FALSE))
  /\ Finish(q)
  /\ UNCHANGED <<throttle, budget>>

BeginLogin(q, u) ==
  /\ ~throttle[u].blocked
  /\ Begin(q, "login", u, users[u], NoId)
  /\ UNCHANGED <<users, cred, throttle>>

\* The hash that was loaded is verified, or a throwaway one.
LoginFails(q) ==
  /\ Busy(q, "login")
  /\ RecordFailure(desk[q].user)
  /\ Finish(q)
  /\ UNCHANGED <<users, cred, budget>>

\* A worn hash is replaced by one of the password just verified, and the row
\* read again; otherwise the session gets the version that was loaded.
\* History: an overtaken request that writes its hash puts an old password
\* back, under a version others may have been issued at.
Login(q) ==
  LET u == desk[q].user
      seen == desk[q].seen
      issued(version) == Row("session", u, version, seen.phrase, desk[q].late)
  IN
  /\ Busy(q, "login") /\ seen.version # 0
  /\ RecordSuccess(u)
  /\ IF seen.worn
     THEN /\ users' = [users EXCEPT ![u].phrase = seen.phrase, ![u].worn = FALSE]
          /\ \E i \in Id : Unissued(i) /\ cred' = [Tainted(u, desk[q].late) EXCEPT ![i] = issued(users[u].version)]
          /\ IF desk[q].late THEN Overtake(q, u) ELSE Finish(q)
     ELSE /\ Insert(issued(seen.version))
          /\ Finish(q)
          /\ UNCHANGED users
  /\ UNCHANGED budget

-----------------------------------------------------------------------------
(***************************************************************************)
(* Requests of someone who is in                                           *)
(***************************************************************************)

\* require_user: the row is looked up, its account too.  A session's
\* state-changing request carries the CSRF token, or is refused here.
Admit(q, op, i) ==
  /\ op \in {"password", "token", "ticket", "logout", "revoke"}
  /\ Accepts(i)
  /\ Begin(q, op, cred[i].user, IF op = "password" THEN users[cred[i].user] ELSE NoAccount, i)
  /\ UNCHANGED <<users, cred, throttle>>

\* A session that is refused is deleted: _principal_from_session.
TurnAway(i) ==
  /\ cred[i].kind = "session" /\ cred[i].state # "gone" /\ ~Accepts(i)
  /\ cred' = [cred EXCEPT ![i].state = "gone"]
  /\ UNCHANGED <<users, throttle, desk, budget>>

CreateToken(q) ==
  /\ Busy(q, "token")
  /\ Insert(RowBy(q, "token", desk[q].user))
  /\ Finish(q)
  /\ UNCHANGED <<users, throttle, budget>>

MintConsoleTicket(q, vm) ==
  LET by == desk[q].by IN
  /\ Busy(q, "ticket")
  /\ Insert([RowBy(q, "ticket", desk[q].user)
               EXCEPT !.at = {vm}, !.from = IF cred[by].kind = "session" THEN by ELSE NoId])
  /\ Finish(q)
  /\ UNCHANGED <<users, throttle, budget>>

\* A token has no session to delete.
Logout(q) ==
  LET by == desk[q].by IN
  /\ Busy(q, "logout")
  /\ cred' = IF cred[by].kind = "session" THEN [cred EXCEPT ![by].state = "gone"] ELSE cred
  /\ Finish(q)
  /\ UNCHANGED <<users, throttle, budget>>

RevokeToken(q, i) ==
  /\ Busy(q, "revoke")
  /\ cred[i].kind = "token" /\ cred[i].user = desk[q].user
  /\ cred' = [cred EXCEPT ![i].state = "spent"]
  /\ Finish(q)
  /\ UNCHANGED <<users, throttle, budget>>

NewPassword(q) ==
  LET u == desk[q].user IN
  /\ budget.phrases > 0
  /\ budget' = [budget EXCEPT !.phrases = @ - 1]
  /\ InvalidateCredentials(u, desk[q].seen, desk[q].late)
  /\ Overtake(q, u)
  /\ UNCHANGED throttle

\* The current password was right, the new one differs.
ChangePassword(q) == Busy(q, "password") /\ NewPassword(q)

\* `auth reset-password', on the host and in a process of its own.
BeginReset(q, u) ==
  /\ Exists(u)
  /\ Begin(q, "reset", u, users[u], NoId)
  /\ UNCHANGED <<users, cred, throttle>>

ResetPassword(q) == Busy(q, "reset") /\ NewPassword(q)

\* redeem_console_ticket reads the ticket, its user and its session, and
\* stamps it afterwards.
ReadTicket(q, i, vm) ==
  /\ Redeems(i) /\ vm \in cred[i].at
  /\ Begin(q, "redeem", cred[i].user, NoAccount, i)
  /\ UNCHANGED <<users, cred, throttle>>

\* History: a redemption beside another of the same ticket is not counted.
RedeemConsoleTicket(q) ==
  LET i == desk[q].by
      beside == \E r \in Caller \ {q} : desk[r].op = "redeem" /\ desk[r].by = i
  IN
  /\ Busy(q, "redeem")
  /\ cred' = [cred EXCEPT ![i].state = "spent", ![i].opened = IF beside THEN @ ELSE @ + 1]
  /\ Finish(q)
  /\ UNCHANGED <<users, throttle, budget>>

\* Refused, or the caller gone: nothing is written.  A wrong current
\* password, a name taken, a row not found.
Refused(q) ==
  /\ desk[q].op \notin {"idle", "login"}
  /\ Finish(q)
  /\ UNCHANGED <<users, cred, throttle, budget>>

\* Seven days, or thirty seconds.
Expire(i) ==
  /\ cred[i].kind \in {"session", "ticket"} /\ cred[i].state = "live"
  /\ cred' = [cred EXCEPT ![i].state = "expired"]
  /\ UNCHANGED <<users, throttle, desk, budget>>

\* The backend starts again: requests are gone, and the throttle with them.
Restart ==
  /\ desk' = [q \in Caller |-> NoDesk]
  /\ throttle' = [u \in User |-> NoAttempts]
  /\ UNCHANGED <<users, cred, budget>>

-----------------------------------------------------------------------------
\* A fresh install, or one with its owner.
AccountsInit ==
  /\ LET owner == CHOOSE u \in User : TRUE IN
     \E a \in {NoAccount} \union [phrase : {0}, version : {1}, worn : BOOLEAN] :
       users = [u \in User |-> IF u = owner THEN a ELSE NoAccount]
  /\ cred = [i \in Id |-> NoCredential]
  /\ throttle = [u \in User |-> NoAttempts]
  /\ desk = [q \in Caller |-> NoDesk]
  /\ budget = [begun |-> MaxBegun, phrases |-> MaxPhrase]

Request(q) ==
  \/ \E u \in User : FindNobody(q, u) \/ BeginLogin(q, u)
  \/ CreateFirstAccount(q)
  \/ LoginFails(q)
  \/ Login(q)
  \/ \E i \in Id, op \in Operation : Admit(q, op, i)
  \/ CreateToken(q)
  \/ \E vm \in Vm : MintConsoleTicket(q, vm)
  \/ Logout(q)
  \/ \E i \in Id : RevokeToken(q, i)
  \/ ChangePassword(q)
  \/ \E i \in Id, vm \in Vm : ReadTicket(q, i, vm)
  \/ RedeemConsoleTicket(q)
  \/ Refused(q)

Reset(q) == \/ \E u \in User : BeginReset(q, u)
            \/ ResetPassword(q)

Passing == \/ \E u \in User : Unlock(u)
           \/ \E i \in Id : TurnAway(i) \/ Expire(i)
           \/ Restart

AccountsNext == Passing \/ \E q \in Caller : Request(q) \/ Reset(q)

AccountsSpec == AccountsInit /\ [][AccountsNext]_accountsVars

-----------------------------------------------------------------------------
(***************************************************************************)
(* Properties                                                              *)
(***************************************************************************)

\* Every variable has its type; rows are issued in order, and a ticket is
\* from a session that was issued before it, to the same user.
AccountsTypeOK ==
  /\ users \in [User -> Account]
  /\ cred \in [Id -> Credential]
  /\ throttle \in [User -> Attempts]
  /\ desk \in [Caller -> Desk]
  /\ budget \in [begun : 0..MaxBegun, phrases : 0..MaxPhrase]
  /\ \A i \in Id : cred[i].kind # "none" => \A j \in 1..i - 1 : cred[j].kind # "none"
  /\ \A i \in Id : cred[i].from # NoId =>
       /\ cred[i].from < i
       /\ cred[cred[i].from].kind = "session"
       /\ cred[cred[i].from].user = cred[i].user

\* A password change, or a reset, ends everything issued before it: what is
\* accepted was issued on the strength of the password in force
\* (invalidate_credentials), and a ticket opened one console at most
\* (redeem_console_ticket).  Exempt, since the code allows them: a credential
\* whose request and a change overlapped, and two redemptions at once.
OutIsOut ==
  \A i \in Id :
    /\ Opens(i) => cred[i].late \/ cred[i].proof = users[cred[i].user].phrase
    /\ cred[i].opened <= 1

\* Before a lockout has passed, a name is not guessed at more than Limit
\* times, and once more for each request that was past the check already
\* (LoginThrottle).
LockoutHolds == \A u \in User : throttle[u].tries < Limit + Cardinality(Caller)
=============================================================================
