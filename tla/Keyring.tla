------------------------------ MODULE Keyring -------------------------------
(***************************************************************************)
(* The command line's one credential: the token file of this machine       *)
(* (auth_store.py), the `auth' commands that fill and empty it             *)
(* (commands_auth.py) and the client that presents it with every request   *)
(* (ApiClient), beside the other callers of Accounts.                      *)
(*                                                                         *)
(* A command is several requests, each done in one step here; the backend  *)
(* may refuse any of them, and the command may be interrupted between two. *)
(***************************************************************************)
EXTENDS Accounts

VARIABLES
  kept, \* the token in the file
  cli   \* the command that runs

keyringVars == <<accountsVars, kept, cli>>

-----------------------------------------------------------------------------
\* header is the token ApiClient was made with, session what login's cookie
\* says and token what it was given to keep.
Command ==
  [pc : {"idle", "founding", "minting", "closing", "storing"}, user : User,
   header : Id \union {NoId}, session : Id \union {NoId}, token : Id \union {NoId}]

NoCommand == [pc |-> "idle", user |-> CHOOSE u \in User : TRUE,
              header |-> NoId, session |-> NoId, token |-> NoId]

\* client_of: whatever is in the file is in the client.
Run(step, u) ==
  /\ cli.pc = "idle"
  /\ budget.begun > 0
  /\ budget' = [budget EXCEPT !.begun = @ - 1]
  /\ cli' = [NoCommand EXCEPT !.pc = step, !.user = u, !.header = kept]

GoOn(step) == cli' = [cli EXCEPT !.pc = step]
End        == cli' = NoCommand

\* resolve_principal looks at the cookie only when there is no header.
Presented == IF cli.header # NoId THEN cli.header ELSE cli.session

Outside == UNCHANGED <<throttle, desk>>

-----------------------------------------------------------------------------
(***************************************************************************)
(* auth init                                                               *)
(***************************************************************************)

\* account_exists, then the prompt and create_owner.
BeginInit(u) ==
  /\ \A v \in User : ~Exists(v)
  /\ Run("founding", u)
  /\ UNCHANGED <<users, cred, kept>> /\ Outside

\* create_owner looks again; its own check and insert are one step here.
CreateOwner ==
  /\ cli.pc = "founding"
  /\ \A v \in User : ~Exists(v)
  /\ users' = [users EXCEPT ![cli.user] = [NoAccount EXCEPT !.version = 1]]
  /\ \E i \in Id :
       /\ Unissued(i)
       /\ cred' = [cred EXCEPT ![i] = Row("token", cli.user, 1, 0, FALSE)]
       /\ cli' = [cli EXCEPT !.pc = "storing", !.token = i]
  /\ UNCHANGED <<kept, budget>> /\ Outside

-----------------------------------------------------------------------------
(***************************************************************************)
(* auth login                                                              *)
(***************************************************************************)

\* The right password; a wrong one is LoginFails of any caller.
SignIn(u) ==
  /\ Exists(u) /\ ~throttle[u].blocked
  /\ cli.pc = "idle" /\ budget.begun > 0
  /\ budget' = [budget EXCEPT !.begun = @ - 1]
  /\ RecordSuccess(u)
  /\ users' = [users EXCEPT ![u].worn = FALSE]
  /\ \E i \in Id :
       /\ Unissued(i)
       /\ cred' = [cred EXCEPT ![i] = Row("session", u, users[u].version, users[u].phrase, FALSE)]
       /\ cli' = [pc |-> "minting", user |-> u, header |-> kept, session |-> i, token |-> NoId]
  /\ UNCHANGED <<kept, desk>>

\* create_token_with_csrf
MintToken ==
  /\ cli.pc = "minting" /\ Accepts(Presented)
  /\ LET by == cred[Presented] IN
     \E i \in Id :
       /\ Unissued(i)
       /\ cred' = [cred EXCEPT ![i] = Row("token", by.user, by.version, by.proof, by.late)]
       /\ cli' = [cli EXCEPT !.pc = "closing", !.token = i]
  /\ UNCHANGED <<users, kept, budget>> /\ Outside

MintRefused ==
  /\ cli.pc = "minting" /\ ~Accepts(Presented)
  /\ GoOn("closing")
  /\ UNCHANGED <<users, cred, kept, budget>> /\ Outside

\* logout_with_csrf, on the way out whatever happened; its failure is
\* swallowed, and of a token there is no session to delete.
CloseSession ==
  /\ cli.pc = "closing"
  /\ \/ /\ Presented = cli.session /\ Accepts(cli.session)
        /\ cred' = [cred EXCEPT ![cli.session].state = "gone"]
     \/ UNCHANGED cred
  /\ IF cli.token # NoId THEN GoOn("storing") ELSE End
  /\ UNCHANGED <<users, kept, budget>> /\ Outside

\* auth_store.save
StoreToken ==
  /\ cli.pc = "storing"
  /\ kept' = cli.token
  /\ End
  /\ UNCHANGED <<users, cred, budget>> /\ Outside

Interrupted ==
  /\ cli.pc # "idle"
  /\ End
  /\ UNCHANGED <<users, cred, kept, budget>> /\ Outside

-----------------------------------------------------------------------------
(***************************************************************************)
(* auth logout, auth token rm, auth reset-password                         *)
(***************************************************************************)

\* The token is found in the list by its prefix and revoked; when the
\* backend refuses, or does not answer, the file is removed all the same.
SignOut ==
  /\ cli.pc = "idle" /\ kept # NoId
  /\ \/ Accepts(kept) /\ cred' = [cred EXCEPT ![kept].state = "spent"]
     \/ UNCHANGED cred
  /\ kept' = NoId
  /\ UNCHANGED <<users, cli, budget>> /\ Outside

\* The file is removed when it held the token that was revoked.
RemoveToken(i) ==
  /\ cli.pc = "idle" /\ kept # NoId /\ Accepts(kept)
  /\ cred[i].kind = "token" /\ cred[i].state = "live" /\ cred[i].user = cred[kept].user
  /\ cred' = [cred EXCEPT ![i].state = "spent"]
  /\ kept' = IF kept = i THEN NoId ELSE kept
  /\ UNCHANGED <<users, cli, budget>> /\ Outside

\* reset_password of Accounts, then auth_store.clear unless cut short.
ResetAndForget(q) ==
  /\ ResetPassword(q)
  /\ kept' \in {NoId, kept}
  /\ UNCHANGED cli

-----------------------------------------------------------------------------
\* On a fresh install the file may hold the token of an earlier one; that
\* is a token like any other that is not accepted.
KeyringInit == AccountsInit /\ kept = NoId /\ cli = NoCommand

Auth ==
  \/ \E u \in User : BeginInit(u) \/ SignIn(u)
  \/ CreateOwner
  \/ MintToken
  \/ MintRefused
  \/ CloseSession
  \/ StoreToken
  \/ Interrupted
  \/ SignOut
  \/ \E i \in Id : RemoveToken(i)
  \/ \E q \in Caller : ResetAndForget(q)

Elsewhere ==
  /\ Passing \/ \E q \in Caller : Request(q) \/ \E u \in User : BeginReset(q, u)
  /\ UNCHANGED <<kept, cli>>

KeyringNext == Auth \/ Elsewhere

KeyringSpec == KeyringInit /\ [][KeyringNext]_keyringVars

-----------------------------------------------------------------------------
(***************************************************************************)
(* Properties                                                              *)
(***************************************************************************)

\* Types; the file and the command hold tokens, and the command a session,
\* that were issued.
KeyringTypeOK ==
  /\ AccountsTypeOK
  /\ kept \in Id \union {NoId} /\ cli \in Command
  /\ kept # NoId => cred[kept].kind = "token"
  /\ cli.token # NoId => cred[cli.token].kind = "token"
  /\ cli.session # NoId => cred[cli.session].kind = "session"

=============================================================================
