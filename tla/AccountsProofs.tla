-------------------------- MODULE AccountsProofs ---------------------------
(***************************************************************************)
(* Accounts and Keyring: types, OutIsOut and LockoutHolds, for any number  *)
(* of users, callers, credentials, passwords and requests.                 *)
(*                                                                         *)
(* AccountsInductive says of every row, request and name what the steps    *)
(* of the others leave true.                                               *)
(***************************************************************************)
EXTENDS Keyring, FiniteSetTheorems, TLAPS

Issued(i) == cred[i].kind # "none"

\* A row that is live is of an earlier version than its account, or of this
\* one and issued on the strength of the password in force.
RowSound(i) ==
  Issued(i) =>
    /\ cred[i].version # 0 /\ Exists(cred[i].user)
    /\ \/ cred[i].late \/ cred[i].state # "live"
       \/ cred[i].version < users[cred[i].user].version
       \/ /\ cred[i].version = users[cred[i].user].version
          /\ cred[i].proof = users[cred[i].user].phrase

\* What a request goes by is so still, unless it was overtaken.
DeskSound(q) ==
  LET d == desk[q] IN
  d.op # "idle" =>
    /\ d.seen.version # 0 => Exists(d.user)
    /\ d.op \in {"password", "reset"} => d.seen.version # 0
    /\ d.seen.version # 0 /\ ~d.late =>
         d.seen.version = users[d.user].version /\ d.seen.phrase = users[d.user].phrase
    /\ d.op \in {"password", "token", "ticket", "logout", "revoke", "redeem"} =>
         d.by \in Id /\ Issued(d.by) /\ cred[d.by].user = d.user
    /\ d.op \in {"token", "ticket"} /\ ~d.late =>
         cred[d.by].late \/ cred[d.by].proof = users[d.user].phrase

\* A ticket that opened a console is used up, and nobody is redeeming it.
OpenedOnce(i) ==
  /\ cred[i].opened <= 1
  /\ cred[i].opened = 1 =>
       /\ cred[i].state # "live"
       /\ \A q \in Caller : ~(desk[q].op = "redeem" /\ desk[q].by = i)

\* Versions are counted with the passwords that were chosen.
VersionsCounted ==
  /\ \A u \in User : users[u].version <= 1 + (MaxPhrase - budget.phrases)
  /\ \A q \in Caller : desk[q].seen.version <= 1 + (MaxPhrase - budget.phrases)

LoginsOf(u) == {q \in Caller : desk[q].op = "login" /\ desk[q].user = u}

\* While a name is locked only those past the check can still guess.
GuessesLeft(u) ==
  IF throttle[u].blocked
  THEN throttle[u].tries + Cardinality(LoginsOf(u)) < Limit + Cardinality(Caller)
  ELSE throttle[u].tries <= throttle[u].count

AccountsInductive ==
  /\ AccountsTypeOK
  /\ \A i \in Id : RowSound(i) /\ OpenedOnce(i)
  /\ \A q \in Caller : DeskSound(q)
  /\ VersionsCounted
  /\ \A u \in User : GuessesLeft(u)

\* A command that mints or closes has the session it signed in with.
CommandSound == cli.pc \in {"minting", "closing"} => cli.session # NoId

KeyringInductive == AccountsInductive /\ KeyringTypeOK /\ CommandSound

-----------------------------------------------------------------------------
(***************************************************************************)
(* What steps have in common                                               *)
(***************************************************************************)

\* Rows stay what they are, except that they may be used up or become late;
\* n, if any, is the one that is new.
RowsKept(n) ==
  /\ cred' \in [Id -> Credential]
  /\ \A j \in Id \ {n} :
       /\ cred'[j].kind = cred[j].kind /\ cred'[j].user = cred[j].user
       /\ cred'[j].version = cred[j].version /\ cred'[j].from = cred[j].from
       /\ cred'[j].proof = cred[j].proof
       /\ cred[j].late => cred'[j].late
       /\ cred'[j].state = "live" => cred[j].state = "live"

OpenedKept(n) == \A j \in Id \ {n} : cred'[j].opened = cred[j].opened

\* n is the next number, or none; its row is of a kind, opened nothing and
\* is from a session of the same user or from none.
NewRow(n) ==
  n \in Id =>
    /\ Unissued(n)
    /\ cred'[n].kind # "none" /\ cred'[n].opened = 0
    /\ cred'[n].from # NoId => /\ Issued(cred'[n].from) /\ cred[cred'[n].from].kind = "session"
                               /\ cred[cred'[n].from].user = cred'[n].user

\* Accounts that exist keep password and version.
SecretsKept ==
  /\ users' \in [User -> Account]
  /\ \A u \in User : Exists(u) => users'[u].phrase = users[u].phrase /\ users'[u].version = users[u].version

\* One request at most begins or ends.
OthersKept(q) ==
  /\ desk' \in [Caller -> Desk]
  /\ \A r \in Caller \ {q} : desk'[r] = desk[r]

LEMMA AccountsConstants ==
  /\ NoAccount \in Account /\ NoCredential \in Credential
  /\ NoAttempts \in Attempts /\ NoDesk \in Desk
  /\ \A u \in User : NoCredential.user \in User
  /\ NoDesk.op = "idle" /\ NoDesk.seen.version = 0
<1>1. (CHOOSE u \in User : TRUE) \in User
  <2>1. \E u \in User : TRUE
    BY AccountsAssumption
  <2>2. QED
    BY <2>1, Zenon
<1>2. NoAccount \in Account
  BY AccountsAssumption DEF NoAccount, Account, Phrase
<1>3. NoCredential \in Credential
  BY <1>1, AccountsAssumption DEF NoCredential, Credential, Phrase
<1>4. NoAttempts \in Attempts
  <2>1. Cardinality(Caller) \in Nat
    BY AccountsAssumption, FS_CardinalityType
  <2>2. QED
    BY <2>1, AccountsAssumption DEF NoAttempts, Attempts
<1>5. NoDesk \in Desk /\ NoDesk.op = "idle" /\ NoDesk.seen.version = 0
  BY <1>1, <1>2 DEF NoDesk, Desk, NoAccount
<1>6. QED
  BY <1>1, <1>2, <1>3, <1>4, <1>5 DEF NoCredential

\* Rows stay in order, and tickets from their sessions.
LEMMA RowsInOrder ==
  ASSUME AccountsTypeOK, NEW n \in Id \union {NoId}, RowsKept(n), NewRow(n)
  PROVE  /\ \A i \in Id : cred'[i].kind # "none" => \A j \in 1..i - 1 : cred'[j].kind # "none"
         /\ \A i \in Id : cred'[i].from # NoId =>
              /\ cred'[i].from < i
              /\ cred'[cred'[i].from].kind = "session"
              /\ cred'[cred'[i].from].user = cred'[i].user
<1> USE AccountsAssumption DEF Id, NoId
<1>a. /\ cred \in [Id -> Credential]
      /\ \A i \in Id : cred[i].kind # "none" => \A j \in 1..i - 1 : cred[j].kind # "none"
      /\ \A i \in Id : cred[i].from # NoId =>
           /\ cred[i].from < i /\ cred[cred[i].from].kind = "session"
           /\ cred[cred[i].from].user = cred[i].user
      /\ \A i \in Id : cred[i].from \in Id \union {NoId} /\ cred'[i].from \in Id \union {NoId}
  BY DEF AccountsTypeOK, RowsKept, Credential
<1>1. \A i \in Id : cred[i].kind # "none" => i # n /\ cred'[i].kind = cred[i].kind /\ cred'[i].user = cred[i].user
  BY DEF RowsKept, NewRow, Unissued
<1>2. ASSUME NEW i \in Id, cred'[i].kind # "none", NEW j \in 1..i - 1
      PROVE  cred'[j].kind # "none"
  <2>1. j \in Id
    OBVIOUS
  <2>2. cred[j].kind # "none"
    <3>1. CASE i = n
      BY <3>1 DEF NewRow, Unissued
    <3>2. CASE i # n
      BY <1>2, <3>2, <1>a DEF RowsKept
    <3>3. QED
      BY <3>1, <3>2
  <2>3. QED
    BY <2>1, <2>2, <1>1
<1>3. ASSUME NEW i \in Id, cred'[i].from # NoId
      PROVE  /\ cred'[i].from < i
             /\ cred'[cred'[i].from].kind = "session"
             /\ cred'[cred'[i].from].user = cred'[i].user
  <2>1. cred'[i].from \in Id
    BY <1>3, <1>a
  <2>2. CASE i = n
    <3>1. /\ cred[cred'[i].from].kind = "session" /\ cred[cred'[i].from].user = cred'[i].user
      BY <1>3, <2>2 DEF NewRow
    <3>2. cred'[i].from < i
      <4>1. cred'[i].from # i
        BY <2>2, <3>1 DEF NewRow, Unissued
      <4>2. ~(i < cred'[i].from)
        <5>1. SUFFICES ASSUME i < cred'[i].from PROVE FALSE
          OBVIOUS
        <5>2. i \in 1..cred'[i].from - 1
          BY <5>1, <2>1
        <5>3. cred[i].kind # "none"
          BY <5>2, <3>1, <2>1, <1>a
        <5>4. QED
          BY <5>3, <2>2 DEF NewRow, Unissued
      <4>3. QED
        BY <4>1, <4>2, <2>1
    <3>3. QED
      BY <3>1, <3>2, <2>1, <1>1
  <2>3. CASE i # n
    <3>1. cred'[i].from = cred[i].from /\ cred'[i].user = cred[i].user
      BY <2>3 DEF RowsKept
    <3>2. QED
      BY <3>1, <2>1, <1>3, <1>a, <1>1
  <2>4. QED
    BY <2>2, <2>3
<1>4. QED
  BY <1>2, <1>3

\* A step that keeps the secrets keeps the rows and the requests sound.
LEMMA SecretsKeptRows ==
  ASSUME AccountsTypeOK, NEW n, SecretsKept, RowsKept(n), NEW j \in Id \ {n}, RowSound(j)
  PROVE  RowSound(j)'
<1>1. cred[j].user \in User /\ cred'[j].user = cred[j].user
  BY DEF AccountsTypeOK, Credential, RowsKept
<1>2. QED
  BY <1>1 DEF RowSound, Issued, Exists, SecretsKept, RowsKept

LEMMA SecretsKeptDesks ==
  ASSUME AccountsTypeOK, NEW n \in Id \union {NoId}, SecretsKept, RowsKept(n), NewRow(n),
         \A i \in Id : RowSound(i),
         NEW r \in Caller, DeskSound(r), desk'[r] = desk[r]
  PROVE  DeskSound(r)'
<1> DEFINE d == desk[r]
<1>1. CASE d.op = "idle"
  BY <1>1 DEF DeskSound
<1>2. CASE d.op # "idle"
  <2>1. d.user \in User
    BY DEF AccountsTypeOK, Desk
  <2>2. d.op \in {"password", "token", "ticket", "logout", "revoke", "redeem"} =>
          /\ d.by \in Id \ {n} /\ Issued(d.by) /\ cred[d.by].user = d.user
          /\ Issued(d.by)' /\ cred'[d.by].user = d.user /\ Exists(d.user)
          /\ cred'[d.by].proof = cred[d.by].proof /\ (cred[d.by].late => cred'[d.by].late)
    <3>1. SUFFICES ASSUME d.op \in {"password", "token", "ticket", "logout", "revoke", "redeem"}
                   PROVE  /\ d.by \in Id \ {n} /\ Issued(d.by) /\ cred[d.by].user = d.user
                          /\ Issued(d.by)' /\ cred'[d.by].user = d.user /\ Exists(d.user)
                          /\ cred'[d.by].proof = cred[d.by].proof /\ (cred[d.by].late => cred'[d.by].late)
      OBVIOUS
    <3>2. d.by \in Id /\ Issued(d.by) /\ cred[d.by].user = d.user
      BY <1>2, <3>1 DEF DeskSound
    <3>3. d.by # n
      BY <3>2 DEF NewRow, Unissued, Issued
    <3>4. QED
      BY <3>2, <3>3 DEF RowsKept, RowSound, Issued
  <2>3. d.seen.version # 0 => Exists(d.user)
    BY <1>2 DEF DeskSound
  <2>4. Exists(d.user) => users'[d.user].phrase = users[d.user].phrase /\ users'[d.user].version = users[d.user].version
    BY <2>1 DEF SecretsKept
  <2>5. d.op \in {"password", "reset"} => d.seen.version # 0
    BY <1>2 DEF DeskSound
  <2>6. d.seen.version # 0 /\ ~d.late =>
          d.seen.version = users[d.user].version /\ d.seen.phrase = users[d.user].phrase
    BY <1>2 DEF DeskSound
  <2>7. d.op \in {"token", "ticket"} /\ ~d.late =>
          cred[d.by].late \/ cred[d.by].proof = users[d.user].phrase
    BY <1>2 DEF DeskSound
  <2>8. /\ d.seen.version # 0 => Exists(d.user)'
        /\ d.seen.version # 0 /\ ~d.late =>
             d.seen.version = users'[d.user].version /\ d.seen.phrase = users'[d.user].phrase
    BY <2>3, <2>4, <2>6 DEF Exists
  <2>9. d.op \in {"token", "ticket"} /\ ~d.late =>
          cred'[d.by].late \/ cred'[d.by].proof = users'[d.user].phrase
    BY <2>2, <2>4, <2>7
  <2>10. QED
    BY <2>2, <2>5, <2>8, <2>9 DEF DeskSound
<1>3. QED
  BY <1>1, <1>2

\* Nobody comes to redeem a ticket that opened a console.
LEMMA OpenedKeptOnce ==
  ASSUME AccountsTypeOK, NEW n, RowsKept(n), OpenedKept(n), NEW i \in Id \ {n}, OpenedOnce(i),
         \A q \in Caller : desk'[q].op = "redeem" /\ desk'[q].by = i =>
           \/ desk[q].op = "redeem" /\ desk[q].by = i
           \/ cred[i].state = "live"
  PROVE  OpenedOnce(i)'
BY DEF RowsKept, OpenedKept, OpenedOnce

LEMMA NewNotOpened ==
  ASSUME NEW n \in Id, NewRow(n)
  PROVE  OpenedOnce(n)'
BY DEF NewRow, OpenedOnce

\* Guesses that are left when no login begins and none is answered.
LEMMA GuessesKept ==
  ASSUME AccountsTypeOK, NEW u \in User, GuessesLeft(u), throttle'[u] = throttle[u],
         throttle[u].blocked => LoginsOf(u)' \subseteq LoginsOf(u)
  PROVE  GuessesLeft(u)'
<1>1. CASE ~throttle[u].blocked
  BY <1>1 DEF GuessesLeft
<1>2. CASE throttle[u].blocked
  <2>1. IsFiniteSet(LoginsOf(u)) /\ Cardinality(Caller) \in Nat
    BY AccountsAssumption, FS_Subset, FS_CardinalityType DEF LoginsOf
  <2>2. Cardinality(LoginsOf(u)) \in Nat /\ Cardinality(LoginsOf(u)') \in Nat
        /\ Cardinality(LoginsOf(u)') <= Cardinality(LoginsOf(u))
    BY <1>2, <2>1, FS_Subset, FS_CardinalityType
  <2>3. throttle[u].tries \in Nat /\ Limit \in Nat
    BY AccountsAssumption, <2>1 DEF AccountsTypeOK, Attempts
  <2>4. throttle[u].tries + Cardinality(LoginsOf(u)) < Limit + Cardinality(Caller)
    BY <1>2 DEF GuessesLeft
  <2>5. throttle[u].tries + Cardinality(LoginsOf(u)') < Limit + Cardinality(Caller)
    BY <2>1, <2>2, <2>3, <2>4
  <2>6. QED
    BY <1>2, <2>5 DEF GuessesLeft
<1>3. QED
  BY <1>1, <1>2

\* A step that keeps the secrets, issues one row at most, and begins or ends
\* one request at most.
LEMMA QuietStep ==
  ASSUME AccountsInductive,
         NEW n \in Id \union {NoId}, SecretsKept, RowsKept(n), OpenedKept(n), NewRow(n),
         n \in Id => RowSound(n)',
         NEW q, OthersKept(q),
         q \in Caller => /\ DeskSound(q)'
                         /\ desk'[q].seen.version <= 1 + (MaxPhrase - budget.phrases)
                         /\ desk'[q].op = "redeem" => cred[desk'[q].by].state = "live",
         \A u \in User : users'[u].version <= 1 + (MaxPhrase - budget.phrases),
         budget' \in [begun : 0..MaxBegun, phrases : 0..MaxPhrase], budget'.phrases = budget.phrases,
         throttle' \in [User -> Attempts], \A u \in User : GuessesLeft(u)'
  PROVE  AccountsInductive'
<1>a. AccountsTypeOK /\ (\A i \in Id : RowSound(i) /\ OpenedOnce(i)) /\ (\A r \in Caller : DeskSound(r)) /\ VersionsCounted
  BY DEF AccountsInductive
<1>1. AccountsTypeOK'
  <2>1. /\ \A i \in Id : cred'[i].kind # "none" => \A j \in 1..i - 1 : cred'[j].kind # "none"
        /\ \A i \in Id : cred'[i].from # NoId =>
             /\ cred'[i].from < i
             /\ cred'[cred'[i].from].kind = "session"
             /\ cred'[cred'[i].from].user = cred'[i].user
    BY <1>a, RowsInOrder
  <2>2. QED
    BY <2>1 DEF AccountsTypeOK, SecretsKept, RowsKept, OthersKept
<1>2. ASSUME NEW i \in Id PROVE RowSound(i)'
  <2>1. CASE i = n
    BY <2>1
  <2>2. CASE i # n
    BY <2>2, <1>a, SecretsKeptRows
  <2>3. QED
    BY <2>1, <2>2
<1>3. ASSUME NEW i \in Id PROVE OpenedOnce(i)'
  <2>1. CASE i = n
    BY <2>1, NewNotOpened
  <2>2. CASE i # n
    <3>1. \A r \in Caller : desk'[r].op = "redeem" /\ desk'[r].by = i =>
            (desk[r].op = "redeem" /\ desk[r].by = i) \/ cred[i].state = "live"
      BY DEF OthersKept
    <3>2. QED
      BY <2>2, <3>1, <1>a, OpenedKeptOnce
  <2>3. QED
    BY <2>1, <2>2
<1>4. ASSUME NEW r \in Caller PROVE DeskSound(r)'
  <2>1. CASE r = q
    BY <2>1
  <2>2. CASE r # q
    <3>1. desk'[r] = desk[r]
      BY <2>2 DEF OthersKept
    <3>2. QED
      BY <3>1, <1>a, SecretsKeptDesks
  <2>3. QED
    BY <2>1, <2>2
<1>5. VersionsCounted'
  BY <1>a DEF VersionsCounted, OthersKept
<1>6. QED
  BY <1>1, <1>2, <1>3, <1>4, <1>5 DEF AccountsInductive

\* A name that is not answered keeps its guesses, if no login of it begins.
LEMMA QuietGuesses ==
  ASSUME AccountsInductive, NEW q, OthersKept(q), throttle' = throttle,
         q \in Caller => \/ desk'[q].op # "login"
                         \/ desk'[q].user \in User /\ ~throttle[desk'[q].user].blocked
  PROVE  throttle' \in [User -> Attempts] /\ \A u \in User : GuessesLeft(u)'
<1>1. throttle' \in [User -> Attempts]
  BY DEF AccountsInductive, AccountsTypeOK
<1>2. ASSUME NEW u \in User, throttle[u].blocked PROVE LoginsOf(u)' \subseteq LoginsOf(u)
  <2>1. SUFFICES ASSUME NEW r \in Caller, desk'[r].op = "login", desk'[r].user = u
                 PROVE  desk[r].op = "login" /\ desk[r].user = u
    BY DEF LoginsOf
  <2>2. r # q
    BY <2>1, <1>2
  <2>3. QED
    BY <2>1, <2>2 DEF OthersKept
<1>3. QED
  BY <1>1, <1>2, GuessesKept DEF AccountsInductive

\* Nothing of the rows changes.
LEMMA SameRows ==
  ASSUME AccountsTypeOK, cred' = cred
  PROVE  RowsKept(NoId) /\ OpenedKept(NoId) /\ NewRow(NoId) /\ NoId \notin Id
BY DEF AccountsTypeOK, RowsKept, OpenedKept, NewRow, Id, NoId

LEMMA SameUsers ==
  ASSUME AccountsInductive, users' = users
  PROVE  /\ SecretsKept
         /\ \A u \in User : users'[u].version <= 1 + (MaxPhrase - budget.phrases)
BY DEF AccountsInductive, AccountsTypeOK, SecretsKept, VersionsCounted

\* A request that has ended holds nothing.
LEMMA Finished ==
  ASSUME AccountsInductive, NEW q \in Caller, Finish(q)
  PROVE  /\ OthersKept(q) /\ DeskSound(q)'
         /\ desk'[q].op = "idle" /\ desk'[q].seen.version = 0
         /\ 0 <= 1 + (MaxPhrase - budget.phrases)
<1>1. /\ desk \in [Caller -> Desk]
      /\ budget.phrases \in 0..MaxPhrase /\ MaxPhrase \in Nat
  BY AccountsAssumption DEF AccountsInductive, AccountsTypeOK
<1>2. desk' \in [Caller -> Desk] /\ desk'[q] = NoDesk /\ \A r \in Caller \ {q} : desk'[r] = desk[r]
  BY <1>1, AccountsConstants DEF Finish
<1>3. QED
  BY <1>1, <1>2, AccountsConstants DEF OthersKept, DeskSound

\* A request that ends and writes a row at most, of no account.
LEMMA QuietFinish ==
  ASSUME AccountsInductive, NEW q \in Caller, Finish(q),
         UNCHANGED <<users, throttle, budget>>,
         NEW n \in Id \union {NoId}, RowsKept(n), OpenedKept(n), NewRow(n), n \in Id => RowSound(n)'
  PROVE  AccountsInductive'
<1>1. /\ OthersKept(q) /\ DeskSound(q)'
      /\ desk'[q].op = "idle" /\ desk'[q].seen.version <= 1 + (MaxPhrase - budget.phrases)
  BY Finished
<1>2. throttle' \in [User -> Attempts] /\ \A u \in User : GuessesLeft(u)'
  BY <1>1, QuietGuesses
<1>3. SecretsKept /\ \A u \in User : users'[u].version <= 1 + (MaxPhrase - budget.phrases)
  BY SameUsers
<1>4. budget' \in [begun : 0..MaxBegun, phrases : 0..MaxPhrase] /\ budget'.phrases = budget.phrases
  BY DEF AccountsInductive, AccountsTypeOK
<1>5. QED
  BY <1>1, <1>2, <1>3, <1>4, QuietStep

\* A request that begins and writes nothing.
LEMMA QuietBegin ==
  ASSUME AccountsInductive, NEW q \in Caller, NEW op \in Operation, NEW u \in User, NEW seen \in Account,
         NEW i \in Id \union {NoId}, Begin(q, op, u, seen, i),
         UNCHANGED <<users, cred, throttle>>,
         seen.version # 0 => seen = users[u],
         op = "login" => ~throttle[u].blocked,
         op \in {"password", "reset"} => seen.version # 0,
         op \in {"password", "token", "ticket", "logout", "revoke", "redeem"} =>
           /\ i \in Id /\ Issued(i) /\ cred[i].user = u /\ cred[i].state = "live"
           /\ cred[i].version = users[u].version
  PROVE  AccountsInductive'
<1>a. AccountsTypeOK /\ (\A j \in Id : RowSound(j)) /\ VersionsCounted
  BY DEF AccountsInductive
<1>b. /\ desk \in [Caller -> Desk] /\ users \in [User -> Account]
      /\ budget \in [begun : 0..MaxBegun, phrases : 0..MaxPhrase]
      /\ MaxBegun \in Nat /\ MaxPhrase \in Nat
  BY <1>a, AccountsAssumption DEF AccountsTypeOK
<1> DEFINE d == [op |-> op, user |-> u, seen |-> seen, by |-> i, late |-> FALSE]
<1>1. d \in Desk
  BY DEF Desk
<1>2. OthersKept(q) /\ desk'[q] = d
  BY <1>1, <1>b DEF Begin, OthersKept
<1>3. /\ budget' \in [begun : 0..MaxBegun, phrases : 0..MaxPhrase]
      /\ budget'.phrases = budget.phrases
  BY <1>b DEF Begin
<1>4. DeskSound(q)'
  <2>1. op \in {"token", "ticket"} => cred[i].late \/ cred[i].proof = users[u].phrase
    <3>1. SUFFICES ASSUME op \in {"token", "ticket"}
                   PROVE  cred[i].late \/ cred[i].proof = users[u].phrase
      OBVIOUS
    <3>2. /\ i \in Id /\ Issued(i) /\ cred[i].user = u /\ cred[i].state = "live"
          /\ cred[i].version = users[u].version
      BY <3>1
    <3>3. users[u].version \in 0..MaxPhrase + 1
      BY <1>b DEF Account
    <3>4. ~(cred[i].version < users[u].version)
      BY <3>2, <3>3, <1>b
    <3>5. QED
      BY <3>2, <3>4, <1>a DEF RowSound
  <2>2. QED
    BY <1>2, <2>1 DEF DeskSound, Exists, Issued
<1>5. seen.version <= 1 + (MaxPhrase - budget.phrases)
  <2>1. CASE seen.version = 0
    BY <2>1, <1>b
  <2>2. CASE seen.version # 0
    BY <2>2, <1>a DEF VersionsCounted
  <2>3. QED
    BY <2>1, <2>2
<1>6. throttle' \in [User -> Attempts] /\ \A v \in User : GuessesLeft(v)'
  BY <1>2, QuietGuesses
<1>7. SecretsKept /\ \A v \in User : users'[v].version <= 1 + (MaxPhrase - budget.phrases)
  BY SameUsers
<1>8. RowsKept(NoId) /\ OpenedKept(NoId) /\ NewRow(NoId) /\ NoId \notin Id
  BY <1>a, SameRows
<1>9. desk'[q].op = "redeem" => cred[desk'[q].by].state = "live"
  BY <1>2
<1>10. /\ DeskSound(q)' /\ desk'[q].seen.version <= 1 + (MaxPhrase - budget.phrases)
       /\ desk'[q].op = "redeem" => cred[desk'[q].by].state = "live"
  BY <1>2, <1>4, <1>5, <1>9
<1>11. QED
  BY <1>2, <1>3, <1>6, <1>7, <1>8, <1>10, QuietStep

\* A row that is issued: its type, and that it stays the only one.
LEMMA RowType ==
  ASSUME NEW kind \in {"session", "token", "ticket"}, NEW u \in User, NEW version \in 0..MaxPhrase + 1,
         NEW proof \in Phrase, NEW late \in BOOLEAN
  PROVE  /\ Row(kind, u, version, proof, late) \in Credential
         /\ Row(kind, u, version, proof, late) =
              [kind |-> kind, user |-> u, version |-> version, state |-> "live", from |-> NoId, at |-> {},
               proof |-> proof, late |-> late, opened |-> 0]
<1>1. ASSUME NEW r, r = Row(kind, u, version, proof, late)
      PROVE  r = [kind |-> kind, user |-> u, version |-> version, state |-> "live", from |-> NoId, at |-> {},
                  proof |-> proof, late |-> late, opened |-> 0]
  BY <1>1 DEF Row, NoCredential
<1>2. Row(kind, u, version, proof, late) =
        [kind |-> kind, user |-> u, version |-> version, state |-> "live", from |-> NoId, at |-> {},
         proof |-> proof, late |-> late, opened |-> 0]
  BY <1>1
<1>3. QED
  BY <1>2 DEF Credential

LEMMA RowIssued ==
  ASSUME AccountsTypeOK, NEW n \in Id, Unissued(n), NEW r \in Credential, cred' = [cred EXCEPT ![n] = r],
         r.kind # "none", r.opened = 0,
         r.from # NoId => /\ Issued(r.from) /\ cred[r.from].kind = "session" /\ cred[r.from].user = r.user
  PROVE  RowsKept(n) /\ OpenedKept(n) /\ NewRow(n) /\ cred'[n] = r
BY DEF AccountsTypeOK, RowsKept, OpenedKept, NewRow

\* A row that is used up, or ends.
LEMMA RowEnds ==
  ASSUME AccountsTypeOK, NEW i \in Id, NEW state \in {"expired", "spent", "gone"},
         cred' = [cred EXCEPT ![i].state = state]
  PROVE  RowsKept(NoId) /\ OpenedKept(NoId) /\ NewRow(NoId) /\ NoId \notin Id
<1>1. NoId \notin Id
  BY AccountsAssumption DEF Id, NoId
<1>2. cred \in [Id -> Credential]
  BY DEF AccountsTypeOK
<1>3. cred' \in [Id -> Credential]
  BY <1>2 DEF Credential
<1>4. \A j \in Id : cred'[j] = IF j = i THEN [cred[j] EXCEPT !.state = state] ELSE cred[j]
  BY <1>2
<1>5. QED
  BY <1>1, <1>2, <1>3, <1>4 DEF RowsKept, OpenedKept, NewRow, Credential

-----------------------------------------------------------------------------
(***************************************************************************)
(* Steps that change a password                                            *)
(***************************************************************************)

\* The others' requests of the account are late, and are what they were.
LEMMA Overtaken ==
  ASSUME AccountsTypeOK, NEW q \in Caller, NEW u \in User, Overtake(q, u)
  PROVE  /\ desk' \in [Caller -> Desk]
         /\ desk'[q] = NoDesk
         /\ \A r \in Caller \ {q} :
              /\ desk'[r].op = desk[r].op /\ desk'[r].user = desk[r].user
              /\ desk'[r].seen = desk[r].seen /\ desk'[r].by = desk[r].by
              /\ desk[r].op # "idle" /\ desk[r].user = u => desk'[r].late
              /\ ~(desk[r].op # "idle" /\ desk[r].user = u) => desk'[r] = desk[r]
         /\ \A v \in User : LoginsOf(v)' \subseteq LoginsOf(v)
<1>a. desk \in [Caller -> Desk]
  BY DEF AccountsTypeOK
<1>1. desk' \in [Caller -> Desk] /\ desk'[q] = NoDesk
  BY <1>a, AccountsConstants DEF Overtake, Desk
<1>2. ASSUME NEW r \in Caller \ {q}
      PROVE  /\ desk'[r].op = desk[r].op /\ desk'[r].user = desk[r].user
             /\ desk'[r].seen = desk[r].seen /\ desk'[r].by = desk[r].by
             /\ desk[r].op # "idle" /\ desk[r].user = u => desk'[r].late
             /\ ~(desk[r].op # "idle" /\ desk[r].user = u) => desk'[r] = desk[r]
  BY <1>a DEF Overtake, Desk
<1>3. \A v \in User : LoginsOf(v)' \subseteq LoginsOf(v)
  BY <1>1, <1>2, AccountsConstants DEF LoginsOf
<1>4. QED
  BY <1>1, <1>2, <1>3

\* A request of u writes u's row: what was issued to u is late, ended or of
\* an earlier version than the one in force.
LEMMA OverwriteStep ==
  ASSUME AccountsInductive, NEW q \in Caller, NEW u \in User, Overtake(q, u),
         NEW n \in Id \union {NoId}, RowsKept(n), OpenedKept(n), NewRow(n),
         n \in Id => RowSound(n)',
         users' \in [User -> Account], \A v \in User \ {u} : users'[v] = users[v], Exists(u)',
         \A j \in Id \ {n} : Issued(j) /\ cred[j].user = u =>
           cred'[j].late \/ cred'[j].state # "live" \/ cred[j].version < users'[u].version,
         budget' \in [begun : 0..MaxBegun, phrases : 0..MaxPhrase], budget'.phrases <= budget.phrases,
         users'[u].version <= 1 + (MaxPhrase - budget'.phrases),
         throttle' \in [User -> Attempts], \A v \in User : GuessesLeft(v)'
  PROVE  AccountsInductive'
<1>a. AccountsTypeOK /\ (\A i \in Id : RowSound(i) /\ OpenedOnce(i)) /\ (\A r \in Caller : DeskSound(r)) /\ VersionsCounted
  BY DEF AccountsInductive
<1>b. /\ desk' \in [Caller -> Desk]
      /\ desk'[q].op = "idle" /\ desk'[q].seen.version = 0
      /\ \A r \in Caller \ {q} :
           /\ desk'[r].op = desk[r].op /\ desk'[r].user = desk[r].user
           /\ desk'[r].seen = desk[r].seen /\ desk'[r].by = desk[r].by
           /\ desk[r].op # "idle" /\ desk[r].user = u => desk'[r].late
           /\ ~(desk[r].op # "idle" /\ desk[r].user = u) => desk'[r] = desk[r]
  BY <1>a, Overtaken, AccountsConstants
<1>1. AccountsTypeOK'
  <2>1. /\ \A i \in Id : cred'[i].kind # "none" => \A j \in 1..i - 1 : cred'[j].kind # "none"
        /\ \A i \in Id : cred'[i].from # NoId =>
             /\ cred'[i].from < i
             /\ cred'[cred'[i].from].kind = "session"
             /\ cred'[cred'[i].from].user = cred'[i].user
    BY <1>a, RowsInOrder
  <2>2. QED
    BY <2>1, <1>b DEF AccountsTypeOK, RowsKept
<1>2. ASSUME NEW i \in Id PROVE RowSound(i)'
  <2>1. CASE i = n
    BY <2>1
  <2>2. CASE i # n
    <3>1. cred[i].user \in User /\ cred'[i].user = cred[i].user /\ cred'[i].kind = cred[i].kind
          /\ cred'[i].version = cred[i].version /\ cred'[i].proof = cred[i].proof
          /\ (cred[i].late => cred'[i].late) /\ (cred'[i].state = "live" => cred[i].state = "live")
      BY <2>2, <1>a DEF AccountsTypeOK, Credential, RowsKept
    <3>2. CASE cred[i].user = u
      BY <2>2, <3>1, <3>2, <1>a DEF RowSound, Issued, Exists
    <3>3. CASE cred[i].user # u
      <4>1. users'[cred[i].user] = users[cred[i].user]
        BY <3>1, <3>3
      <4>2. QED
        BY <4>1, <3>1, <1>a DEF RowSound, Issued, Exists
    <3>4. QED
      BY <3>2, <3>3
  <2>3. QED
    BY <2>1, <2>2
<1>3. ASSUME NEW i \in Id PROVE OpenedOnce(i)'
  <2>1. CASE i = n
    BY <2>1, NewNotOpened
  <2>2. CASE i # n
    <3>1. \A r \in Caller : desk'[r].op = "redeem" /\ desk'[r].by = i =>
            (desk[r].op = "redeem" /\ desk[r].by = i) \/ cred[i].state = "live"
      BY <1>b
    <3>2. QED
      BY <2>2, <3>1, <1>a, OpenedKeptOnce
  <2>3. QED
    BY <2>1, <2>2
<1>4. ASSUME NEW r \in Caller PROVE DeskSound(r)'
  <2>1. CASE r = q
    BY <2>1, <1>b DEF DeskSound
  <2>2. CASE r # q /\ ~(desk[r].op # "idle" /\ desk[r].user = u)
    <3>1. desk'[r] = desk[r]
      BY <2>2, <1>b
    <3>2. CASE desk[r].op = "idle"
      BY <3>1, <3>2 DEF DeskSound
    <3>3. CASE desk[r].op # "idle"
      <4>1. desk[r].user \in User \ {u}
        BY <3>3, <2>2, <1>a DEF AccountsTypeOK, Desk
      <4>2. users'[desk[r].user] = users[desk[r].user]
        BY <4>1
      <4>3. desk[r].op \in {"password", "token", "ticket", "logout", "revoke", "redeem"} =>
              /\ desk[r].by \in Id \ {n} /\ Issued(desk[r].by) /\ cred[desk[r].by].user = desk[r].user
        BY <3>3, <1>a DEF DeskSound, NewRow, Unissued, Issued
      <4>4. desk[r].op \in {"password", "token", "ticket", "logout", "revoke", "redeem"} =>
              /\ desk[r].by \in Id /\ cred'[desk[r].by].kind # "none" /\ cred'[desk[r].by].user = desk[r].user
              /\ cred'[desk[r].by].proof = cred[desk[r].by].proof
              /\ cred[desk[r].by].late => cred'[desk[r].by].late
        BY <4>3 DEF RowsKept, Issued
      <4>5. QED
        BY <3>1, <3>3, <4>2, <4>4, <1>a DEF DeskSound, Exists, Issued
    <3>4. QED
      BY <3>2, <3>3
  <2>3. CASE r # q /\ desk[r].op # "idle" /\ desk[r].user = u
    <3>1. /\ desk'[r].op = desk[r].op /\ desk'[r].user = desk[r].user
          /\ desk'[r].seen = desk[r].seen /\ desk'[r].by = desk[r].by /\ desk'[r].late
      BY <2>3, <1>b
    <3>2. desk[r].op \in {"password", "token", "ticket", "logout", "revoke", "redeem"} =>
            /\ desk[r].by \in Id \ {n} /\ Issued(desk[r].by) /\ cred[desk[r].by].user = u
      BY <2>3, <1>a DEF DeskSound, NewRow, Unissued, Issued
    <3>3. desk[r].op \in {"password", "token", "ticket", "logout", "revoke", "redeem"} =>
            /\ desk[r].by \in Id /\ cred'[desk[r].by].kind # "none" /\ cred'[desk[r].by].user = u
      BY <3>2 DEF RowsKept, Issued
    <3>4. desk[r].op \in {"password", "reset"} => desk[r].seen.version # 0
      BY <2>3, <1>a DEF DeskSound
    <3>5. QED
      BY <2>3, <3>1, <3>3, <3>4 DEF DeskSound, Exists, Issued
  <2>4. QED
    BY <2>1, <2>2, <2>3
<1>5. VersionsCounted'
  <2>1. /\ budget.phrases \in Nat /\ budget'.phrases \in Nat /\ MaxPhrase \in Nat
        /\ \A v \in User : users[v].version \in Nat /\ users'[v].version \in Nat
        /\ \A r \in Caller : desk[r].seen.version \in Nat
    BY <1>a, AccountsAssumption DEF AccountsTypeOK, Account, Desk
  <2>2. \A v \in User : users'[v].version <= 1 + (MaxPhrase - budget'.phrases)
    BY <2>1, <1>a DEF VersionsCounted
  <2>3. 0 <= 1 + (MaxPhrase - budget'.phrases)
    BY <2>1
  <2>4. \A r \in Caller : desk'[r].seen.version <= 1 + (MaxPhrase - budget'.phrases)
    BY <2>1, <2>3, <1>a, <1>b DEF VersionsCounted
  <2>5. QED
    BY <2>2, <2>4 DEF VersionsCounted
<1>6. QED
  BY <1>1, <1>2, <1>3, <1>4, <1>5 DEF AccountsInductive

\* A login that went through, whatever it does to the requests of others.
LEMMA SuccessGuesses ==
  ASSUME AccountsInductive, NEW u \in User, RecordSuccess(u),
         \A v \in User : LoginsOf(v)' \subseteq LoginsOf(v)
  PROVE  throttle' \in [User -> Attempts] /\ \A v \in User : GuessesLeft(v)'
<1>a. throttle \in [User -> Attempts] /\ AccountsTypeOK
  BY DEF AccountsInductive, AccountsTypeOK
<1>1. throttle' \in [User -> Attempts]
  BY <1>a, AccountsConstants DEF RecordSuccess
<1>2. ASSUME NEW v \in User PROVE GuessesLeft(v)'
  <2>1. CASE v = u
    BY <2>1, <1>a DEF RecordSuccess, GuessesLeft, NoAttempts
  <2>2. CASE v # u
    <3>1. throttle'[v] = throttle[v]
      BY <2>2, <1>a DEF RecordSuccess
    <3>2. QED
      BY <3>1, <1>a, GuessesKept DEF AccountsInductive
  <2>3. QED
    BY <2>1, <2>2
<1>3. QED
  BY <1>1, <1>2

\* change-password and reset-password.
LEMMA NewPasswordStep ==
  ASSUME AccountsInductive, NEW q \in Caller, desk[q].op \in {"password", "reset"}, NewPassword(q)
  PROVE  AccountsInductive'
<1> DEFINE d == desk[q]
<1>a. AccountsTypeOK /\ (\A i \in Id : RowSound(i)) /\ DeskSound(q) /\ VersionsCounted
  BY DEF AccountsInductive
<1>b. /\ MaxPhrase \in Nat /\ MaxBegun \in Nat
      /\ budget \in [begun : 0..MaxBegun, phrases : 0..MaxPhrase] /\ budget.phrases > 0
      /\ budget' = [budget EXCEPT !.phrases = @ - 1]
      /\ users \in [User -> Account] /\ cred \in [Id -> Credential]
      /\ d \in Desk
  BY <1>a, AccountsAssumption DEF NewPassword, AccountsTypeOK, Desk
<1>u. PICK u \in User : u = desk[q].user
  BY <1>b DEF Desk
<1>c. d.seen.version \in Nat /\ d.seen.version # 0 /\ d.seen.version <= 1 + (MaxPhrase - budget.phrases)
  BY <1>a, <1>b DEF DeskSound, VersionsCounted, Desk, Account
<1>1. /\ budget' \in [begun : 0..MaxBegun, phrases : 0..MaxPhrase]
      /\ budget'.phrases = budget.phrases - 1
  BY <1>b
<1>2. /\ users' \in [User -> Account]
      /\ users'[u].version = d.seen.version + 1
      /\ \A v \in User \ {u} : users'[v] = users[v]
  <2> DEFINE a == [phrase |-> (MaxPhrase - budget.phrases) + 1, version |-> d.seen.version + 1, worn |-> FALSE]
  <2>1. users' = [users EXCEPT ![u] = a]
    BY <1>u DEF NewPassword, InvalidateCredentials
  <2>2. a.phrase \in 0..MaxPhrase /\ a.version \in 0..MaxPhrase + 1
    BY <1>b, <1>c
  <2>3. a \in Account
    BY <2>2 DEF Account, Phrase
  <2>4. QED
    BY <2>1, <2>3, <1>b
<1>3. cred' = [i \in Id |-> IF i \in SessionsOf(u) THEN [cred[i] EXCEPT !.state = "gone"]
                            ELSE IF d.late /\ cred[i].user = u /\ cred[i].kind # "none"
                            THEN [cred[i] EXCEPT !.late = TRUE] ELSE cred[i]]
  BY <1>u DEF NewPassword, InvalidateCredentials, Tainted
<1>4. RowsKept(NoId) /\ OpenedKept(NoId) /\ NewRow(NoId) /\ NoId \notin Id
  <2>1. ASSUME NEW i \in Id
        PROVE  /\ cred'[i] \in Credential
               /\ \/ cred'[i] = cred[i]
                  \/ cred'[i] = [cred[i] EXCEPT !.state = "gone"]
                  \/ cred'[i] = [cred[i] EXCEPT !.late = TRUE]
    <3>1. cred[i] \in Credential
      BY <1>b
    <3>2. [cred[i] EXCEPT !.state = "gone"] \in Credential /\ [cred[i] EXCEPT !.late = TRUE] \in Credential
      BY <3>1 DEF Credential
    <3>3. QED
      BY <1>3, <3>1, <3>2
  <2>2. cred' \in [Id -> Credential]
    BY <1>3, <2>1
  <2>3. NoId \notin Id
    BY AccountsAssumption DEF Id, NoId
  <2>4. QED
    BY <1>b, <2>1, <2>2, <2>3 DEF RowsKept, OpenedKept, NewRow, Credential
<1>5. ASSUME NEW j \in Id, Issued(j), cred[j].user = u
      PROVE  cred'[j].late \/ cred'[j].state # "live" \/ cred[j].version < users'[u].version
  <2>1. CASE j \in SessionsOf(u)
    BY <2>1, <1>3, <1>b DEF Credential
  <2>2. CASE j \notin SessionsOf(u) /\ d.late
    BY <2>2, <1>3, <1>5, <1>b DEF Credential, Issued
  <2>3. CASE j \notin SessionsOf(u) /\ ~d.late
    <3>1. cred'[j] = cred[j]
      BY <2>3, <1>3
    <3>2. d.seen.version = users[u].version
      BY <2>3, <1>a, <1>c, <1>u DEF DeskSound
    <3>3. cred[j].version \in Nat /\ users[u].version \in Nat
      BY <1>b DEF Credential, Account
    <3>4. QED
      BY <3>1, <3>2, <3>3, <1>2, <1>5, <1>a DEF RowSound
  <2>4. QED
    BY <2>1, <2>2, <2>3
<1>6. throttle' \in [User -> Attempts] /\ \A v \in User : GuessesLeft(v)'
  <2>1. throttle' = throttle /\ Overtake(q, u)
    BY <1>u DEF NewPassword
  <2>2. \A v \in User : LoginsOf(v)' \subseteq LoginsOf(v)
    BY <2>1, <1>a, <1>b, Overtaken
  <2>3. QED
    BY <2>1, <2>2, <1>a, GuessesKept DEF AccountsInductive, AccountsTypeOK
<1>7. Exists(u)' /\ users'[u].version <= 1 + (MaxPhrase - budget'.phrases) /\ budget'.phrases <= budget.phrases
  BY <1>1, <1>2, <1>b, <1>c DEF Exists
<1>8. Overtake(q, u)
  BY <1>u DEF NewPassword
<1> HIDE DEF d
<1>9. QED
  BY <1>1, <1>2, <1>4, <1>5, <1>6, <1>7, <1>8, <1>b, OverwriteStep

-----------------------------------------------------------------------------
(***************************************************************************)
(* Getting in                                                              *)
(***************************************************************************)

\* Logins of a request that ends.
LEMMA FewerLogins ==
  ASSUME NEW q, OthersKept(q), q \in Caller => desk'[q].op # "login"
  PROVE  \A v \in User : LoginsOf(v)' \subseteq LoginsOf(v)
BY DEF OthersKept, LoginsOf

LEMMA LoginStep ==
  ASSUME AccountsInductive, NEW q \in Caller, Login(q)
  PROVE  AccountsInductive'
<1> DEFINE d == desk[q]
<1>a. AccountsTypeOK /\ (\A i \in Id : RowSound(i)) /\ DeskSound(q) /\ VersionsCounted
  BY DEF AccountsInductive
<1>b. /\ MaxPhrase \in Nat
      /\ budget \in [begun : 0..MaxBegun, phrases : 0..MaxPhrase] /\ budget' = budget
      /\ users \in [User -> Account] /\ cred \in [Id -> Credential]
      /\ d \in Desk /\ d.op = "login" /\ d.seen.version # 0
  BY <1>a, AccountsAssumption DEF Login, Busy, AccountsTypeOK
<1>u. PICK u \in User : u = desk[q].user
  BY <1>b DEF Desk
<1>c. /\ d.seen.version \in 0..MaxPhrase + 1 /\ d.seen.phrase \in Phrase /\ d.late \in BOOLEAN
      /\ users[u].version \in 0..MaxPhrase + 1 /\ users[u].phrase \in Phrase /\ Exists(u)
      /\ ~d.late => d.seen.version = users[u].version /\ d.seen.phrase = users[u].phrase
  BY <1>a, <1>b, <1>u DEF DeskSound, Desk, Account
<1>d. RecordSuccess(u)
  BY <1>u DEF Login
<1>e. /\ \A v \in User : users[v].version <= 1 + (MaxPhrase - budget.phrases)
      /\ budget' \in [begun : 0..MaxBegun, phrases : 0..MaxPhrase]
      /\ budget'.phrases = budget.phrases /\ budget'.phrases <= budget.phrases
  BY <1>a, <1>b DEF VersionsCounted
<1> DEFINE r(version) == Row("session", u, version, d.seen.phrase, d.late)
<1>f. \A version \in 0..MaxPhrase + 1 :
        /\ r(version) \in Credential
        /\ r(version) = [kind |-> "session", user |-> u, version |-> version, state |-> "live", from |-> NoId,
                         at |-> {}, proof |-> d.seen.phrase, late |-> d.late, opened |-> 0]
  BY <1>c, RowType, ZenonT(60)
<1> HIDE DEF r
<1>g. d.seen.worn =>
        /\ users' \in [User -> Account]
        /\ users'[u].phrase = d.seen.phrase /\ users'[u].version = users[u].version
        /\ \A v \in User \ {u} : users'[v] = users[v]
  <2> SUFFICES ASSUME d.seen.worn
               PROVE  /\ users' \in [User -> Account]
                      /\ users'[u].phrase = d.seen.phrase /\ users'[u].version = users[u].version
                      /\ \A v \in User \ {u} : users'[v] = users[v]
    OBVIOUS
  <2>1. users' = [users EXCEPT ![u].phrase = d.seen.phrase, ![u].worn = FALSE]
    BY <1>u DEF Login
  <2> DEFINE a == [phrase |-> d.seen.phrase, version |-> users[u].version, worn |-> FALSE]
  <2>2. users'[u] = a /\ \A v \in User \ {u} : users'[v] = users[v]
    BY <2>1, <1>b DEF Account
  <2>3. a \in Account
    BY <1>c DEF Account
  <2>4. users' \in [User -> Account]
    <3>1. \A v \in User : users'[v] \in Account
      BY <2>2, <2>3, <1>b
    <3>2. users' = [v \in User |-> users'[v]]
      BY <2>1, <1>b
    <3>3. QED
      BY <3>1, <3>2
  <2>5. QED
    BY <2>2, <2>4
<1>h. CASE Finish(q) /\ ~(d.seen.worn /\ d.late)
  <2>1. /\ OthersKept(q) /\ DeskSound(q)'
        /\ desk'[q].op = "idle" /\ desk'[q].seen.version <= 1 + (MaxPhrase - budget.phrases)
    BY <1>h, Finished
  <2>2. throttle' \in [User -> Attempts] /\ \A v \in User : GuessesLeft(v)'
    BY <1>d, <2>1, FewerLogins, SuccessGuesses
  <2>3. ASSUME NEW i \in Id, SecretsKept, RowsKept(i), OpenedKept(i), NewRow(i), RowSound(i)',
               \A v \in User : users'[v].version = users[v].version
        PROVE  AccountsInductive'
    BY <1>e, <2>1, <2>2, <2>3, QuietStep
  <2>4. CASE d.seen.worn /\ ~d.late
    <3>1. PICK i \in Id : Unissued(i) /\ cred' = [Tainted(u, d.late) EXCEPT ![i] = r(users[u].version)]
      BY <2>4, <1>u DEF Login, r
    <3>2. cred' = [cred EXCEPT ![i] = r(users[u].version)]
      <4>1. Tainted(u, d.late) = cred
        BY <2>4, <1>b DEF Tainted
      <4>2. QED
        BY <3>1, <4>1
    <3>3. RowsKept(i) /\ OpenedKept(i) /\ NewRow(i) /\ cred'[i] = r(users[u].version)
      BY <3>1, <3>2, <1>a, <1>c, <1>f, RowIssued
    <3>4. SecretsKept /\ \A v \in User : users'[v].version = users[v].version
      BY <1>c, <1>g, <2>4 DEF SecretsKept
    <3>5. RowSound(i)'
      BY <1>c, <1>f, <1>g, <2>4, <3>3 DEF RowSound, Exists, Issued
    <3>6. QED
      BY <2>3, <3>3, <3>4, <3>5
  <2>5. CASE ~d.seen.worn
    <3>1. PICK i \in Id : Unissued(i) /\ cred' = [cred EXCEPT ![i] = r(d.seen.version)]
      BY <2>5, <1>u DEF Login, Insert, r
    <3>2. users' = users
      BY <2>5 DEF Login
    <3>3. RowsKept(i) /\ OpenedKept(i) /\ NewRow(i) /\ cred'[i] = r(d.seen.version)
      <4>1. /\ r(d.seen.version) \in Credential
            /\ r(d.seen.version).kind # "none" /\ r(d.seen.version).opened = 0 /\ r(d.seen.version).from = NoId
        BY <1>c, <1>f
      <4>2. QED
        BY <3>1, <4>1, <1>a, RowIssued
    <3>4. RowSound(i)'
      BY <3>2, <3>3, <1>b, <1>c, <1>f DEF RowSound, Exists, Issued
    <3>5. QED
      BY <2>3, <3>2, <3>3, <3>4, SameUsers
  <2>6. QED
    BY <1>h, <2>4, <2>5
<1>i. CASE d.seen.worn /\ d.late /\ Overtake(q, u)
  <2>1. PICK i \in Id : Unissued(i) /\ cred' = [Tainted(u, d.late) EXCEPT ![i] = r(users[u].version)]
    BY <1>i, <1>u DEF Login, r
  <2>2. ASSUME NEW j \in Id \ {i}
        PROVE  /\ cred'[j] \in Credential
               /\ cred'[j].kind = cred[j].kind /\ cred'[j].user = cred[j].user /\ cred'[j].version = cred[j].version
               /\ cred'[j].from = cred[j].from /\ cred'[j].proof = cred[j].proof /\ cred'[j].state = cred[j].state
               /\ cred'[j].opened = cred[j].opened
               /\ cred[j].late => cred'[j].late
               /\ Issued(j) /\ cred[j].user = u => cred'[j].late
    <3>1. cred'[j] = IF cred[j].user = u /\ cred[j].kind # "none" THEN [cred[j] EXCEPT !.late = TRUE] ELSE cred[j]
      BY <1>b, <1>i, <2>1 DEF Tainted
    <3>2. cred[j] \in Credential
      BY <1>b
    <3>3. QED
      BY <3>1, <3>2 DEF Credential, Issued
  <2>3. cred' \in [Id -> Credential] /\ cred'[i] = r(users[u].version)
    BY <1>c, <1>f, <2>1, <2>2 DEF Tainted
  <2>4. RowsKept(i) /\ OpenedKept(i) /\ NewRow(i)
    BY <1>c, <1>f, <2>1, <2>2, <2>3 DEF RowsKept, OpenedKept, NewRow
  <2>5. \A j \in Id \ {i} : Issued(j) /\ cred[j].user = u => cred'[j].late
    BY <2>2
  <2>6. RowSound(i)' /\ Exists(u)'
    BY <1>c, <1>f, <1>g, <1>i, <2>3 DEF RowSound, Exists, Issued
  <2>7. throttle' \in [User -> Attempts] /\ \A v \in User : GuessesLeft(v)'
    BY <1>a, <1>d, <1>i, Overtaken, SuccessGuesses
  <2>8. users'[u].version <= 1 + (MaxPhrase - budget'.phrases)
    BY <1>e, <1>g, <1>i
  <2>9. QED
    BY <1>e, <1>g, <1>i, <2>4, <2>5, <2>6, <2>7, <2>8, OverwriteStep
<1>j. QED
  BY <1>h, <1>i, <1>u DEF Login

\* One more wrong guess: it locks the name, or a lockout has one fewer left.
LEMMA LoginFailsStep ==
  ASSUME AccountsInductive, NEW q \in Caller, LoginFails(q)
  PROVE  AccountsInductive'
<1>a. AccountsTypeOK
  BY DEF AccountsInductive
<1>b. /\ throttle \in [User -> Attempts] /\ desk[q] \in Desk /\ Limit \in Nat \ {0}
      /\ IsFiniteSet(Caller) /\ Cardinality(Caller) \in Nat
  BY <1>a, AccountsAssumption, FS_CardinalityType DEF AccountsTypeOK
<1>u. PICK u \in User : u = desk[q].user
  BY <1>b DEF Desk
<1>1. /\ OthersKept(q) /\ DeskSound(q)'
      /\ desk'[q].op = "idle" /\ desk'[q].seen.version <= 1 + (MaxPhrase - budget.phrases)
  BY Finished DEF LoginFails
<1>2. LoginsOf(u)' \subseteq LoginsOf(u) \ {q} /\ q \in LoginsOf(u)
  BY <1>1, <1>u DEF LoginFails, Busy, LoginsOf, OthersKept
<1>3. /\ Cardinality(LoginsOf(u)) \in Nat /\ Cardinality(LoginsOf(u)') \in Nat
      /\ Cardinality(LoginsOf(u)') <= Cardinality(LoginsOf(u)) - 1
      /\ Cardinality(LoginsOf(u)) <= Cardinality(Caller)
  <2>1. IsFiniteSet(LoginsOf(u)) /\ Cardinality(LoginsOf(u)) <= Cardinality(Caller)
    BY <1>b, FS_Subset DEF LoginsOf
  <2>2. /\ IsFiniteSet(LoginsOf(u) \ {q}) /\ Cardinality(LoginsOf(u) \ {q}) = Cardinality(LoginsOf(u)) - 1
    BY <1>2, <2>1, FS_RemoveElement
  <2>3. IsFiniteSet(LoginsOf(u)') /\ Cardinality(LoginsOf(u)') <= Cardinality(LoginsOf(u) \ {q})
    BY <1>2, <2>2, FS_Subset
  <2>4. QED
    BY <2>1, <2>2, <2>3, FS_CardinalityType
<1> DEFINE e == throttle[u]
           reached == e.count + 1 >= Limit
<1>4. /\ e.count \in 0..Limit - 1 /\ e.tries \in 0..Limit + Cardinality(Caller) /\ e.blocked \in BOOLEAN
      /\ GuessesLeft(u)
  BY <1>b DEF AccountsInductive, Attempts
<1>5. e.tries + 1 <= Limit + Cardinality(Caller)
  BY <1>3, <1>4, <1>b DEF GuessesLeft
<1>6. throttle' = [throttle EXCEPT ![u] = [count   |-> IF reached THEN 0 ELSE e.count + 1,
                                           blocked |-> reached \/ e.blocked,
                                           tries   |-> e.tries + 1]]
  BY <1>u DEF LoginFails, RecordFailure
<1>7. throttle' \in [User -> Attempts]
  <2>1. /\ (IF reached THEN 0 ELSE e.count + 1) \in 0..Limit - 1
        /\ e.tries + 1 \in 0..Limit + Cardinality(Caller)
    BY <1>4, <1>5, <1>b
  <2>2. (reached \/ e.blocked) \in BOOLEAN
    OBVIOUS
  <2>3. QED
    BY <1>6, <2>1, <2>2, <1>b DEF Attempts
<1>8. ASSUME NEW v \in User PROVE GuessesLeft(v)'
  <2>1. CASE v = u
    <3>1. /\ throttle'[u].tries = e.tries + 1
          /\ throttle'[u].blocked <=> reached \/ e.blocked
          /\ throttle'[u].count = IF reached THEN 0 ELSE e.count + 1
      BY <1>6, <1>b
    <3>2. CASE ~(reached \/ e.blocked)
      BY <2>1, <3>1, <3>2, <1>4, <1>b DEF GuessesLeft
    <3>3. CASE e.blocked
      <4>1. e.tries + Cardinality(LoginsOf(u)) < Limit + Cardinality(Caller)
        BY <3>3, <1>4 DEF GuessesLeft
      <4>2. e.tries + 1 + Cardinality(LoginsOf(u)') < Limit + Cardinality(Caller)
        BY <4>1, <1>3, <1>4, <1>b
      <4>3. QED
        BY <2>1, <3>1, <3>3, <4>2 DEF GuessesLeft
    <3>4. CASE reached /\ ~e.blocked
      <4>1. e.tries <= e.count
        BY <3>4, <1>4 DEF GuessesLeft
      <4>2. e.tries + 1 + Cardinality(LoginsOf(u)') < Limit + Cardinality(Caller)
        BY <4>1, <1>3, <1>4, <1>b
      <4>3. QED
        BY <2>1, <3>1, <3>4, <4>2 DEF GuessesLeft
    <3>5. QED
      BY <3>2, <3>3, <3>4
  <2>2. CASE v # u
    <3>1. throttle'[v] = throttle[v]
      BY <2>2, <1>6, <1>b
    <3>2. LoginsOf(v)' \subseteq LoginsOf(v)
      BY <1>1, FewerLogins
    <3>3. QED
      BY <3>1, <3>2, <1>a, GuessesKept DEF AccountsInductive
  <2>3. QED
    BY <2>1, <2>2
<1>9. RowsKept(NoId) /\ OpenedKept(NoId) /\ NewRow(NoId) /\ NoId \notin Id
  BY <1>a, SameRows DEF LoginFails
<1>10. SecretsKept /\ \A v \in User : users'[v].version <= 1 + (MaxPhrase - budget.phrases)
  BY SameUsers DEF LoginFails
<1>11. budget' \in [begun : 0..MaxBegun, phrases : 0..MaxPhrase] /\ budget'.phrases = budget.phrases
  BY <1>a DEF LoginFails, AccountsTypeOK
<1>12. QED
  BY <1>1, <1>7, <1>8, <1>9, <1>10, <1>11, QuietStep

LEMMA CreateFirstAccountStep ==
  ASSUME AccountsInductive, NEW q \in Caller, CreateFirstAccount(q)
  PROVE  AccountsInductive'
<1>a. AccountsTypeOK
  BY DEF AccountsInductive
<1>u. PICK u \in User : u = desk[q].user
  BY <1>a DEF AccountsTypeOK, Desk
<1>b. /\ MaxPhrase \in Nat /\ users \in [User -> Account]
      /\ budget \in [begun : 0..MaxBegun, phrases : 0..MaxPhrase]
  BY <1>a, AccountsAssumption DEF AccountsTypeOK
<1>1. PICK a : a = [NoAccount EXCEPT !.version = 1]
  OBVIOUS
<1>2. /\ SecretsKept /\ users'[u].phrase = 0 /\ users'[u].version = 1
      /\ \A v \in User : users'[v].version <= 1 + (MaxPhrase - budget.phrases)
  <2>1. a \in Account /\ a.phrase = 0 /\ a.version = 1
    <3>1. a = [phrase |-> 0, version |-> 1, worn |-> FALSE]
      BY <1>1 DEF NoAccount
    <3>2. QED
      BY <1>b, <3>1 DEF Account, Phrase
  <2>2. \A v \in User : users[v].version <= 1 + (MaxPhrase - budget.phrases)
    BY DEF AccountsInductive, VersionsCounted
  <2>3. ~Exists(u) /\ users' = [users EXCEPT ![u] = a]
    BY <1>u, <1>1 DEF CreateFirstAccount
  <2>4. QED
    BY <1>b, <2>1, <2>2, <2>3 DEF SecretsKept
<1> DEFINE r == Row("session", u, 1, 0, FALSE)
<1>3. r \in Credential /\ r = [kind |-> "session", user |-> u, version |-> 1, state |-> "live", from |-> NoId,
                               at |-> {}, proof |-> 0, late |-> FALSE, opened |-> 0]
  <2>1. 1 \in 0..MaxPhrase + 1 /\ 0 \in Phrase
    BY <1>b DEF Phrase
  <2>2. QED
    BY <2>1, RowType, Zenon
<1>4. PICK n \in Id : Unissued(n) /\ cred' = [cred EXCEPT ![n] = r]
  BY <1>u DEF CreateFirstAccount, Insert
<1> HIDE DEF r
<1>5. RowsKept(n) /\ OpenedKept(n) /\ NewRow(n) /\ cred'[n] = r
  BY <1>a, <1>3, <1>4, RowIssued
<1>6. RowSound(n)'
  BY <1>2, <1>3, <1>5 DEF RowSound, Exists, Issued
<1>7. /\ OthersKept(q) /\ DeskSound(q)'
      /\ desk'[q].op = "idle" /\ desk'[q].seen.version <= 1 + (MaxPhrase - budget.phrases)
  BY Finished DEF CreateFirstAccount
<1>8. throttle' \in [User -> Attempts] /\ \A v \in User : GuessesLeft(v)'
  BY <1>7, QuietGuesses DEF CreateFirstAccount
<1>9. budget' \in [begun : 0..MaxBegun, phrases : 0..MaxPhrase] /\ budget'.phrases = budget.phrases
  BY <1>b DEF CreateFirstAccount
<1>10. QED
  BY <1>2, <1>5, <1>6, <1>7, <1>8, <1>9, QuietStep

-----------------------------------------------------------------------------
(***************************************************************************)
(* Requests of someone who is in                                           *)
(***************************************************************************)

\* What a request may write is on the strength of a password in force, or
\* the request was overtaken.
LEMMA RowByType ==
  ASSUME AccountsInductive, NEW q \in Caller, desk[q].op \in {"token", "ticket"},
         NEW u, u = desk[q].user, NEW kind \in {"token", "ticket"}, NEW r, r = RowBy(q, kind, u)
  PROVE  /\ u \in User /\ Exists(u)
         /\ desk[q].by \in Id /\ Issued(desk[q].by) /\ cred[desk[q].by].user = u
         /\ r \in Credential
         /\ r.kind = kind /\ r.user = u /\ r.version = users[u].version
         /\ r.from = NoId /\ r.opened = 0
         /\ r.late \/ r.proof = users[u].phrase
<1>a. AccountsTypeOK /\ DeskSound(q) /\ \A i \in Id : RowSound(i)
  BY DEF AccountsInductive
<1>1. /\ u \in User
      /\ desk[q].by \in Id /\ Issued(desk[q].by) /\ cred[desk[q].by].user = u
      /\ desk[q].late \/ cred[desk[q].by].late \/ cred[desk[q].by].proof = users[u].phrase
  BY <1>a DEF DeskSound, AccountsTypeOK, Desk
<1>2. Exists(u)
  BY <1>a, <1>1 DEF RowSound
<1>3. users[u].version \in 0..MaxPhrase + 1 /\ cred[desk[q].by].proof \in Phrase
  BY <1>a, <1>1 DEF AccountsTypeOK, Account, Credential
<1>4. PICK late \in BOOLEAN : late <=> desk[q].late \/ cred[desk[q].by].late
  OBVIOUS
<1>5. r = [NoCredential EXCEPT !.kind = kind, !.state = "live", !.user = u, !.version = users[u].version,
                               !.proof = cred[desk[q].by].proof, !.late = late]
  BY <1>4 DEF RowBy, Row
<1>6. r = [kind |-> kind, user |-> u, version |-> users[u].version, state |-> "live", from |-> NoId,
           at |-> {}, proof |-> cred[desk[q].by].proof, late |-> late, opened |-> 0]
  BY <1>5 DEF NoCredential
<1>7. r \in Credential
  BY <1>1, <1>3, <1>4, <1>6 DEF Credential
<1>8. QED
  BY <1>1, <1>2, <1>4, <1>6, <1>7

LEMMA CreateTokenStep ==
  ASSUME AccountsInductive, NEW q \in Caller, CreateToken(q)
  PROVE  AccountsInductive'
<1>a. AccountsTypeOK
  BY DEF AccountsInductive
<1>u. PICK u \in User : u = desk[q].user
  BY <1>a DEF AccountsTypeOK, Desk
<1>r. PICK r : r = RowBy(q, "token", u)
  OBVIOUS
<1>1. /\ Exists(u) /\ r \in Credential
      /\ r.kind = "token" /\ r.user = u /\ r.version = users[u].version /\ r.from = NoId /\ r.opened = 0
      /\ r.late \/ r.proof = users[u].phrase
  BY <1>u, <1>r, RowByType DEF CreateToken, Busy
<1>2. PICK n \in Id : Unissued(n) /\ cred' = [cred EXCEPT ![n] = r]
  BY <1>u, <1>r DEF CreateToken, Insert
<1>3. RowsKept(n) /\ OpenedKept(n) /\ NewRow(n) /\ cred'[n] = r
  BY <1>a, <1>1, <1>2, RowIssued
<1>4. users' = users
  BY DEF CreateToken
<1>5. RowSound(n)'
  BY <1>1, <1>3, <1>4 DEF RowSound, Exists, Issued
<1>6. QED
  BY <1>3, <1>5, QuietFinish DEF CreateToken

LEMMA MintConsoleTicketStep ==
  ASSUME AccountsInductive, NEW q \in Caller, NEW vm \in Vm, MintConsoleTicket(q, vm)
  PROVE  AccountsInductive'
<1>a. AccountsTypeOK
  BY DEF AccountsInductive
<1>u. PICK u \in User : u = desk[q].user
  BY <1>a DEF AccountsTypeOK, Desk
<1>b. PICK base : base = RowBy(q, "ticket", u)
  OBVIOUS
<1>1. /\ Exists(u) /\ desk[q].by \in Id /\ Issued(desk[q].by) /\ cred[desk[q].by].user = u
      /\ base \in Credential
      /\ base.kind = "ticket" /\ base.user = u
      /\ base.version = users[u].version /\ base.opened = 0
      /\ base.late \/ base.proof = users[u].phrase
  BY <1>u, <1>b, RowByType DEF MintConsoleTicket, Busy
<1> DEFINE from == IF cred[desk[q].by].kind = "session" THEN desk[q].by ELSE NoId
<1>2. PICK r : r = [base EXCEPT !.at = {vm}, !.from = from]
  OBVIOUS
<1>3. /\ r \in Credential /\ r.kind = "ticket" /\ r.user = u /\ r.version = users[u].version /\ r.opened = 0
      /\ r.from = from /\ (r.late \/ r.proof = users[u].phrase)
  BY <1>1, <1>2 DEF Credential
<1>4. PICK n \in Id : Unissued(n) /\ cred' = [cred EXCEPT ![n] = r]
  BY <1>u, <1>b, <1>2 DEF MintConsoleTicket, Insert
<1>5. RowsKept(n) /\ OpenedKept(n) /\ NewRow(n) /\ cred'[n] = r
  BY <1>a, <1>1, <1>3, <1>4, RowIssued, ZenonT(60)
<1>6. users' = users
  BY DEF MintConsoleTicket
<1>7. RowSound(n)'
  BY <1>1, <1>3, <1>5, <1>6 DEF RowSound, Exists, Issued
<1>8. QED
  BY <1>5, <1>7, QuietFinish DEF MintConsoleTicket

LEMMA LogoutStep ==
  ASSUME AccountsInductive, NEW q \in Caller, Logout(q)
  PROVE  AccountsInductive'
<1>a. AccountsTypeOK
  BY DEF AccountsInductive
<1>1. desk[q].by \in Id
  BY DEF Logout, Busy, AccountsInductive, DeskSound
<1>2. RowsKept(NoId) /\ OpenedKept(NoId) /\ NewRow(NoId) /\ NoId \notin Id
  <2>1. CASE cred[desk[q].by].kind = "session"
    BY <2>1, <1>a, <1>1, RowEnds DEF Logout
  <2>2. CASE cred[desk[q].by].kind # "session"
    BY <2>2, <1>a, SameRows DEF Logout
  <2>3. QED
    BY <2>1, <2>2
<1>3. QED
  BY <1>2, QuietFinish DEF Logout

LEMMA RevokeTokenStep ==
  ASSUME AccountsInductive, NEW q \in Caller, NEW i \in Id, RevokeToken(q, i)
  PROVE  AccountsInductive'
<1>1. RowsKept(NoId) /\ OpenedKept(NoId) /\ NewRow(NoId) /\ NoId \notin Id
  BY RowEnds DEF AccountsInductive, RevokeToken
<1>2. QED
  BY <1>1, QuietFinish DEF RevokeToken

LEMMA RefusedStep ==
  ASSUME AccountsInductive, NEW q \in Caller, Refused(q)
  PROVE  AccountsInductive'
<1>1. RowsKept(NoId) /\ OpenedKept(NoId) /\ NewRow(NoId) /\ NoId \notin Id
  BY SameRows DEF AccountsInductive, Refused
<1>2. QED
  BY <1>1, QuietFinish DEF Refused

\* What is accepted is a live row of the version in force.
LEMMA AdmitStep ==
  ASSUME AccountsInductive, NEW q \in Caller, NEW i \in Id, NEW op \in Operation, Admit(q, op, i)
  PROVE  AccountsInductive'
<1>a. AccountsTypeOK /\ RowSound(i)
  BY DEF AccountsInductive
<1>1. /\ Issued(i) /\ cred[i].state = "live" /\ cred[i].version = users[cred[i].user].version
      /\ op \in {"password", "token", "ticket", "logout", "revoke"}
  BY DEF Admit, Accepts, Current, Issued
<1>2. cred[i].user \in User /\ users[cred[i].user] \in Account
  BY <1>a DEF AccountsTypeOK, Credential
<1>3. users[cred[i].user].version # 0
  BY <1>a, <1>1 DEF RowSound, Exists
<1>4. CASE op = "password"
  <2>1. Begin(q, op, cred[i].user, users[cred[i].user], i)
    BY <1>4 DEF Admit
  <2>2. QED
    BY <1>1, <1>2, <1>3, <1>4, <2>1, QuietBegin DEF Admit
<1>5. CASE op # "password"
  <2>1. Begin(q, op, cred[i].user, NoAccount, i)
    BY <1>5 DEF Admit
  <2>2. NoAccount \in Account /\ NoAccount.version = 0
    BY AccountsConstants DEF NoAccount
  <2>3. QED
    BY <1>1, <1>2, <1>5, <2>1, <2>2, QuietBegin DEF Admit
<1>6. QED
  BY <1>4, <1>5

LEMMA ReadTicketStep ==
  ASSUME AccountsInductive, NEW q \in Caller, NEW i \in Id, NEW vm \in Vm, ReadTicket(q, i, vm)
  PROVE  AccountsInductive'
<1>a. AccountsTypeOK
  BY DEF AccountsInductive
<1>1. Issued(i) /\ cred[i].state = "live" /\ cred[i].version = users[cred[i].user].version
  BY DEF ReadTicket, Redeems, Current, Issued
<1>2. cred[i].user \in User
  BY <1>a DEF AccountsTypeOK, Credential
<1>3. NoAccount \in Account /\ NoAccount.version = 0 /\ "redeem" \in Operation
  BY AccountsConstants DEF NoAccount, Operation
<1>4. QED
  BY <1>1, <1>2, <1>3, QuietBegin DEF ReadTicket

LEMMA FindNobodyStep ==
  ASSUME AccountsInductive, NEW q \in Caller, NEW u \in User, FindNobody(q, u)
  PROVE  AccountsInductive'
<1>1. NoAccount \in Account /\ NoAccount.version = 0 /\ "first-run" \in Operation
  BY AccountsConstants DEF NoAccount, Operation
<1>2. QED
  BY <1>1, QuietBegin DEF FindNobody

LEMMA BeginLoginStep ==
  ASSUME AccountsInductive, NEW q \in Caller, NEW u \in User, BeginLogin(q, u)
  PROVE  AccountsInductive'
<1>1. users[u] \in Account /\ "login" \in Operation
  BY DEF AccountsInductive, AccountsTypeOK, Operation
<1>2. QED
  BY <1>1, QuietBegin DEF BeginLogin

LEMMA BeginResetStep ==
  ASSUME AccountsInductive, NEW q \in Caller, NEW u \in User, BeginReset(q, u)
  PROVE  AccountsInductive'
<1>1. users[u] \in Account /\ "reset" \in Operation /\ users[u].version # 0
  BY DEF AccountsInductive, AccountsTypeOK, Operation, BeginReset, Exists
<1>2. QED
  BY <1>1, QuietBegin DEF BeginReset

\* A ticket is used up; a redemption beside another leaves it to that one to
\* have opened a console.
LEMMA RedeemConsoleTicketStep ==
  ASSUME AccountsInductive, NEW q \in Caller, RedeemConsoleTicket(q)
  PROVE  AccountsInductive'
<1>a. AccountsTypeOK /\ (\A i \in Id : RowSound(i) /\ OpenedOnce(i)) /\ DeskSound(q)
      /\ (\A r \in Caller : DeskSound(r)) /\ VersionsCounted
  BY DEF AccountsInductive
<1>b. PICK i \in Id : i = desk[q].by /\ desk[q].op = "redeem"
  BY <1>a DEF RedeemConsoleTicket, Busy, DeskSound
<1>c. cred \in [Id -> Credential] /\ cred[i] \in Credential
  BY <1>a DEF AccountsTypeOK
<1> DEFINE beside == \E r \in Caller \ {q} : desk[r].op = "redeem" /\ desk[r].by = i
<1>1. cred' = [cred EXCEPT ![i].state = "spent", ![i].opened = IF beside THEN @ ELSE @ + 1]
  BY <1>b DEF RedeemConsoleTicket
<1>2. cred[i].opened = 0
  BY <1>a, <1>b, <1>c DEF OpenedOnce, Credential
<1>3. \A j \in Id \ {i} : cred'[j] = cred[j]
  BY <1>1, <1>c
<1>4. /\ cred'[i].kind = cred[i].kind /\ cred'[i].user = cred[i].user
      /\ cred'[i].version = cred[i].version /\ cred'[i].from = cred[i].from
      /\ cred'[i].proof = cred[i].proof /\ cred'[i].late = cred[i].late
      /\ cred'[i].state = "spent"
      /\ cred'[i].opened = IF beside THEN 0 ELSE 1
      /\ cred'[i] \in Credential
  <2>1. PICK n \in 0..2 : n = (IF beside THEN 0 ELSE 1)
    OBVIOUS
  <2>2. n = (IF beside THEN cred[i].opened ELSE cred[i].opened + 1)
    BY <2>1, <1>2
  <2>3. cred'[i] = [cred[i] EXCEPT !.state = "spent", !.opened = n]
    BY <1>1, <1>c, <2>2
  <2>4. QED
    BY <2>1, <2>3, <1>c DEF Credential
<1>5. cred' \in [Id -> Credential]
  <2>1. \A j \in Id : cred'[j] \in Credential
    BY <1>3, <1>4, <1>c
  <2>2. cred' = [j \in Id |-> cred'[j]]
    BY <1>1, <1>c
  <2>3. QED
    BY <2>1, <2>2
<1>6. NoId \notin Id
  BY AccountsAssumption DEF Id, NoId
<1>7. RowsKept(NoId) /\ NewRow(NoId)
  BY <1>3, <1>4, <1>5, <1>6 DEF RowsKept, NewRow
<1>8. /\ OthersKept(q) /\ DeskSound(q)' /\ desk'[q].op = "idle"
      /\ desk'[q].seen.version <= 1 + (MaxPhrase - budget.phrases)
  BY Finished DEF RedeemConsoleTicket
<1>9. SecretsKept /\ \A v \in User : users'[v].version <= 1 + (MaxPhrase - budget.phrases)
  BY SameUsers DEF RedeemConsoleTicket
<1>10. throttle' \in [User -> Attempts] /\ \A v \in User : GuessesLeft(v)'
  BY <1>8, QuietGuesses DEF RedeemConsoleTicket
<1>11. budget' = budget
  BY DEF RedeemConsoleTicket
<1>12. AccountsTypeOK'
  <2>1. /\ \A j \in Id : cred'[j].kind # "none" => \A k \in 1..j - 1 : cred'[k].kind # "none"
        /\ \A j \in Id : cred'[j].from # NoId =>
             /\ cred'[j].from < j
             /\ cred'[cred'[j].from].kind = "session"
             /\ cred'[cred'[j].from].user = cred'[j].user
    BY <1>a, <1>7, RowsInOrder
  <2>2. QED
    BY <1>5, <1>8, <1>9, <1>10, <1>11, <1>a, <2>1 DEF AccountsTypeOK, SecretsKept, OthersKept
<1>13. \A j \in Id : RowSound(j)'
  BY <1>6, <1>7, <1>9, <1>a, SecretsKeptRows
<1>14. ASSUME NEW j \in Id PROVE OpenedOnce(j)'
  <2>1. CASE j = i
    <3>1. CASE beside
      BY <2>1, <3>1, <1>4 DEF OpenedOnce
    <3>2. CASE ~beside
      <4>1. \A r \in Caller : ~(desk'[r].op = "redeem" /\ desk'[r].by = i)
        BY <3>2, <1>8 DEF OthersKept
      <4>2. QED
        BY <2>1, <3>2, <4>1, <1>4 DEF OpenedOnce
    <3>3. QED
      BY <3>1, <3>2
  <2>2. CASE j # i
    BY <2>2, <1>3, <1>8, <1>a DEF OpenedOnce, OthersKept
  <2>3. QED
    BY <2>1, <2>2
<1>15. ASSUME NEW r \in Caller PROVE DeskSound(r)'
  <2>1. CASE r = q
    BY <2>1, <1>8
  <2>2. CASE r # q
    <3>1. desk'[r] = desk[r]
      BY <2>2, <1>8 DEF OthersKept
    <3>2. QED
      BY <3>1, <1>7, <1>9, <1>a, SecretsKeptDesks
  <2>3. QED
    BY <2>1, <2>2
<1>16. VersionsCounted'
  BY <1>8, <1>9, <1>11, <1>a DEF VersionsCounted, OthersKept
<1>17. QED
  BY <1>10, <1>12, <1>13, <1>14, <1>15, <1>16 DEF AccountsInductive

-----------------------------------------------------------------------------
(***************************************************************************)
(* Time passes, and the backend starts again                               *)
(***************************************************************************)

\* No request begins or ends.
LEMMA SameDesks ==
  ASSUME AccountsInductive, desk' = desk
  PROVE  \E q : q \notin Caller /\ OthersKept(q)
<1>1. PICK q : q \notin Caller
  BY NoSetContainsEverything
<1>2. QED
  BY <1>1 DEF AccountsInductive, AccountsTypeOK, OthersKept

\* A row ends by itself.
LEMMA RowEndsStep ==
  ASSUME AccountsInductive, NEW i \in Id, NEW state \in {"expired", "spent", "gone"},
         cred' = [cred EXCEPT ![i].state = state],
         UNCHANGED <<users, throttle, desk, budget>>
  PROVE  AccountsInductive'
<1>1. PICK q : q \notin Caller /\ OthersKept(q)
  BY SameDesks
<1>2. RowsKept(NoId) /\ OpenedKept(NoId) /\ NewRow(NoId) /\ NoId \notin Id
  BY RowEnds DEF AccountsInductive
<1>3. SecretsKept /\ \A v \in User : users'[v].version <= 1 + (MaxPhrase - budget.phrases)
  BY SameUsers
<1>4. throttle' \in [User -> Attempts] /\ \A v \in User : GuessesLeft(v)'
  BY <1>1, QuietGuesses
<1>5. budget' \in [begun : 0..MaxBegun, phrases : 0..MaxPhrase] /\ budget'.phrases = budget.phrases
  BY DEF AccountsInductive, AccountsTypeOK
<1>6. QED
  BY <1>1, <1>2, <1>3, <1>4, <1>5, QuietStep

LEMMA UnlockStep ==
  ASSUME AccountsInductive, NEW u \in User, Unlock(u)
  PROVE  AccountsInductive'
<1>a. AccountsTypeOK
  BY DEF AccountsInductive
<1>1. PICK q : q \notin Caller /\ OthersKept(q)
  BY SameDesks DEF Unlock
<1>2. RowsKept(NoId) /\ OpenedKept(NoId) /\ NewRow(NoId) /\ NoId \notin Id
  BY SameRows DEF AccountsInductive, Unlock
<1>3. SecretsKept /\ \A v \in User : users'[v].version <= 1 + (MaxPhrase - budget.phrases)
  BY SameUsers DEF Unlock
<1>4. throttle \in [User -> Attempts] /\ throttle' = [throttle EXCEPT ![u].blocked = FALSE, ![u].tries = 0]
  BY <1>a DEF Unlock, AccountsTypeOK
<1>5. /\ throttle'[u].blocked = FALSE /\ throttle'[u].tries = 0 /\ throttle'[u].count = throttle[u].count
      /\ \A v \in User \ {u} : throttle'[v] = throttle[v]
      /\ throttle[u].count \in 0..Limit - 1
  BY <1>4 DEF Attempts
<1>6. throttle' \in [User -> Attempts]
  <2>1. 0 \in 0..Limit + Cardinality(Caller)
    BY AccountsAssumption, FS_CardinalityType
  <2>2. QED
    BY <1>4, <2>1 DEF Attempts
<1>7. ASSUME NEW v \in User PROVE GuessesLeft(v)'
  <2>1. CASE v = u
    BY <2>1, <1>5, AccountsAssumption DEF GuessesLeft
  <2>2. CASE v # u
    BY <2>2, <1>5, <1>a, GuessesKept DEF AccountsInductive, Unlock, LoginsOf
  <2>3. QED
    BY <2>1, <2>2
<1>8. budget' \in [begun : 0..MaxBegun, phrases : 0..MaxPhrase] /\ budget'.phrases = budget.phrases
  BY <1>a DEF Unlock, AccountsTypeOK
<1>9. QED
  BY <1>1, <1>2, <1>3, <1>6, <1>7, <1>8, QuietStep

LEMMA RestartStep ==
  ASSUME AccountsInductive, Restart
  PROVE  AccountsInductive'
<1>a. AccountsTypeOK /\ (\A i \in Id : RowSound(i) /\ OpenedOnce(i)) /\ VersionsCounted
  BY DEF AccountsInductive
<1>1. desk' \in [Caller -> Desk] /\ \A q \in Caller : desk'[q] = NoDesk
  BY AccountsConstants DEF Restart
<1>2. throttle' \in [User -> Attempts] /\ \A u \in User : throttle'[u] = NoAttempts
  BY AccountsConstants DEF Restart
<1>3. UNCHANGED <<users, cred, budget>>
  BY DEF Restart
<1>4. AccountsTypeOK'
  BY <1>a, <1>1, <1>2, <1>3 DEF AccountsTypeOK
<1>5. \A i \in Id : RowSound(i)' /\ OpenedOnce(i)'
  BY <1>a, <1>1, <1>3, AccountsConstants DEF RowSound, OpenedOnce, Exists, Issued
<1>6. \A q \in Caller : DeskSound(q)'
  BY <1>1, AccountsConstants DEF DeskSound
<1>7. VersionsCounted'
  <2>1. 0 <= 1 + (MaxPhrase - budget.phrases)
    BY <1>a, AccountsAssumption DEF AccountsTypeOK
  <2>2. QED
    BY <1>a, <1>1, <1>3, <2>1, AccountsConstants DEF VersionsCounted
<1>8. \A u \in User : GuessesLeft(u)'
  BY <1>2 DEF GuessesLeft, NoAttempts
<1>9. QED
  BY <1>4, <1>5, <1>6, <1>7, <1>8 DEF AccountsInductive

-----------------------------------------------------------------------------
(***************************************************************************)
(* Accounts                                                                *)
(***************************************************************************)

LEMMA AccountsStarts == AccountsInit => AccountsInductive
<1> SUFFICES ASSUME AccountsInit PROVE AccountsInductive
  OBVIOUS
<1>1. /\ cred = [i \in Id |-> NoCredential] /\ throttle = [u \in User |-> NoAttempts]
      /\ desk = [q \in Caller |-> NoDesk] /\ budget = [begun |-> MaxBegun, phrases |-> MaxPhrase]
  BY DEF AccountsInit
<1>2. /\ users \in [User -> Account] /\ \A u \in User : users[u].version <= 1
  <2>1. \A a \in {NoAccount} \union [phrase : {0}, version : {1}, worn : BOOLEAN] : a \in Account /\ a.version <= 1
    <3>1. ASSUME NEW a \in [phrase : {0}, version : {1}, worn : BOOLEAN] PROVE a \in Account /\ a.version <= 1
      BY AccountsAssumption DEF Account, Phrase
    <3>2. NoAccount \in Account /\ NoAccount.version <= 1
      BY AccountsConstants DEF NoAccount
    <3>3. QED
      BY <3>1, <3>2
  <2>2. NoAccount \in Account /\ NoAccount.version <= 1
    BY AccountsConstants DEF NoAccount
  <2>3. QED
    BY <2>1, <2>2 DEF AccountsInit
<1>3. AccountsTypeOK
  <2>1. NoCredential.kind = "none" /\ NoCredential.from = NoId
    BY DEF NoCredential
  <2>2. /\ cred \in [Id -> Credential] /\ throttle \in [User -> Attempts] /\ desk \in [Caller -> Desk]
        /\ \A i \in Id : cred[i].kind = "none" /\ cred[i].from = NoId
    BY <1>1, <2>1, AccountsConstants
  <2>3. budget \in [begun : 0..MaxBegun, phrases : 0..MaxPhrase]
    BY <1>1, AccountsAssumption
  <2>4. QED
    BY <1>2, <2>2, <2>3 DEF AccountsTypeOK
<1>4. \A i \in Id : RowSound(i) /\ OpenedOnce(i)
  BY <1>1 DEF RowSound, OpenedOnce, Issued, NoCredential
<1>5. \A q \in Caller : DeskSound(q)
  BY <1>1, AccountsConstants DEF DeskSound
<1>6. VersionsCounted
  BY <1>1, <1>2, AccountsConstants, AccountsAssumption DEF VersionsCounted
<1>7. \A u \in User : GuessesLeft(u)
  BY <1>1 DEF GuessesLeft, NoAttempts
<1>8. QED
  BY <1>3, <1>4, <1>5, <1>6, <1>7 DEF AccountsInductive

LEMMA PassingSteps ==
  ASSUME AccountsInductive, Passing
  PROVE  AccountsInductive'
<1>1. ASSUME NEW i \in Id, TurnAway(i) PROVE AccountsInductive'
  BY <1>1, RowEndsStep DEF TurnAway
<1>2. ASSUME NEW i \in Id, Expire(i) PROVE AccountsInductive'
  BY <1>2, RowEndsStep DEF Expire
<1>3. QED
  BY <1>1, <1>2, UnlockStep, RestartStep DEF Passing

LEMMA RequestSteps ==
  ASSUME AccountsInductive, NEW q \in Caller, Request(q)
  PROVE  AccountsInductive'
<1>1. CASE ChangePassword(q)
  BY <1>1, NewPasswordStep DEF ChangePassword, Busy
<1>2. CASE ~ChangePassword(q)
  BY <1>2, FindNobodyStep, BeginLoginStep, CreateFirstAccountStep, LoginFailsStep, LoginStep, AdmitStep,
     CreateTokenStep, MintConsoleTicketStep, LogoutStep, RevokeTokenStep, ReadTicketStep,
     RedeemConsoleTicketStep, RefusedStep
     DEF Request
<1>3. QED
  BY <1>1, <1>2

LEMMA ResetPasswordStep ==
  ASSUME AccountsInductive, NEW q \in Caller, ResetPassword(q)
  PROVE  AccountsInductive'
BY NewPasswordStep DEF ResetPassword, Busy

LEMMA AccountsSteps ==
  ASSUME AccountsInductive, [AccountsNext]_accountsVars
  PROVE  AccountsInductive'
<1>1. CASE Passing
  BY <1>1, PassingSteps
<1>2. ASSUME NEW q \in Caller, Request(q) PROVE AccountsInductive'
  BY <1>2, RequestSteps
<1>3. ASSUME NEW q \in Caller, Reset(q) PROVE AccountsInductive'
  BY <1>3, BeginResetStep, ResetPasswordStep DEF Reset
<1>4. CASE UNCHANGED accountsVars
  BY <1>4, ZenonT(60) DEF accountsVars, AccountsInductive, AccountsTypeOK, RowSound, OpenedOnce, DeskSound, VersionsCounted,
     GuessesLeft, LoginsOf, Exists, Issued
<1>5. QED
  BY <1>1, <1>2, <1>3, <1>4 DEF AccountsNext

LEMMA AccountsInvariants == AccountsInductive => AccountsTypeOK /\ OutIsOut /\ LockoutHolds
<1> SUFFICES ASSUME AccountsInductive PROVE AccountsTypeOK /\ OutIsOut /\ LockoutHolds
  OBVIOUS
<1>a. AccountsTypeOK /\ \A i \in Id : RowSound(i) /\ OpenedOnce(i)
  BY DEF AccountsInductive
<1>1. OutIsOut
  <2>1. ASSUME NEW i \in Id, Opens(i)
        PROVE  cred[i].late \/ cred[i].proof = users[cred[i].user].phrase
    <3>1. Issued(i) /\ cred[i].state = "live" /\ cred[i].version = users[cred[i].user].version
      BY <2>1 DEF Opens, Accepts, Redeems, Current, Issued
    <3>2. users[cred[i].user].version \in 0..MaxPhrase + 1
      BY <1>a DEF AccountsTypeOK, Credential, Account
    <3>3. ~(cred[i].version < users[cred[i].user].version)
      BY <3>1, <3>2, AccountsAssumption
    <3>4. QED
      BY <3>1, <3>3, <1>a DEF RowSound
  <2>2. QED
    BY <2>1, <1>a DEF OutIsOut, OpenedOnce
<1>2. LockoutHolds
  <2>1. SUFFICES ASSUME NEW u \in User PROVE throttle[u].tries < Limit + Cardinality(Caller)
    BY DEF LockoutHolds
  <2>2. /\ Cardinality(Caller) \in Nat /\ Limit \in Nat \ {0} /\ Cardinality(LoginsOf(u)) \in Nat
    BY AccountsAssumption, FS_CardinalityType, FS_Subset DEF LoginsOf
  <2>3. /\ throttle[u].tries \in Nat /\ throttle[u].count \in 0..Limit - 1 /\ GuessesLeft(u)
    BY <1>a, <2>2 DEF AccountsInductive, AccountsTypeOK, Attempts
  <2>4. QED
    BY <2>2, <2>3 DEF GuessesLeft
<1>3. QED
  BY <1>1, <1>2, <1>a

\* After a password change, or a reset, nothing that was issued before opens
\* anything, and a ticket opens one console (invalidate_credentials,
\* redeem_console_ticket): with any number of accounts, requests at once,
\* credentials and changes.
THEOREM Out == AccountsSpec => []OutIsOut
<1>1. AccountsSpec => []AccountsInductive
  BY AccountsStarts, AccountsSteps, PTL DEF AccountsSpec
<1>2. QED
  BY <1>1, AccountsInvariants, PTL

\* A locked name is guessed at by those who were past the check and by
\* nobody else (LoginThrottle): for any Limit and any number of callers.
THEOREM Lockout == AccountsSpec => []LockoutHolds
<1>1. AccountsSpec => []AccountsInductive
  BY AccountsStarts, AccountsSteps, PTL DEF AccountsSpec
<1>2. QED
  BY <1>1, AccountsInvariants, PTL

-----------------------------------------------------------------------------
(***************************************************************************)
(* Keyring                                                                 *)
(***************************************************************************)

LEMMA KeyringStarts == KeyringInit => KeyringInductive
<1> SUFFICES ASSUME KeyringInit PROVE KeyringInductive
  OBVIOUS
<1>1. AccountsInductive
  BY AccountsStarts DEF KeyringInit
<1>2. (CHOOSE u \in User : TRUE) \in User
  <2>1. \E u \in User : TRUE
    BY AccountsAssumption
  <2>2. QED
    BY <2>1, Zenon
<1>3. cli \in Command /\ cli.token = NoId /\ cli.session = NoId /\ cli.pc = "idle"
  BY <1>2 DEF KeyringInit, NoCommand, Command
<1>4. QED
  BY <1>1, <1>3 DEF KeyringInit, KeyringInductive, KeyringTypeOK, CommandSound, AccountsInductive

\* Rows are issued once: whatever the backend does, one is of its kind.
LEMMA KindsStay ==
  ASSUME AccountsInductive,
         \/ Passing
         \/ \E q \in Caller : Request(q) \/ ResetPassword(q) \/ \E u \in User : BeginReset(q, u)
  PROVE  \A i \in Id : Issued(i) => cred'[i].kind = cred[i].kind
<1> SUFFICES ASSUME NEW i \in Id, Issued(i) PROVE cred'[i].kind = cred[i].kind
  OBVIOUS
<1>a. cred \in [Id -> Credential] /\ cred[i] \in Credential /\ cred[i].kind # "none"
  BY DEF AccountsInductive, AccountsTypeOK, Issued
<1>1. ASSUME NEW j \in Id, NEW state, cred' = [cred EXCEPT ![j].state = state] PROVE cred'[i].kind = cred[i].kind
  BY <1>1, <1>a DEF Credential
<1>2. ASSUME NEW r, Insert(r) PROVE cred'[i].kind = cred[i].kind
  BY <1>2, <1>a DEF Insert, Unissued
<1>3. CASE Passing
  BY <1>1, <1>3 DEF Passing, Unlock, TurnAway, Expire, Restart
<1>4. ASSUME NEW q \in Caller, NewPassword(q) PROVE cred'[i].kind = cred[i].kind
  BY <1>4, <1>a DEF NewPassword, InvalidateCredentials, Tainted, Credential
<1>5. ASSUME NEW q \in Caller, Login(q) PROVE cred'[i].kind = cred[i].kind
  <2>1. CASE desk[q].seen.worn
    <3>1. PICK j \in Id : Unissued(j) /\ \E r : cred' = [Tainted(desk[q].user, desk[q].late) EXCEPT ![j] = r]
      BY <1>5, <2>1 DEF Login
    <3>2. i # j /\ cred'[i] = Tainted(desk[q].user, desk[q].late)[i]
      BY <1>a, <3>1 DEF Unissued, Tainted
    <3>3. QED
      BY <1>a, <3>2 DEF Tainted, Credential
  <2>2. CASE ~desk[q].seen.worn
    BY <1>2, <1>5, <2>2 DEF Login
  <2>3. QED
    BY <2>1, <2>2
<1>6. ASSUME NEW q \in Caller, RedeemConsoleTicket(q) PROVE cred'[i].kind = cred[i].kind
  <2>1. PICK j, n : cred' = [cred EXCEPT ![j].state = "spent", ![j].opened = n]
    BY <1>6 DEF RedeemConsoleTicket
  <2>2. QED
    BY <2>1, <1>a DEF Credential
<1>7. ASSUME NEW q \in Caller, Logout(q) PROVE cred'[i].kind = cred[i].kind
  <2>1. desk[q].by \in Id
    BY <1>7 DEF Logout, Busy, AccountsInductive, DeskSound
  <2>2. QED
    BY <1>1, <1>7, <2>1 DEF Logout
<1>8. ASSUME NEW q \in Caller, Request(q) PROVE cred'[i].kind = cred[i].kind
  <2>1. CASE CreateFirstAccount(q) \/ CreateToken(q) \/ \E vm \in Vm : MintConsoleTicket(q, vm)
    BY <1>2, <2>1 DEF CreateFirstAccount, CreateToken, MintConsoleTicket
  <2>2. CASE \E j \in Id : RevokeToken(q, j)
    BY <1>1, <2>2 DEF RevokeToken
  <2>3. CASE Login(q) \/ RedeemConsoleTicket(q) \/ Logout(q) \/ ChangePassword(q)
    BY <1>4, <1>5, <1>6, <1>7, <2>3 DEF ChangePassword
  <2>4. CASE \/ \E u \in User : FindNobody(q, u) \/ BeginLogin(q, u)
             \/ LoginFails(q) \/ Refused(q)
             \/ \E j \in Id, op \in Operation : Admit(q, op, j)
             \/ \E j \in Id, vm \in Vm : ReadTicket(q, j, vm)
    BY <2>4 DEF FindNobody, BeginLogin, LoginFails, Refused, Admit, ReadTicket
  <2>5. QED
    BY <1>8, <2>1, <2>2, <2>3, <2>4 DEF Request
<1>9. QED
  BY <1>3, <1>4, <1>8 DEF ResetPassword, BeginReset

\* The file holds a token; a command holds what it signed in with and made.
Holding(k, c) ==
  /\ k \in Id \union {NoId} /\ c \in Command
  /\ k # NoId => cred[k].kind = "token"
  /\ c.token # NoId => cred[c.token].kind = "token"
  /\ c.session # NoId => cred[c.session].kind = "session"
  /\ c.pc \in {"minting", "closing"} => c.session # NoId

LEMMA KeyringParts == KeyringInductive <=> AccountsInductive /\ Holding(kept, cli)
BY DEF KeyringInductive, KeyringTypeOK, CommandSound, Holding, AccountsInductive

LEMMA HoldingStays ==
  ASSUME NEW k, NEW c, Holding(k, c), \A i \in Id : Issued(i) => cred'[i].kind = cred[i].kind
  PROVE  /\ k # NoId => cred'[k].kind = "token"
         /\ c.token # NoId => cred'[c.token].kind = "token"
         /\ c.session # NoId => cred'[c.session].kind = "session"
BY DEF Holding, Command, Issued

\* A step of a command that issues one row at most and leaves the requests
\* of the others alone.
LEMMA CommandStep ==
  ASSUME KeyringInductive, NEW n \in Id \union {NoId}, SecretsKept, RowsKept(n), OpenedKept(n), NewRow(n),
         n \in Id => RowSound(n)', desk' = desk,
         \A u \in User : users'[u].version <= 1 + (MaxPhrase - budget.phrases),
         budget' \in [begun : 0..MaxBegun, phrases : 0..MaxPhrase], budget'.phrases = budget.phrases,
         throttle' = throttle \/ \E u \in User : RecordSuccess(u),
         NEW k, NEW c, k \in {kept, NoId} \/ (k \in Id /\ cred'[k].kind = "token"),
         kept' = k, cli' = c, c \in Command,
         c.token \in {NoId, cli.token} \/ (c.token \in Id /\ cred'[c.token].kind = "token"),
         c.session \in {NoId, cli.session} \/ (c.session \in Id /\ cred'[c.session].kind = "session"),
         c.pc \in {"minting", "closing"} => c.session # NoId
  PROVE  KeyringInductive'
<1>a. AccountsInductive /\ Holding(kept, cli)
  BY KeyringParts
<1>1. PICK q : q \notin Caller /\ OthersKept(q)
  BY <1>a, SameDesks
<1>2. throttle' \in [User -> Attempts] /\ \A v \in User : GuessesLeft(v)'
  <2>1. CASE throttle' = throttle
    BY <2>1, <1>a, <1>1, QuietGuesses
  <2>2. ASSUME NEW u \in User, RecordSuccess(u) PROVE throttle' \in [User -> Attempts] /\ \A v \in User : GuessesLeft(v)'
    BY <2>2, <1>a, <1>1, FewerLogins, SuccessGuesses
  <2>3. QED
    BY <2>1, <2>2
<1>3. AccountsInductive'
  BY <1>a, <1>1, <1>2, QuietStep
<1>4. \A i \in Id : Issued(i) => cred'[i].kind = cred[i].kind
  BY DEF RowsKept, NewRow, Unissued, Issued
<1>5. /\ kept # NoId => cred'[kept].kind = "token"
      /\ cli.token # NoId => cred'[cli.token].kind = "token"
      /\ cli.session # NoId => cred'[cli.session].kind = "session"
  BY <1>a, <1>4, HoldingStays
<1>6. kept \in Id \union {NoId}
  BY <1>a DEF Holding
<1>7. Holding(kept, cli)'
  BY <1>5, <1>6 DEF Holding
<1>8. QED
  BY <1>3, <1>7 DEF KeyringInductive, KeyringTypeOK, CommandSound, Holding, AccountsInductive

\* A step of a command that issues nothing.
LEMMA CommandGoesOn ==
  ASSUME KeyringInductive, users' = users, desk' = desk, throttle' = throttle,
         \/ cred' = cred
         \/ \E i \in Id, state \in {"expired", "spent", "gone"} : cred' = [cred EXCEPT ![i].state = state],
         budget' \in [begun : 0..MaxBegun, phrases : 0..MaxPhrase], budget'.phrases = budget.phrases,
         NEW k, NEW c, k \in {kept, NoId, cli.token},
         kept' = k, cli' = c, c \in Command,
         c.token \in {NoId, cli.token}, c.session \in {NoId, cli.session},
         c.pc \in {"minting", "closing"} => c.session # NoId
  PROVE  KeyringInductive'
<1>a. AccountsInductive /\ AccountsTypeOK /\ Holding(kept, cli)
  BY KeyringParts DEF AccountsInductive
<1>1. RowsKept(NoId) /\ OpenedKept(NoId) /\ NewRow(NoId) /\ NoId \notin Id
  BY <1>a, SameRows, RowEnds
<1>2. SecretsKept /\ \A v \in User : users'[v].version <= 1 + (MaxPhrase - budget.phrases)
  BY <1>a, SameUsers
<1>3. \A i \in Id : Issued(i) => cred'[i].kind = cred[i].kind
  BY <1>1 DEF RowsKept
<1>4. k \in {kept, NoId} \/ (k \in Id /\ cred'[k].kind = "token")
  BY <1>a, <1>3, HoldingStays DEF Holding, Command
<1>5. QED
  BY <1>1, <1>2, <1>4, CommandStep

LEMMA CommandTypes ==
  ASSUME KeyringInductive
  PROVE  /\ cli \in Command /\ NoCommand \in Command
         /\ NoCommand.token = NoId /\ NoCommand.session = NoId /\ NoCommand.pc = "idle"
         /\ budget \in [begun : 0..MaxBegun, phrases : 0..MaxPhrase] /\ MaxBegun \in Nat
         /\ kept \in Id \union {NoId} /\ AccountsTypeOK /\ NoId \notin Id
         /\ \A pc \in {"minting", "closing", "storing"} : [cli EXCEPT !.pc = pc] \in Command
<1>1. (CHOOSE u \in User : TRUE) \in User
  <2>1. \E u \in User : TRUE
    BY AccountsAssumption
  <2>2. QED
    BY <2>1, Zenon
<1>2. cli \in Command /\ kept \in Id \union {NoId} /\ AccountsTypeOK
  BY DEF KeyringInductive, KeyringTypeOK
<1>3. NoCommand \in Command /\ NoCommand.token = NoId /\ NoCommand.session = NoId /\ NoCommand.pc = "idle"
  BY <1>1 DEF NoCommand, Command
<1>4. \A pc \in {"minting", "closing", "storing"} : [cli EXCEPT !.pc = pc] \in Command
  BY <1>2 DEF Command
<1>5. NoId \notin Id
  BY AccountsAssumption DEF Id, NoId
<1>6. budget \in [begun : 0..MaxBegun, phrases : 0..MaxPhrase] /\ MaxBegun \in Nat
  BY <1>2, AccountsAssumption DEF AccountsTypeOK
<1>7. QED
  BY <1>2, <1>3, <1>4, <1>5, <1>6

\* auth init.
LEMMA BeginInitStep ==
  ASSUME KeyringInductive, NEW u \in User, BeginInit(u)
  PROVE  KeyringInductive'
<1>1. PICK c : c = [NoCommand EXCEPT !.pc = "founding", !.user = u, !.header = kept]
  OBVIOUS
<1>2. c \in Command /\ c.token = NoId /\ c.session = NoId /\ c.pc = "founding"
  BY <1>1, CommandTypes DEF Command
<1>3. /\ budget' \in [begun : 0..MaxBegun, phrases : 0..MaxPhrase] /\ budget'.phrases = budget.phrases
  BY CommandTypes DEF BeginInit, Run
<1>4. cli' = c /\ kept' = kept /\ UNCHANGED <<users, cred, desk, throttle>>
  BY <1>1 DEF BeginInit, Run, Outside
<1>5. QED
  BY <1>2, <1>3, <1>4, CommandGoesOn

LEMMA CreateOwnerStep ==
  ASSUME KeyringInductive, CreateOwner
  PROVE  KeyringInductive'
<1>a. AccountsInductive /\ AccountsTypeOK
  BY DEF KeyringInductive, AccountsInductive
<1>b. /\ MaxPhrase \in Nat /\ users \in [User -> Account]
      /\ budget \in [begun : 0..MaxBegun, phrases : 0..MaxPhrase]
  BY <1>a, AccountsAssumption DEF AccountsTypeOK
<1>u. PICK u \in User : u = cli.user
  BY CommandTypes DEF Command
<1>1. PICK a : a = [NoAccount EXCEPT !.version = 1]
  OBVIOUS
<1>2. /\ SecretsKept /\ users'[u].phrase = 0 /\ users'[u].version = 1
      /\ \A v \in User : users'[v].version <= 1 + (MaxPhrase - budget.phrases)
  <2>1. a \in Account /\ a.phrase = 0 /\ a.version = 1
    <3>1. a = [phrase |-> 0, version |-> 1, worn |-> FALSE]
      BY <1>1 DEF NoAccount
    <3>2. QED
      BY <1>b, <3>1 DEF Account, Phrase
  <2>2. \A v \in User : users[v].version <= 1 + (MaxPhrase - budget.phrases)
    BY <1>a DEF AccountsInductive, VersionsCounted
  <2>3. ~Exists(u) /\ users' = [users EXCEPT ![u] = a]
    BY <1>u, <1>1 DEF CreateOwner
  <2>4. QED
    BY <1>b, <2>1, <2>2, <2>3 DEF SecretsKept
<1> DEFINE r == Row("token", u, 1, 0, FALSE)
<1>3. r \in Credential /\ r = [kind |-> "token", user |-> u, version |-> 1, state |-> "live", from |-> NoId,
                               at |-> {}, proof |-> 0, late |-> FALSE, opened |-> 0]
  <2>1. 1 \in 0..MaxPhrase + 1 /\ 0 \in Phrase
    BY <1>b DEF Phrase
  <2>2. QED
    BY <2>1, RowType, Zenon
<1>4. PICK n \in Id : /\ Unissued(n) /\ cred' = [cred EXCEPT ![n] = r]
                      /\ cli' = [cli EXCEPT !.pc = "storing", !.token = n]
  BY <1>u DEF CreateOwner
<1> HIDE DEF r
<1>5. RowsKept(n) /\ OpenedKept(n) /\ NewRow(n) /\ cred'[n] = r
  BY <1>a, <1>3, <1>4, RowIssued
<1>6. RowSound(n)'
  BY <1>2, <1>3, <1>5 DEF RowSound, Exists, Issued
<1>7. cli' \in Command /\ cli'.token = n /\ cli'.session = cli.session /\ cli'.pc = "storing"
  BY <1>4, CommandTypes DEF Command
<1>8. cred'[n].kind = "token"
  BY <1>3, <1>5
<1>9. UNCHANGED <<kept, budget, throttle, desk>>
  BY DEF CreateOwner, Outside
<1>10. QED
  BY <1>b, <1>2, <1>5, <1>6, <1>7, <1>8, <1>9, CommandStep

\* auth login.
LEMMA SignInStep ==
  ASSUME KeyringInductive, NEW u \in User, SignIn(u)
  PROVE  KeyringInductive'
<1>a. AccountsInductive /\ AccountsTypeOK
  BY DEF KeyringInductive, AccountsInductive
<1>b. /\ MaxPhrase \in Nat /\ users \in [User -> Account]
      /\ users[u].version \in 0..MaxPhrase + 1 /\ users[u].phrase \in Phrase /\ Exists(u)
  BY <1>a, AccountsAssumption DEF AccountsTypeOK, Account, SignIn
<1>1. PICK a : a = [users[u] EXCEPT !.worn = FALSE]
  OBVIOUS
<1>2. a \in Account /\ a.phrase = users[u].phrase /\ a.version = users[u].version
  BY <1>1, <1>b DEF Account
<1>3. users' = [users EXCEPT ![u] = a]
  BY <1>1, <1>b DEF SignIn
<1>4. /\ SecretsKept /\ users'[u].phrase = users[u].phrase /\ users'[u].version = users[u].version
      /\ \A v \in User : users'[v].version <= 1 + (MaxPhrase - budget.phrases)
  <2>1. \A v \in User : users[v].version <= 1 + (MaxPhrase - budget.phrases)
    BY <1>a DEF AccountsInductive, VersionsCounted
  <2>2. users' \in [User -> Account] /\ users'[u] = a /\ \A v \in User \ {u} : users'[v] = users[v]
    BY <1>b, <1>2, <1>3
  <2>3. QED
    BY <1>2, <2>1, <2>2 DEF SecretsKept
<1> DEFINE r == Row("session", u, users[u].version, users[u].phrase, FALSE)
<1>5. /\ r \in Credential
      /\ r = [kind |-> "session", user |-> u, version |-> users[u].version, state |-> "live", from |-> NoId,
              at |-> {}, proof |-> users[u].phrase, late |-> FALSE, opened |-> 0]
  BY <1>b, RowType, Zenon
<1>6. PICK n \in Id : /\ Unissued(n) /\ cred' = [cred EXCEPT ![n] = r]
                      /\ cli' = [pc |-> "minting", user |-> u, header |-> kept, session |-> n, token |-> NoId]
  BY DEF SignIn
<1> HIDE DEF r
<1>7. RowsKept(n) /\ OpenedKept(n) /\ NewRow(n) /\ cred'[n] = r
  BY <1>a, <1>5, <1>6, RowIssued
<1>8. RowSound(n)'
  BY <1>b, <1>4, <1>5, <1>7 DEF RowSound, Exists, Issued
<1>9. PICK c : c = cli'
  OBVIOUS
<1>10. c \in Command /\ c.token = NoId /\ c.session = n /\ cred'[c.session].kind = "session"
  BY <1>5, <1>6, <1>7, <1>9, CommandTypes DEF Command
<1>11. /\ budget' \in [begun : 0..MaxBegun, phrases : 0..MaxPhrase] /\ budget'.phrases = budget.phrases
       /\ UNCHANGED <<kept, desk>> /\ RecordSuccess(u) /\ n # NoId
  BY CommandTypes DEF SignIn
<1>12. QED
  BY <1>4, <1>7, <1>8, <1>9, <1>10, <1>11, CommandStep

\* What a command shows when it has signed in is a row.
LEMMA PresentedRow ==
  ASSUME KeyringInductive, cli.pc \in {"minting", "closing"}
  PROVE  Presented \in Id /\ cli.session \in Id
BY CommandTypes DEF KeyringInductive, CommandSound, Command, Presented

LEMMA MintTokenStep ==
  ASSUME KeyringInductive, MintToken
  PROVE  KeyringInductive'
<1>a. AccountsInductive /\ AccountsTypeOK /\ \A i \in Id : RowSound(i)
  BY DEF KeyringInductive, AccountsInductive
<1>p. PICK p \in Id : p = Presented
  BY PresentedRow DEF MintToken
<1>b. /\ MaxPhrase \in Nat /\ users \in [User -> Account] /\ cred[p] \in Credential
      /\ Issued(p) /\ cred[p].state = "live" /\ cred[p].version = users[cred[p].user].version
  BY <1>a, <1>p, AccountsAssumption DEF AccountsTypeOK, MintToken, Accepts, Current, Issued
<1>u. PICK u \in User : u = cred[p].user
  BY <1>b DEF Credential
<1>1. /\ cred[p].version \in 0..MaxPhrase + 1 /\ cred[p].proof \in Phrase /\ cred[p].late \in BOOLEAN
      /\ users[u].version \in 0..MaxPhrase + 1 /\ cred[p].version = users[u].version
  BY <1>b, <1>u DEF Credential, Account
<1>2. Exists(u) /\ (cred[p].late \/ cred[p].proof = users[u].phrase)
  <2>1. ~(cred[p].version < users[u].version)
    BY <1>1, <1>b
  <2>2. QED
    BY <1>a, <1>b, <1>u, <2>1 DEF RowSound
<1> DEFINE r == Row("token", u, cred[p].version, cred[p].proof, cred[p].late)
<1>3. /\ r \in Credential
      /\ r = [kind |-> "token", user |-> u, version |-> cred[p].version, state |-> "live", from |-> NoId,
              at |-> {}, proof |-> cred[p].proof, late |-> cred[p].late, opened |-> 0]
  BY <1>1, RowType, ZenonT(60)
<1>4. PICK n \in Id : /\ Unissued(n) /\ cred' = [cred EXCEPT ![n] = r]
                      /\ cli' = [cli EXCEPT !.pc = "closing", !.token = n]
  BY <1>p, <1>u DEF MintToken
<1> HIDE DEF r
<1>5. RowsKept(n) /\ OpenedKept(n) /\ NewRow(n) /\ cred'[n] = r
  BY <1>a, <1>3, <1>4, RowIssued
<1>6. UNCHANGED <<users, kept, budget, throttle, desk>>
  BY DEF MintToken, Outside
<1>7. RowSound(n)'
  BY <1>1, <1>2, <1>3, <1>5, <1>6 DEF RowSound, Exists, Issued
<1>8. PICK c : c = cli'
  OBVIOUS
<1>9. c \in Command /\ c.token = n /\ c.session = cli.session /\ cred'[c.token].kind = "token"
  <2>1. c = [cli EXCEPT !.pc = "closing", !.token = n] /\ cli \in Command
    BY <1>4, <1>8, CommandTypes
  <2>2. c \in Command /\ c.token = n /\ c.session = cli.session
    BY <2>1 DEF Command
  <2>3. QED
    BY <1>3, <1>5, <2>2
<1>10. c.session # NoId
  BY <1>9, PresentedRow, CommandTypes DEF MintToken
<1>11. SecretsKept /\ \A v \in User : users'[v].version <= 1 + (MaxPhrase - budget.phrases)
  BY <1>a, <1>6, SameUsers
<1>12. budget' \in [begun : 0..MaxBegun, phrases : 0..MaxPhrase] /\ budget'.phrases = budget.phrases
  BY <1>6, CommandTypes
<1>13. kept' \in {kept, NoId} /\ desk' = desk /\ throttle' = throttle
  BY <1>6
<1>14. QED
  BY <1>5, <1>7, <1>8, <1>9, <1>10, <1>11, <1>12, <1>13, CommandStep

LEMMA MintRefusedStep ==
  ASSUME KeyringInductive, MintRefused
  PROVE  KeyringInductive'
<1>1. PICK c : c = [cli EXCEPT !.pc = "closing"]
  OBVIOUS
<1>2. c \in Command /\ c.token = cli.token /\ c.session = cli.session
  BY <1>1, CommandTypes DEF Command
<1>3. c.session # NoId
  BY <1>2, PresentedRow, CommandTypes DEF MintRefused
<1>4. cli' = c /\ UNCHANGED <<users, cred, kept, budget, throttle, desk>>
  BY <1>1 DEF MintRefused, GoOn, Outside
<1>5. budget' \in [begun : 0..MaxBegun, phrases : 0..MaxPhrase] /\ budget'.phrases = budget.phrases
  BY <1>4, CommandTypes
<1>6. QED
  BY <1>2, <1>3, <1>4, <1>5, CommandGoesOn

LEMMA CloseSessionStep ==
  ASSUME KeyringInductive, CloseSession
  PROVE  KeyringInductive'
<1>1. PICK c : c = cli'
  OBVIOUS
<1>2. /\ c \in Command /\ c.token \in {NoId, cli.token} /\ c.session \in {NoId, cli.session}
      /\ c.pc \in {"storing", "idle"}
  <2>1. CASE cli.token # NoId
    <3>1. c = [cli EXCEPT !.pc = "storing"]
      BY <1>1, <2>1 DEF CloseSession, GoOn
    <3>2. QED
      BY <3>1, CommandTypes DEF Command
  <2>2. CASE cli.token = NoId
    BY <1>1, <2>2, CommandTypes DEF CloseSession, End
  <2>3. QED
    BY <2>1, <2>2
<1>3. UNCHANGED <<users, kept, budget, throttle, desk>>
  BY DEF CloseSession, Outside
<1>4. \/ cred' = cred
      \/ \E i \in Id, state \in {"expired", "spent", "gone"} : cred' = [cred EXCEPT ![i].state = state]
  BY PresentedRow DEF CloseSession
<1>5. budget' \in [begun : 0..MaxBegun, phrases : 0..MaxPhrase] /\ budget'.phrases = budget.phrases
  BY <1>3, CommandTypes
<1>6. QED
  BY <1>1, <1>2, <1>3, <1>4, <1>5, CommandGoesOn

\* A command that ends writes no row; with or without its token in the file.
LEMMA CommandEnds ==
  ASSUME KeyringInductive, cli' = NoCommand, kept' \in {kept, cli.token},
         UNCHANGED <<users, cred, budget, throttle, desk>>
  PROVE  KeyringInductive'
<1>1. budget' \in [begun : 0..MaxBegun, phrases : 0..MaxPhrase] /\ budget'.phrases = budget.phrases
  BY CommandTypes
<1>2. QED
  BY <1>1, CommandTypes, CommandGoesOn

\* auth logout and auth token rm: one row ends, and the file may go.
LEMMA FileStep ==
  ASSUME KeyringInductive, kept' \in {kept, NoId},
         \/ cred' = cred
         \/ \E i \in Id : cred' = [cred EXCEPT ![i].state = "spent"],
         UNCHANGED <<users, budget, throttle, desk, cli>>
  PROVE  KeyringInductive'
<1>1. budget' \in [begun : 0..MaxBegun, phrases : 0..MaxPhrase] /\ budget'.phrases = budget.phrases
  BY CommandTypes
<1>2. cli.pc \in {"minting", "closing"} => cli.session # NoId
  BY DEF KeyringInductive, CommandSound
<1>3. QED
  BY <1>1, <1>2, CommandTypes, CommandGoesOn

\* The requests of the others, whatever becomes of the file meanwhile.
LEMMA ElsewhereStep ==
  ASSUME KeyringInductive, cli' = cli, kept' \in {kept, NoId},
         \/ Passing
         \/ \E q \in Caller : Request(q) \/ ResetPassword(q) \/ \E u \in User : BeginReset(q, u)
  PROVE  KeyringInductive'
<1>a. AccountsInductive /\ Holding(kept, cli)
  BY KeyringParts
<1>1. AccountsInductive'
  BY <1>a, PassingSteps, RequestSteps, ResetPasswordStep, BeginResetStep
<1>2. \A i \in Id : Issued(i) => cred'[i].kind = cred[i].kind
  BY <1>a, KindsStay
<1>3. /\ kept # NoId => cred'[kept].kind = "token"
      /\ cli.token # NoId => cred'[cli.token].kind = "token"
      /\ cli.session # NoId => cred'[cli.session].kind = "session"
  BY <1>a, <1>2, HoldingStays
<1>4. Holding(kept, cli)'
  BY <1>a, <1>3 DEF Holding
<1>5. QED
  BY <1>1, <1>4 DEF KeyringInductive, KeyringTypeOK, CommandSound, Holding, AccountsInductive

LEMMA KeyringSteps ==
  ASSUME KeyringInductive, [KeyringNext]_keyringVars
  PROVE  KeyringInductive'
<1>1. ASSUME NEW u \in User, BeginInit(u) \/ SignIn(u) PROVE KeyringInductive'
  BY <1>1, BeginInitStep, SignInStep
<1>2. CASE CreateOwner \/ MintToken \/ MintRefused \/ CloseSession
  BY <1>2, CreateOwnerStep, MintTokenStep, MintRefusedStep, CloseSessionStep
<1>3. CASE StoreToken \/ Interrupted
  BY <1>3, CommandEnds DEF StoreToken, Interrupted, End, Outside
<1>4. CASE SignOut
  BY <1>4, FileStep, CommandTypes DEF SignOut, Outside
<1>5. ASSUME NEW i \in Id, RemoveToken(i) PROVE KeyringInductive'
  BY <1>5, FileStep DEF RemoveToken, Outside
<1>6. ASSUME NEW q \in Caller, ResetAndForget(q) PROVE KeyringInductive'
  BY <1>6, ElsewhereStep DEF ResetAndForget
<1>7. CASE Elsewhere
  BY <1>7, ElsewhereStep DEF Elsewhere
<1>8. CASE UNCHANGED keyringVars
  <2>1. AccountsInductive'
    BY <1>8, AccountsSteps DEF keyringVars, KeyringInductive
  <2>2. QED
    BY <1>8, <2>1 DEF keyringVars, accountsVars, KeyringInductive, KeyringTypeOK, CommandSound, AccountsInductive
<1>9. QED
  BY <1>1, <1>2, <1>3, <1>4, <1>5, <1>6, <1>7, <1>8 DEF KeyringNext, Auth

LEMMA KeyringInvariants == KeyringInductive => KeyringTypeOK /\ OutIsOut /\ LockoutHolds
BY AccountsInvariants DEF KeyringInductive

\* The file and the command hold tokens that were issued, whoever changes
\* passwords, revokes or restarts meanwhile.
THEOREM KeyringTypes == KeyringSpec => []KeyringTypeOK
<1>1. KeyringSpec => []KeyringInductive
  BY KeyringStarts, KeyringSteps, PTL DEF KeyringSpec
<1>2. QED
  BY <1>1, KeyringInvariants, PTL

\* A password change is a clean sweep with the commands of auth in the
\* picture: login, init, logout, token rm and reset-password.
THEOREM OutWithCommands == KeyringSpec => []OutIsOut /\ []LockoutHolds
<1>1. KeyringSpec => []KeyringInductive
  BY KeyringStarts, KeyringSteps, PTL DEF KeyringSpec
<1>2. QED
  BY <1>1, KeyringInvariants, PTL
=============================================================================
