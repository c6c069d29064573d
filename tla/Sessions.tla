------------------------------ MODULE Sessions ------------------------------
(***************************************************************************)
(* identity-service: accounts, bans and refresh tokens.                    *)
(*                                                                         *)
(* A login revokes the account's tokens and creates one, a refresh         *)
(* exchanges a token for a new one, a logout revokes one. Each is a        *)
(* request of its own that reads first and writes later, so that two of    *)
(* them meet in any order.                                                 *)
(***************************************************************************)
EXTENDS Naturals, FiniteSets

CONSTANTS
  Accounts,     \* users, one for each e-mail address
  NoAccount,
  Tokens,       \* refresh tokens, in the order of their creation
  NoToken,
  Visitors      \* requests under way: login, refresh, logout

ASSUME NoAccountAssumption == NoAccount \notin Accounts
ASSUME TokensAssumption == Tokens \subseteq Nat /\ NoToken \notin Tokens

VARIABLES
  registered,   \* the accounts there are
  banned,       \* those whose bannedUntil lies ahead
  token,        \* the rows of refresh_tokens: owner, status, and the first
                \* token of the chain of exchanges it belongs to
  visitor       \* what each request is doing

sessionVars == <<registered, banned, token, visitor>>

TokenType ==
  [owner : Accounts \cup {NoAccount}, status : {"NONE", "ACTIVE", "EXPIRED", "REVOKED"},
   chain : Tokens \cup {NoToken}]

\* barred (history): the account is banned, and was when the request came.
VisitorType ==
  [at : {"idle", "welcome", "revoking", "locking", "rotating", "leaving"},
   account : Accounts \cup {NoAccount}, token : Tokens \cup {NoToken},
   seen : SUBSET Tokens, barred : BOOLEAN]

SessionsTypeOK ==
  /\ registered \in SUBSET Accounts
  /\ banned \in SUBSET registered
  /\ token \in [Tokens -> TokenType]
  /\ visitor \in [Visitors -> VisitorType]

Gone == [at |-> "idle", account |-> NoAccount, token |-> NoToken, seen |-> {}, barred |-> FALSE]

SessionsInit ==
  /\ registered \in SUBSET Accounts
  /\ banned = {}
  /\ token = [t \in Tokens |-> [owner |-> NoAccount, status |-> "NONE", chain |-> NoToken]]
  /\ visitor = [v \in Visitors |-> Gone]

Active(t) == token[t].status = "ACTIVE"

\* revokedAt: null, whether it has expired or not.
Unrevoked(t) == token[t].status \in {"ACTIVE", "EXPIRED"}

\* The row lock a refresh holds until it commits.
LockedByRefresh(t) == \E v \in Visitors : visitor[v].at \in {"locking", "rotating"} /\ visitor[v].token = t

-----------------------------------------------------------------------------
(* Accounts                                                                *)

\* findByEmail, then the insert under the unique index on e-mail: EMAIL_TAKEN
\* otherwise.
Registers(a) ==
  /\ a \notin registered
  /\ registered' = registered \cup {a}
  /\ UNCHANGED <<banned, token, visitor>>

\* UserRepository.ban: the sessions stay as they are.
Bans(a) ==
  /\ a \in registered
  /\ banned' = banned \cup {a}
  /\ UNCHANGED <<registered, token, visitor>>

\* UserRepository.unban.
Unbans(a) ==
  /\ a \in registered
  /\ banned' = banned \ {a}
  /\ visitor' = [v \in Visitors |->
       IF visitor[v].account = a THEN [visitor[v] EXCEPT !.barred = FALSE] ELSE visitor[v]]
  /\ UNCHANGED <<registered, token>>

\* REFRESH_TOKEN_TTL_SEC have passed.
Expires(t) ==
  /\ Active(t)
  /\ token' = [token EXCEPT ![t].status = "EXPIRED"]
  /\ UNCHANGED <<registered, banned, visitor>>

-----------------------------------------------------------------------------
(* Login                                                                   *)

Arrives(v, at, a, t) ==
  visitor' = [visitor EXCEPT ![v] =
    [Gone EXCEPT !.at = at, !.account = a, !.token = t, !.barred = a \in banned]]

\* The e-mail, the password, and the ban: read before the transaction.
ChecksCredentials(v, a) ==
  /\ visitor[v].at = "idle"
  /\ a \in registered \ banned
  /\ Arrives(v, "welcome", a, NoToken)
  /\ UNCHANGED <<registered, banned, token>>

\* What revokeAllByUserId's UPDATE sees when it starts. Rows that a refresh
\* inserts later are not among them, also when the UPDATE waits for that refresh.
LooksForTokens(v) ==
  /\ visitor[v].at = "welcome"
  /\ visitor' = [visitor EXCEPT ![v].at = "revoking",
       ![v].seen = {t \in Tokens : token[t].owner = visitor[v].account /\ Unrevoked(t)}]
  /\ UNCHANGED <<registered, banned, token>>

\* The next token.
Fresh(t) == token[t].status = "NONE" /\ \A s \in Tokens : s < t => token[s].status # "NONE"

\* The row of a new token: a chain of its own, or one more of the chain of another.
NewToken(t, a, chain) == [owner |-> a, status |-> "ACTIVE", chain |-> chain]

\* The rest of the login's transaction: it has the locks of the rows it saw.
OpensSession(v, t) ==
  /\ visitor[v].at = "revoking"
  /\ \A s \in visitor[v].seen : ~LockedByRefresh(s)
  /\ Fresh(t)
  /\ token' = [s \in Tokens |->
       IF s = t THEN NewToken(t, visitor[v].account, t)
       ELSE IF s \in visitor[v].seen THEN [token[s] EXCEPT !.status = "REVOKED"]
       ELSE token[s]]
  /\ visitor' = [visitor EXCEPT ![v] = Gone]
  /\ UNCHANGED <<registered, banned>>

-----------------------------------------------------------------------------
(* Refresh                                                                 *)

\* Mutant: the row is read without FOR UPDATE.
Lockable_Always(t) == token[t].status # "NONE"

\* SELECT ... FOR UPDATE.
Lockable(t) == token[t].status # "NONE" /\ ~LockedByRefresh(t)

\* Only an active token is exchanged. When a revoked one is presented its owner's
\* other tokens are revoked, and the exception that follows rolls that back.
LocksToken(v, t) ==
  /\ visitor[v].at = "idle"
  /\ Lockable(t)
  /\ Active(t)
  /\ Arrives(v, "locking", token[t].owner, t)
  /\ UNCHANGED <<registered, banned, token>>

\* Mutant: a refresh does not look at the ban.
MayRefresh_Banned(a) == a \in registered

MayRefresh(a) == a \in registered \ banned

\* findById, outside the transaction: ACCOUNT_BANNED otherwise.
ChecksOwner(v) ==
  /\ visitor[v].at = "locking"
  /\ MayRefresh(visitor[v].account)
  /\ visitor' = [visitor EXCEPT ![v].at = "rotating"]
  /\ UNCHANGED <<registered, banned, token>>

Rotates(v, t) ==
  /\ visitor[v].at = "rotating"
  /\ Fresh(t)
  /\ LET old == visitor[v].token
     IN  token' = [token EXCEPT ![old].status = "REVOKED",
                                ![t] = NewToken(t, visitor[v].account, token[old].chain)]
  /\ visitor' = [visitor EXCEPT ![v] = Gone]
  /\ UNCHANGED <<registered, banned>>

-----------------------------------------------------------------------------
(* Logout                                                                  *)

\* findActiveByTokenHash: a token that is not active is no error.
FindsSession(v, t) ==
  /\ visitor[v].at = "idle"
  /\ Active(t)
  /\ Arrives(v, "leaving", token[t].owner, t)
  /\ UNCHANGED <<registered, banned, token>>

\* revokeById, whatever became of the token meanwhile.
EndsSession(v) ==
  /\ visitor[v].at = "leaving"
  /\ ~LockedByRefresh(visitor[v].token)
  /\ token' = [token EXCEPT ![visitor[v].token].status = "REVOKED"]
  /\ visitor' = [visitor EXCEPT ![v] = Gone]
  /\ UNCHANGED <<registered, banned>>

\* Refused, or out of time: the transaction is rolled back.
Leaves(v) ==
  /\ visitor[v].at # "idle"
  /\ visitor' = [visitor EXCEPT ![v] = Gone]
  /\ UNCHANGED <<registered, banned, token>>

SessionsNext ==
  \/ \E a \in Accounts : Registers(a) \/ Bans(a) \/ Unbans(a)
  \/ \E t \in Tokens : Expires(t)
  \/ \E v \in Visitors :
       \/ \E a \in Accounts : ChecksCredentials(v, a)
       \/ \E t \in Tokens :
            \/ OpensSession(v, t) \/ LocksToken(v, t) \/ Rotates(v, t) \/ FindsSession(v, t)
       \/ LooksForTokens(v) \/ ChecksOwner(v) \/ EndsSession(v) \/ Leaves(v)

SessionsSpec == SessionsInit /\ [][SessionsNext]_sessionVars

-----------------------------------------------------------------------------
(* Properties                                                              *)

\* A login leads to one usable refresh token at most, however many refreshes of
\* it run at once: a token is exchanged once.
OneTokenPerChain ==
  \A s, t \in Tokens : Active(s) /\ Active(t) /\ token[s].chain = token[t].chain => s = t

\* A request that came after a ban that still stands gets no token. (One that came
\* before the ban may: the ban is read once, and tokens already there survive it.)
BannedGetNothing ==
  [][\A v \in Visitors :
       visitor[v].barred /\ visitor'[v].at = "idle" =>
         \A t \in Tokens : Active(t)' => Active(t)]_sessionVars

=============================================================================
