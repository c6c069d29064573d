---------------------------- MODULE AdminProofs -----------------------------
(***************************************************************************)
(* What identity-service promises of sessions and bans, and admin-service of *)
(* disputes, commands and configurations, for any number of each.          *)
(***************************************************************************)
EXTENDS AdminCommands, Disputes, ConfigCopies, Sums, TLAPS

-----------------------------------------------------------------------------
(* Sessions: refresh tokens and bans.                                      *)

\* A request that has the row of a token.
Holding(v) == visitor[v].at \in {"locking", "rotating"}

\* A token belongs to a chain that began with a token, and is its only one that
\* is not revoked.
ChainsAreSound ==
  /\ \A t \in Tokens :
       token[t].status # "NONE" =>
         token[t].chain \in Tokens /\ token[token[t].chain].status # "NONE"
  /\ \A s, t \in Tokens :
       Unrevoked(s) /\ Unrevoked(t) /\ token[s].chain = token[t].chain => s = t

\* A refresh has the row of its token to itself, and nobody revokes it meanwhile.
RequestsAreSound ==
  /\ \A v \in Visitors : Holding(v) => visitor[v].token \in Tokens /\ Unrevoked(visitor[v].token)
  /\ \A v, w \in Visitors :
       Holding(v) /\ Holding(w) /\ visitor[v].token = visitor[w].token => v = w
  /\ \A v \in Visitors :
       visitor[v].at = "leaving" =>
         visitor[v].token \in Tokens /\ token[visitor[v].token].status # "NONE"
  /\ \A v \in Visitors : \A s \in visitor[v].seen : token[s].status # "NONE"

\* Whoever is about to get a token was not banned when the ban was looked at.
BansAreSound ==
  \A v \in Visitors :
    /\ visitor[v].barred => visitor[v].account \in banned
    /\ visitor[v].barred => visitor[v].at \in {"locking", "leaving"}

\* The inductive invariant.
SessionsInv ==
  /\ SessionsTypeOK
  /\ ChainsAreSound
  /\ RequestsAreSound
  /\ BansAreSound

-----------------------------------------------------------------------------
\* The actions by name.
LEMMA SessionsCases ==
  ASSUME SessionsNext
  PROVE  \/ \E a \in Accounts : Registers(a) \/ Bans(a)
         \/ \E a \in Accounts : Unbans(a)
         \/ \E t \in Tokens : Expires(t)
         \/ \E v \in Visitors, a \in Accounts : ChecksCredentials(v, a)
         \/ \E v \in Visitors, t \in Tokens : OpensSession(v, t)
         \/ \E v \in Visitors, t \in Tokens : LocksToken(v, t)
         \/ \E v \in Visitors, t \in Tokens : Rotates(v, t)
         \/ \E v \in Visitors, t \in Tokens : FindsSession(v, t)
         \/ \E v \in Visitors : LooksForTokens(v)
         \/ \E v \in Visitors : ChecksOwner(v)
         \/ \E v \in Visitors : EndsSession(v)
         \/ \E v \in Visitors : Leaves(v)
  BY DEF SessionsNext

\* Nobody has a token at first.
LEMMA SessionsInitInv ==
  ASSUME SessionsInit
  PROVE  SessionsInv
<1>1. SessionsTypeOK
  BY DEF SessionsInit, SessionsTypeOK, TokenType, VisitorType, Gone
<1>2. ChainsAreSound
  BY DEF SessionsInit, ChainsAreSound, Unrevoked
<1>3. RequestsAreSound /\ BansAreSound
  BY DEF SessionsInit, RequestsAreSound, BansAreSound, Holding, Gone
<1> QED
  BY <1>1, <1>2, <1>3 DEF SessionsInv

\* A request that arrives with a token nobody else has changes nothing but itself.
LEMMA ArrivalIsSound ==
  ASSUME SessionsInv, UNCHANGED <<registered, banned, token>>,
         NEW v \in Visitors, NEW at \in {"welcome", "locking", "leaving"},
         NEW a \in Accounts \cup {NoAccount}, NEW t \in Tokens \cup {NoToken},
         Arrives(v, at, a, t),
         at # "welcome" => t \in Tokens /\ token[t].status # "NONE",
         at = "locking" => Unrevoked(t) /\ ~LockedByRefresh(t),
         at = "welcome" => a \notin banned
  PROVE  SessionsInv'
<1> USE DEF SessionsInv
<1>1. /\ \A w \in Visitors : w # v => visitor'[w] = visitor[w]
      /\ visitor'[v].at = at /\ visitor'[v].account = a /\ visitor'[v].token = t
      /\ visitor'[v].barred = (a \in banned) /\ visitor'[v].seen = {}
  BY DEF Arrives, Gone, SessionsTypeOK, VisitorType
<1>2. SessionsTypeOK'
  <2>1. [Gone EXCEPT !.at = at, !.account = a, !.token = t, !.barred = a \in banned]
          \in VisitorType
    <3> DEFINE barred == a \in banned
    <3>1. barred \in BOOLEAN
      OBVIOUS
    <3> HIDE DEF barred
    <3>2. [Gone EXCEPT !.at = at, !.account = a, !.token = t, !.barred = barred]
            \in VisitorType
      BY <3>1 DEF Gone, VisitorType
    <3> QED
      BY <3>2 DEF barred
  <2> QED
    BY <2>1 DEF Arrives, SessionsTypeOK
<1>3. ChainsAreSound'
  BY DEF ChainsAreSound, Unrevoked
<1>4. RequestsAreSound'
  BY <1>1 DEF RequestsAreSound, Holding, Unrevoked, LockedByRefresh
<1>5. BansAreSound'
  BY <1>1 DEF BansAreSound
<1> QED
  BY <1>2, <1>3, <1>4, <1>5

\* A request that ends leaves the others as they were.
LEMMA DepartureIsSound ==
  ASSUME SessionsInv, NEW v \in Visitors, visitor' = [visitor EXCEPT ![v] = Gone],
         UNCHANGED <<registered, banned>>, token' \in [Tokens -> TokenType],
         \A t \in Tokens : token[t].status # "NONE" => token'[t].status # "NONE",
         \A w \in Visitors :
           w # v /\ Holding(w) => token'[visitor[w].token] = token[visitor[w].token]
  PROVE  SessionsTypeOK' /\ RequestsAreSound' /\ BansAreSound'
<1> USE DEF SessionsInv
<1>1. /\ \A w \in Visitors : w # v => visitor'[w] = visitor[w]
      /\ visitor'[v] = Gone
  BY DEF SessionsTypeOK
<1>2. SessionsTypeOK'
  BY DEF SessionsTypeOK, Gone, VisitorType
<1>3. RequestsAreSound'
  <2>1. \A w \in Visitors : visitor[w].seen \subseteq Tokens
    BY DEF SessionsTypeOK, VisitorType
  <2>2. \A w \in Visitors : \A s \in visitor'[w].seen : token'[s].status # "NONE"
    BY <1>1, <2>1 DEF RequestsAreSound, Gone
  <2> QED
    BY <1>1, <2>2 DEF RequestsAreSound, Holding, Unrevoked, Gone
<1>4. BansAreSound'
  BY <1>1 DEF BansAreSound, Gone
<1> QED
  BY <1>2, <1>3, <1>4

\* Revoking tokens leaves the chains sound.
LEMMA RevokingIsSound ==
  ASSUME SessionsInv, token' \in [Tokens -> TokenType],
         \A t \in Tokens :
           /\ token'[t].chain = token[t].chain
           /\ (token'[t].status = "NONE") <=> (token[t].status = "NONE")
           /\ Unrevoked(t)' => Unrevoked(t)
  PROVE  ChainsAreSound'
  BY DEF SessionsInv, ChainsAreSound

-----------------------------------------------------------------------------
\* The last step of a login.
LEMMA LoginStep ==
  ASSUME SessionsInv, NEW v \in Visitors, NEW t \in Tokens, OpensSession(v, t)
  PROVE  SessionsInv'
<1> USE DEF SessionsInv
<1>1. /\ token[t].status = "NONE"
      /\ \A s \in visitor[v].seen : ~LockedByRefresh(s)
      /\ visitor' = [visitor EXCEPT ![v] = Gone]
      /\ UNCHANGED <<registered, banned>>
  BY DEF OpensSession, Fresh
<1>2. /\ token'[t].status = "ACTIVE" /\ token'[t].chain = t
      /\ \A s \in Tokens : s # t => token'[s].chain = token[s].chain
      /\ \A s \in visitor[v].seen \ {t} : s \in Tokens => token'[s].status = "REVOKED"
      /\ \A s \in Tokens \ visitor[v].seen : s # t => token'[s] = token[s]
  BY DEF OpensSession, NewToken, SessionsTypeOK, TokenType
<1>3. token' \in [Tokens -> TokenType]
  <2>1. NewToken(t, visitor[v].account, t) \in TokenType
    BY DEF NewToken, SessionsTypeOK, TokenType, VisitorType
  <2>2. \A s \in Tokens : [token[s] EXCEPT !.status = "REVOKED"] \in TokenType
    BY DEF SessionsTypeOK, TokenType
  <2> QED
    BY <2>1, <2>2 DEF OpensSession, SessionsTypeOK
<1>4. \A w \in Visitors : Holding(w) => visitor[w].token \in Tokens \ (visitor[v].seen \cup {t})
  BY <1>1 DEF RequestsAreSound, LockedByRefresh, Holding, Unrevoked
<1>5. SessionsTypeOK' /\ RequestsAreSound' /\ BansAreSound'
  <2>1. \A s \in Tokens : token[s].status # "NONE" => token'[s].status # "NONE"
    BY <1>1, <1>2
  <2>2. \A w \in Visitors :
          w # v /\ Holding(w) => token'[visitor[w].token] = token[visitor[w].token]
    BY <1>2, <1>4
  <2> QED
    BY <1>1, <1>3, <2>1, <2>2, DepartureIsSound
<1>6. ChainsAreSound'
  <2>1. \A s \in Tokens : s # t /\ Unrevoked(s)' => token'[s] = token[s] /\ Unrevoked(s)
    BY <1>2 DEF Unrevoked
  <2>2. \A s \in Tokens : s # t /\ Unrevoked(s) => token[s].chain # t
    BY <1>1 DEF ChainsAreSound, Unrevoked
  <2>3. \A s \in Tokens : s # t => (token'[s].status = "NONE") <=> (token[s].status = "NONE")
    <3>1. \A s \in visitor[v].seen : token[s].status # "NONE"
      BY DEF RequestsAreSound
    <3> QED
      BY <1>2, <3>1
  <2> QED
    BY <1>2, <2>1, <2>2, <2>3 DEF ChainsAreSound
<1> QED
  BY <1>5, <1>6

\* The last step of a refresh.
LEMMA RefreshStep ==
  ASSUME SessionsInv, NEW v \in Visitors, NEW t \in Tokens, Rotates(v, t)
  PROVE  SessionsInv'
<1> USE DEF SessionsInv
<1> DEFINE old == visitor[v].token
<1>1. /\ token[t].status = "NONE" /\ Holding(v)
      /\ visitor' = [visitor EXCEPT ![v] = Gone]
      /\ UNCHANGED <<registered, banned>>
  BY DEF Rotates, Fresh, Holding
<1>2. old \in Tokens /\ Unrevoked(old) /\ old # t
  BY <1>1 DEF RequestsAreSound, Unrevoked
<1>3. token' = [token EXCEPT ![old].status = "REVOKED",
                             ![t] = NewToken(t, visitor[v].account, token[old].chain)]
  BY DEF Rotates
<1> HIDE DEF old
<1>4. /\ token'[t] = NewToken(t, visitor[v].account, token[old].chain)
      /\ token'[old] = [token[old] EXCEPT !.status = "REVOKED"]
      /\ \A s \in Tokens : s # t /\ s # old => token'[s] = token[s]
  BY <1>2, <1>3 DEF SessionsTypeOK
<1>5. token' \in [Tokens -> TokenType]
  <2>1. NewToken(t, visitor[v].account, token[old].chain) \in TokenType
    BY <1>2 DEF NewToken, SessionsTypeOK, TokenType, VisitorType
  <2>2. [token[old] EXCEPT !.status = "REVOKED"] \in TokenType
    BY <1>2 DEF SessionsTypeOK, TokenType
  <2> QED
    BY <1>2, <1>3, <2>1, <2>2 DEF SessionsTypeOK
<1>6. /\ token'[t].status = "ACTIVE" /\ token'[t].chain = token[old].chain
      /\ token'[old].status = "REVOKED" /\ token'[old].chain = token[old].chain
  BY <1>2, <1>4 DEF NewToken, SessionsTypeOK, TokenType
<1>7. SessionsTypeOK' /\ RequestsAreSound' /\ BansAreSound'
  <2>1. \A s \in Tokens : token[s].status # "NONE" => token'[s].status # "NONE"
    BY <1>1, <1>4, <1>6
  <2>2. \A w \in Visitors :
          w # v /\ Holding(w) => token'[visitor[w].token] = token[visitor[w].token]
    BY <1>1, <1>4 DEF RequestsAreSound, Unrevoked, old
  <2> QED
    BY <1>1, <1>5, <2>1, <2>2, DepartureIsSound
<1>8. ChainsAreSound'
  <2>1. \A s \in Tokens : s # t /\ Unrevoked(s)' => s # old /\ token'[s] = token[s] /\ Unrevoked(s)
    BY <1>4, <1>6 DEF Unrevoked
  <2>2. \A s \in Tokens : s # t /\ Unrevoked(s)' => token'[s].chain # token[old].chain
    BY <1>2, <2>1 DEF ChainsAreSound
  <2>3. /\ \A s \in Tokens : s # t => token'[s].chain = token[s].chain
        /\ \A s \in Tokens : s # t => (token'[s].status = "NONE") <=> (token[s].status = "NONE")
    BY <1>2, <1>4, <1>6 DEF Unrevoked
  <2>4. token[old].chain \in Tokens /\ token'[token[old].chain].status # "NONE"
    BY <1>2, <1>6, <2>3 DEF ChainsAreSound, Unrevoked
  <2>5. \A s \in Tokens :
          token'[s].status # "NONE" =>
            token'[s].chain \in Tokens /\ token'[token'[s].chain].status # "NONE"
    BY <1>6, <2>3, <2>4 DEF ChainsAreSound
  <2>6. \A r, s \in Tokens :
          Unrevoked(r)' /\ Unrevoked(s)' /\ token'[r].chain = token'[s].chain => r = s
    BY <1>6, <2>1, <2>2 DEF ChainsAreSound
  <2> QED
    BY <2>5, <2>6 DEF ChainsAreSound
<1> QED
  BY <1>7, <1>8

\* The last step of a logout.
LEMMA LogoutStep ==
  ASSUME SessionsInv, NEW v \in Visitors, EndsSession(v)
  PROVE  SessionsInv'
<1> USE DEF SessionsInv
<1> DEFINE old == visitor[v].token
<1>1. /\ visitor[v].at = "leaving" /\ ~LockedByRefresh(old)
      /\ token' = [token EXCEPT ![old].status = "REVOKED"]
      /\ visitor' = [visitor EXCEPT ![v] = Gone]
      /\ UNCHANGED <<registered, banned>>
  BY DEF EndsSession
<1>2. old \in Tokens /\ token[old].status # "NONE"
  BY <1>1 DEF RequestsAreSound
<1> HIDE DEF old
<1>3. /\ token'[old] = [token[old] EXCEPT !.status = "REVOKED"]
      /\ \A s \in Tokens : s # old => token'[s] = token[s]
  BY <1>1, <1>2 DEF SessionsTypeOK
<1>4. token'[old].status = "REVOKED" /\ token'[old].chain = token[old].chain
  BY <1>2, <1>3 DEF SessionsTypeOK, TokenType
<1>5. token' \in [Tokens -> TokenType]
  BY <1>1, <1>2 DEF SessionsTypeOK, TokenType
<1>6. SessionsTypeOK' /\ RequestsAreSound' /\ BansAreSound'
  <2>1. \A s \in Tokens : token[s].status # "NONE" => token'[s].status # "NONE"
    BY <1>3, <1>4
  <2>2. \A w \in Visitors :
          w # v /\ Holding(w) => token'[visitor[w].token] = token[visitor[w].token]
    BY <1>1, <1>3 DEF RequestsAreSound, LockedByRefresh, Holding
  <2> QED
    BY <1>1, <1>5, <2>1, <2>2, DepartureIsSound
<1>7. ChainsAreSound'
  BY <1>2, <1>3, <1>4, <1>5, RevokingIsSound DEF Unrevoked
<1> QED
  BY <1>6, <1>7

-----------------------------------------------------------------------------
\* Every step keeps the invariant.
LEMMA SessionsStep ==
  ASSUME SessionsInv, [SessionsNext]_sessionVars
  PROVE  SessionsInv'
<1> USE DEF SessionsInv
<1>1. ASSUME NEW a \in Accounts, Registers(a) \/ Bans(a) PROVE SessionsInv'
  BY <1>1
  DEF Registers, Bans, SessionsTypeOK, ChainsAreSound, RequestsAreSound, BansAreSound,
      Holding, Unrevoked
<1>2. ASSUME NEW a \in Accounts, Unbans(a) PROVE SessionsInv'
  <2>1. /\ banned' = banned \ {a} /\ UNCHANGED <<registered, token>>
        /\ \A v \in Visitors :
             visitor'[v] = IF visitor[v].account = a THEN [visitor[v] EXCEPT !.barred = FALSE]
                           ELSE visitor[v]
    BY <1>2 DEF Unbans
  <2>2. /\ visitor' \in [Visitors -> VisitorType]
        /\ \A v \in Visitors :
             /\ visitor'[v].at = visitor[v].at /\ visitor'[v].token = visitor[v].token
             /\ visitor'[v].account = visitor[v].account
             /\ visitor'[v].seen = visitor[v].seen
             /\ visitor'[v].barred => visitor[v].barred /\ visitor[v].account # a
    <3>1. \A v \in Visitors : visitor[v] \in VisitorType
      BY DEF SessionsTypeOK
    <3>2. \A v \in Visitors : [visitor[v] EXCEPT !.barred = FALSE] \in VisitorType
      BY <3>1 DEF VisitorType
    <3>3. visitor' \in [Visitors -> VisitorType]
      BY <1>2, <3>1, <3>2 DEF Unbans
    <3> QED
      BY <2>1, <3>1, <3>3 DEF VisitorType
  <2> QED
    BY <2>1, <2>2
    DEF SessionsTypeOK, ChainsAreSound, RequestsAreSound, BansAreSound, Holding, Unrevoked
<1>3. ASSUME NEW t \in Tokens, Expires(t) PROVE SessionsInv'
  <2>1. /\ token[t].status = "ACTIVE" /\ UNCHANGED <<registered, banned, visitor>>
        /\ token' = [token EXCEPT ![t].status = "EXPIRED"]
    BY <1>3 DEF Expires, Active
  <2>2. /\ token' \in [Tokens -> TokenType]
        /\ \A s \in Tokens :
             /\ token'[s].chain = token[s].chain
             /\ (token'[s].status = "NONE") <=> (token[s].status = "NONE")
             /\ Unrevoked(s)' <=> Unrevoked(s)
    BY <2>1 DEF SessionsTypeOK, TokenType, Unrevoked
  <2>3. ChainsAreSound'
    BY <2>2, RevokingIsSound
  <2> QED
    BY <2>1, <2>2, <2>3 DEF SessionsTypeOK, RequestsAreSound, BansAreSound, Holding
<1>4. ASSUME NEW v \in Visitors, NEW a \in Accounts, ChecksCredentials(v, a) PROVE SessionsInv'
  BY <1>4, ArrivalIsSound DEF ChecksCredentials
<1>5. ASSUME NEW v \in Visitors, NEW t \in Tokens, LocksToken(v, t) PROVE SessionsInv'
  <2>1. token[t].owner \in Accounts \cup {NoAccount}
    BY DEF SessionsTypeOK, TokenType
  <2>2. Unrevoked(t) /\ token[t].status # "NONE" /\ ~LockedByRefresh(t)
    BY <1>5 DEF LocksToken, Lockable, Active, Unrevoked
  <2> QED
    BY <1>5, <2>1, <2>2, ArrivalIsSound DEF LocksToken
<1>6. ASSUME NEW v \in Visitors, NEW t \in Tokens, FindsSession(v, t) PROVE SessionsInv'
  <2>1. token[t].owner \in Accounts \cup {NoAccount}
    BY DEF SessionsTypeOK, TokenType
  <2>2. token[t].status # "NONE"
    BY <1>6 DEF FindsSession, Active
  <2> QED
    BY <1>6, <2>1, <2>2, ArrivalIsSound DEF FindsSession
<1>7. ASSUME NEW v \in Visitors, LooksForTokens(v) PROVE SessionsInv'
  <2>1. /\ visitor[v].at = "welcome" /\ UNCHANGED <<registered, banned, token>>
        /\ visitor'[v].at = "revoking" /\ visitor'[v].barred = visitor[v].barred
        /\ \A s \in visitor'[v].seen : token[s].status # "NONE"
        /\ \A w \in Visitors : w # v => visitor'[w] = visitor[w]
        /\ visitor' \in [Visitors -> VisitorType]
    <3> DEFINE seen == {t \in Tokens : token[t].owner = visitor[v].account /\ Unrevoked(t)}
    <3>1. seen \in SUBSET Tokens /\ \A s \in seen : token[s].status # "NONE"
      BY DEF Unrevoked
    <3>2. visitor' = [visitor EXCEPT ![v].at = "revoking", ![v].seen = seen]
      BY <1>7 DEF LooksForTokens
    <3> HIDE DEF seen
    <3>3. visitor[v] \in VisitorType
      BY DEF SessionsTypeOK
    <3>4. [[visitor[v] EXCEPT !.at = "revoking"] EXCEPT !.seen = seen] \in VisitorType
      BY <3>1, <3>3 DEF VisitorType
    <3>5. visitor' = [visitor EXCEPT ![v] =
            [[visitor[v] EXCEPT !.at = "revoking"] EXCEPT !.seen = seen]]
      BY <3>2, <3>3 DEF SessionsTypeOK, VisitorType
    <3>6. /\ visitor[v].at = "welcome" /\ UNCHANGED <<registered, banned, token>>
      BY <1>7 DEF LooksForTokens
    <3>7. visitor'[v] = [[visitor[v] EXCEPT !.at = "revoking"] EXCEPT !.seen = seen]
      BY <3>5 DEF SessionsTypeOK
    <3>8. /\ visitor'[v].at = "revoking" /\ visitor'[v].barred = visitor[v].barred
          /\ visitor'[v].seen = seen
      BY <3>3, <3>7 DEF VisitorType
    <3>9. /\ \A w \in Visitors : w # v => visitor'[w] = visitor[w]
          /\ visitor' \in [Visitors -> VisitorType]
      BY <3>4, <3>5 DEF SessionsTypeOK
    <3> QED
      BY <3>1, <3>6, <3>8, <3>9
  <2> QED
    BY <2>1
    DEF SessionsTypeOK, ChainsAreSound, RequestsAreSound, BansAreSound, Holding, Unrevoked
<1>8. ASSUME NEW v \in Visitors, ChecksOwner(v) PROVE SessionsInv'
  <2>1. /\ visitor[v].at = "locking" /\ UNCHANGED <<registered, banned, token>>
        /\ visitor[v].account \notin banned
        /\ visitor'[v].at = "rotating" /\ visitor'[v].barred = visitor[v].barred
        /\ visitor'[v].token = visitor[v].token /\ visitor'[v].seen = visitor[v].seen
        /\ \A w \in Visitors : w # v => visitor'[w] = visitor[w]
        /\ visitor' \in [Visitors -> VisitorType]
    BY <1>8 DEF ChecksOwner, MayRefresh, SessionsTypeOK, VisitorType
  <2> QED
    BY <2>1
    DEF SessionsTypeOK, ChainsAreSound, RequestsAreSound, BansAreSound, Holding, Unrevoked
<1>9. ASSUME NEW v \in Visitors, Leaves(v) PROVE SessionsInv'
  <2>1. visitor' = [visitor EXCEPT ![v] = Gone] /\ UNCHANGED <<registered, banned, token>>
    BY <1>9 DEF Leaves
  <2>2. SessionsTypeOK' /\ RequestsAreSound' /\ BansAreSound'
    BY <2>1, DepartureIsSound DEF SessionsTypeOK
  <2> QED
    BY <2>1, <2>2 DEF ChainsAreSound, Unrevoked
<1>10. CASE UNCHANGED sessionVars
  BY <1>10
  DEF sessionVars, SessionsTypeOK, ChainsAreSound, RequestsAreSound, BansAreSound,
      Holding, Unrevoked
<1> QED
  BY <1>1, <1>2, <1>3, <1>4, <1>5, <1>6, <1>7, <1>8, <1>9, <1>10,
     LoginStep, RefreshStep, LogoutStep, SessionsCases

-----------------------------------------------------------------------------
(* The theorems                                                            *)

\* Types, chains of tokens, requests and bans are sound.
THEOREM SessionsInvariant == SessionsSpec => []SessionsInv
  BY SessionsInitInv, SessionsStep, PTL DEF SessionsSpec

\* A refresh token is exchanged once: a login leads to one usable token at most,
\* for any number of refreshes, logins and logouts at once.
THEOREM TokensAreExchangedOnce == SessionsSpec => []OneTokenPerChain
<1>1. SessionsInv => OneTokenPerChain
  BY DEF SessionsInv, ChainsAreSound, OneTokenPerChain, Active, Unrevoked
<1> QED
  BY <1>1, SessionsInvariant, PTL

\* Nobody whose request came after a ban that still stands gets a token.
THEOREM BansHold == SessionsSpec => BannedGetNothing
<1>1. ASSUME SessionsInv, [SessionsNext]_sessionVars
      PROVE  [\A v \in Visitors :
                visitor[v].barred /\ visitor'[v].at = "idle" =>
                  \A t \in Tokens : Active(t)' => Active(t)]_sessionVars
  <2> USE <1>1 DEF SessionsInv
  <2> SUFFICES ASSUME NEW v \in Visitors, visitor[v].barred, visitor'[v].at = "idle",
                      NEW t \in Tokens, Active(t)'
               PROVE  Active(t)
    OBVIOUS
  <2>1. visitor[v].at \in {"locking", "leaving"}
    BY DEF BansAreSound
  <2>2. ASSUME NEW w \in Visitors, NEW s \in Tokens, OpensSession(w, s) \/ Rotates(w, s)
        PROVE  FALSE
    <3>1. w # v /\ visitor' = [visitor EXCEPT ![w] = Gone]
      BY <2>1, <2>2 DEF OpensSession, Rotates
    <3> QED
      BY <2>1, <3>1 DEF SessionsTypeOK
  <2>3. ASSUME NEW s \in Tokens, Expires(s) PROVE Active(t)
    BY <2>3 DEF Expires, Active, SessionsTypeOK, TokenType
  <2>4. ASSUME NEW w \in Visitors, EndsSession(w) PROVE Active(t)
    <3>1. visitor[w].token \in Tokens
      BY <2>4 DEF EndsSession, RequestsAreSound
    <3> QED
      BY <2>4, <3>1 DEF EndsSession, Active, SessionsTypeOK, TokenType
  <2> QED
    BY <2>2, <2>3, <2>4, SessionsCases
    DEF Registers, Bans, Unbans, ChecksCredentials, LooksForTokens, LocksToken, ChecksOwner,
        FindsSession, Leaves, Active, sessionVars
<1> QED
  BY <1>1, SessionsInvariant, PTL DEF SessionsSpec, BannedGetNothing

-----------------------------------------------------------------------------
(* Disputes: one resolution, told once.                                    *)

\* A transaction has the row it looked at to itself, as it saw it.
LocksAreSound ==
  /\ \A j \in Judges :
       IF judge[j].at = "idle" THEN judge[j].holds = {}
       ELSE \E d \in DisputeIds : judge[j].holds = {d}
  /\ \A j, k \in Judges, d \in DisputeIds : d \in judge[j].holds /\ d \in judge[k].holds => j = k
  /\ \A j \in Judges : \A d \in judge[j].holds :
       /\ judge[j].at = "resolving" => dispute[d].status = "OPEN"
       /\ judge[j].at = "closing" => dispute[d].status \in {"OPEN", "RESOLVED"}

\* An open dispute is about a booking and has no resolution yet.
DisputesAreSound ==
  \A d \in DisputeIds :
    /\ dispute[d].status \in {"NONE", "OPEN"} => dispute[d].resolution = NoResolution
    /\ dispute[d].status # "NONE" => dispute[d].booking \in DisputedBookings

\* The inductive invariant.
DisputesInv ==
  /\ DisputesTypeOK
  /\ LocksAreSound
  /\ DisputesAreSound
  /\ EventsTellResolutions

-----------------------------------------------------------------------------
\* The actions by name.
LEMMA DisputesCases ==
  ASSUME DisputesNext
  PROVE  \/ \E d \in DisputeIds : DeadlinePasses(d)
         \/ \E d \in DisputeIds, b \in DisputedBookings : CreatesDispute(d, b)
         \/ \E j \in Judges, d \in DisputeIds : LooksToResolve(j, d) \/ LooksToClose(j, d)
         \/ \E j \in Judges, resolution \in Resolutions : Resolves(j, resolution)
         \/ \E j \in Judges : Closes(j)
         \/ \E j \in Judges : RollsBack(j)
  BY DEF DisputesNext

\* No resolution is none.
LEMMA ResolutionsDiffer == NoResolution \notin Resolutions /\ PaymentResolutions \subseteq Resolutions
  BY DEF NoResolution, Resolutions, PaymentResolutions

\* There are no disputes at first.
LEMMA DisputesInitInv ==
  ASSUME DisputesInit
  PROVE  DisputesInv
<1>1. DisputesTypeOK
  BY DEF DisputesInit, DisputesTypeOK, DisputeType, IdleJudge
<1>2. LocksAreSound
  BY DEF DisputesInit, LocksAreSound, IdleJudge
<1>3. DisputesAreSound /\ EventsTellResolutions
  BY ResolutionsDiffer DEF DisputesInit, DisputesAreSound, EventsTellResolutions
<1> QED
  BY <1>1, <1>2, <1>3 DEF DisputesInv

\* A row that is locked changes only for the transaction that has it.
LEMMA JudgeRests ==
  ASSUME DisputesInv, NEW j \in Judges, judge' = [judge EXCEPT ![j] = IdleJudge],
         \A d \in DisputeIds : d \notin judge[j].holds => dispute'[d] = dispute[d]
  PROVE  LocksAreSound' /\ judge' \in [Judges -> [at : {"idle", "resolving", "closing"},
                                                 holds : SUBSET DisputeIds]]
<1>1. /\ \A k \in Judges : k # j => judge'[k] = judge[k]
      /\ judge'[j].at = "idle" /\ judge'[j].holds = {}
  BY DEF DisputesInv, DisputesTypeOK, IdleJudge
<1>2. \A k \in Judges : \A d \in judge'[k].holds :
        k # j /\ d \in DisputeIds /\ d \in judge[k].holds /\ dispute'[d] = dispute[d]
  BY <1>1 DEF DisputesInv, LocksAreSound
<1> QED
  BY <1>1, <1>2 DEF DisputesInv, DisputesTypeOK, LocksAreSound, IdleJudge

\* Every step keeps the invariant.
LEMMA DisputesStep ==
  ASSUME DisputesInv, [DisputesNext]_disputeVars
  PROVE  DisputesInv'
<1> USE DEF DisputesInv
<1>1. ASSUME NEW d \in DisputeIds, DeadlinePasses(d) PROVE DisputesInv'
  BY <1>1
  DEF DeadlinePasses, DisputesTypeOK, LocksAreSound, DisputesAreSound, EventsTellResolutions
<1>2. ASSUME NEW d \in DisputeIds, NEW b \in DisputedBookings, CreatesDispute(d, b)
      PROVE  DisputesInv'
  <2>1. /\ dispute[d].status = "NONE" /\ dispute[d].resolution = NoResolution
        /\ dispute'[d] = [status |-> "OPEN", booking |-> b, resolution |-> NoResolution]
        /\ \A x \in DisputeIds : x # d => dispute'[x] = dispute[x]
        /\ UNCHANGED <<overdue, judge, announced>>
    BY <1>2 DEF CreatesDispute, DisputesTypeOK, DisputesAreSound
  <2>2. DisputesTypeOK'
    BY <1>2 DEF CreatesDispute, DisputesTypeOK, DisputeType
  <2>3. LocksAreSound'
    <3>1. \A j \in Judges : d \notin judge[j].holds
      BY <2>1 DEF LocksAreSound, DisputesTypeOK
    <3> QED
      BY <2>1, <3>1 DEF LocksAreSound, DisputesTypeOK
  <2>4. DisputesAreSound'
    BY <2>1 DEF DisputesAreSound
  <2>5. EventsTellResolutions'
    BY <2>1, ResolutionsDiffer DEF EventsTellResolutions, DisputesTypeOK, EventType
  <2> QED
    BY <2>2, <2>3, <2>4, <2>5
<1>3. ASSUME NEW j \in Judges, NEW d \in DisputeIds, LooksToResolve(j, d) \/ LooksToClose(j, d)
      PROVE  DisputesInv'
  <2>1. PICK at \in {"resolving", "closing"} :
          /\ judge' = [judge EXCEPT ![j] = [at |-> at, holds |-> {d}]]
          /\ at = "resolving" => dispute[d].status = "OPEN"
          /\ at = "closing" => dispute[d].status \in {"OPEN", "RESOLVED"}
    BY <1>3 DEF LooksToResolve, LooksToClose
  <2>2. /\ Unlocked(d) /\ judge[j].at = "idle"
        /\ UNCHANGED <<dispute, overdue, announced>>
    BY <1>3 DEF LooksToResolve, LooksToClose
  <2>3. /\ \A k \in Judges : k # j => judge'[k] = judge[k]
        /\ judge'[j].at = at /\ judge'[j].holds = {d}
    BY <2>1 DEF DisputesTypeOK
  <2>4. DisputesTypeOK'
    BY <2>1, <2>2 DEF DisputesTypeOK
  <2>5. LocksAreSound'
    BY <2>1, <2>2, <2>3 DEF LocksAreSound, Unlocked
  <2> QED
    BY <2>2, <2>4, <2>5 DEF DisputesAreSound, EventsTellResolutions
<1>4. ASSUME NEW j \in Judges, NEW resolution \in Resolutions, Resolves(j, resolution)
      PROVE  DisputesInv'
  <2>1. PICK d \in judge[j].holds :
          /\ dispute' = [dispute EXCEPT ![d].status = "RESOLVED", ![d].resolution = resolution]
          /\ announced' =
               IF Published(resolution)
               THEN announced \cup
                      {[dispute |-> d, booking |-> dispute[d].booking, resolution |-> resolution]}
               ELSE announced
    BY <1>4 DEF Resolves
  <2>2. judge[j].at = "resolving" /\ judge' = [judge EXCEPT ![j] = IdleJudge] /\ UNCHANGED overdue
    BY <1>4 DEF Resolves
  <2>3. /\ d \in DisputeIds /\ judge[j].holds = {d}
        /\ dispute[d].status = "OPEN" /\ dispute[d].resolution = NoResolution
        /\ dispute[d].booking \in DisputedBookings
    BY <2>2 DEF LocksAreSound, DisputesAreSound
  <2>4. /\ \A x \in DisputeIds : x # d => dispute'[x] = dispute[x]
        /\ dispute'[d].status = "RESOLVED" /\ dispute'[d].resolution = resolution
        /\ dispute'[d].booking = dispute[d].booking
        /\ dispute' \in [DisputeIds -> DisputeType]
    <3>1. dispute \in [DisputeIds -> DisputeType] /\ resolution \in Resolutions
      BY DEF DisputesTypeOK
    <3>2. dispute[d] \in DisputeType
      BY <2>3, <3>1
    <3>3. [[dispute[d] EXCEPT !.status = "RESOLVED"] EXCEPT !.resolution = resolution]
            \in DisputeType
      BY <3>1, <3>2 DEF DisputeType
    <3>4. dispute' = [dispute EXCEPT ![d] =
            [[dispute[d] EXCEPT !.status = "RESOLVED"] EXCEPT !.resolution = resolution]]
      BY <2>1, <2>3, <3>1, <3>2 DEF DisputeType
    <3> QED
      BY <2>3, <3>1, <3>2, <3>3, <3>4 DEF DisputeType
  <2>5. LocksAreSound' /\ judge' \in [Judges -> [at : {"idle", "resolving", "closing"},
                                                 holds : SUBSET DisputeIds]]
    BY <2>2, <2>3, <2>4, JudgeRests
  <2>6. announced' \in SUBSET EventType
    BY <2>1, <2>3 DEF DisputesTypeOK, EventType, Published
  <2>7. DisputesAreSound'
    BY <2>3, <2>4 DEF DisputesAreSound
  <2>8. EventsTellResolutions'
    <3>1. \A e \in announced : e.dispute # d
      BY <2>3, ResolutionsDiffer DEF EventsTellResolutions, DisputesTypeOK, EventType
    <3>2. \A e \in announced : dispute'[e.dispute].resolution = e.resolution
      BY <2>4, <3>1 DEF EventsTellResolutions, DisputesTypeOK, EventType
    <3>3. ASSUME NEW x \in DisputeIds, x # d, dispute'[x].resolution \in PaymentResolutions
          PROVE  \E e \in announced' : e.dispute = x
      BY <2>1, <2>4, <3>3 DEF EventsTellResolutions
    <3>4. CASE Published(resolution)
      <4>1. announced' = announced \cup
              {[dispute |-> d, booking |-> dispute[d].booking, resolution |-> resolution]}
        BY <2>1, <3>4
      <4>2. \A e \in announced' : dispute'[e.dispute].resolution = e.resolution
        BY <2>4, <3>2, <4>1
      <4>3. \E e \in announced' : e.dispute = d
        <5> DEFINE announcement == [dispute |-> d, booking |-> dispute[d].booking,
                                    resolution |-> resolution]
        <5>1. announcement \in announced' /\ announcement.dispute = d
          BY <4>1
        <5> QED
          BY <5>1
      <4> QED
        BY <3>3, <4>2, <4>3 DEF EventsTellResolutions
    <3>5. CASE ~Published(resolution)
      BY <2>1, <2>4, <3>2, <3>3, <3>5 DEF EventsTellResolutions, Published
    <3> QED
      BY <3>4, <3>5
  <2> QED
    BY <2>2, <2>4, <2>5, <2>6, <2>7, <2>8 DEF DisputesTypeOK
<1>5. ASSUME NEW j \in Judges, Closes(j) PROVE DisputesInv'
  <2>1. PICK d \in judge[j].holds : dispute' = [dispute EXCEPT ![d].status = "CLOSED"]
    BY <1>5 DEF Closes
  <2>2. /\ judge[j].at = "closing" /\ judge' = [judge EXCEPT ![j] = IdleJudge]
        /\ UNCHANGED <<overdue, announced>>
    BY <1>5 DEF Closes
  <2>3. d \in DisputeIds /\ judge[j].holds = {d} /\ dispute[d].status \in {"OPEN", "RESOLVED"}
    BY <2>2 DEF LocksAreSound
  <2>4. /\ \A x \in DisputeIds : x # d => dispute'[x] = dispute[x]
        /\ dispute'[d].status = "CLOSED"
        /\ dispute'[d].resolution = dispute[d].resolution
        /\ dispute'[d].booking = dispute[d].booking
        /\ dispute' \in [DisputeIds -> DisputeType]
    BY <2>1, <2>3 DEF DisputesTypeOK, DisputeType
  <2>5. LocksAreSound' /\ judge' \in [Judges -> [at : {"idle", "resolving", "closing"},
                                                 holds : SUBSET DisputeIds]]
    BY <2>2, <2>3, <2>4, JudgeRests
  <2>6. DisputesAreSound'
    BY <2>3, <2>4 DEF DisputesAreSound
  <2>7. EventsTellResolutions'
    BY <2>2, <2>4 DEF EventsTellResolutions, DisputesTypeOK, EventType
  <2> QED
    BY <2>2, <2>4, <2>5, <2>6, <2>7 DEF DisputesTypeOK
<1>6. ASSUME NEW j \in Judges, RollsBack(j) PROVE DisputesInv'
  BY <1>6, JudgeRests DEF RollsBack, DisputesTypeOK, DisputesAreSound, EventsTellResolutions
<1>7. CASE UNCHANGED disputeVars
  BY <1>7
  DEF disputeVars, DisputesTypeOK, LocksAreSound, DisputesAreSound, EventsTellResolutions
<1> QED
  BY <1>1, <1>2, <1>3, <1>4, <1>5, <1>6, <1>7, DisputesCases

-----------------------------------------------------------------------------
(* The theorems                                                            *)

\* Types, locks, rows and events are sound.
THEOREM DisputesInvariant == DisputesSpec => []DisputesInv
  BY DisputesInitInv, DisputesStep, PTL DEF DisputesSpec

\* payments-service hears once of a resolution about money, and hears what the
\* dispute says, for any number of moderators at once.
THEOREM ResolutionsAreTold == DisputesSpec => []EventsTellResolutions
<1>1. DisputesInv => EventsTellResolutions
  BY DEF DisputesInv
<1> QED
  BY <1>1, DisputesInvariant, PTL

\* Nothing touches a closed dispute.
THEOREM ClosedStaysClosed == DisputesSpec => ClosedIsFinal
<1>1. ASSUME DisputesInv, [DisputesNext]_disputeVars
      PROVE  [\A d \in DisputeIds :
                dispute[d].status = "CLOSED" => dispute'[d] = dispute[d]]_disputeVars
  <2> USE <1>1 DEF DisputesInv, DisputesTypeOK
  <2> SUFFICES ASSUME NEW d \in DisputeIds, dispute[d].status = "CLOSED"
               PROVE  dispute'[d] = dispute[d]
    OBVIOUS
  <2>1. ASSUME NEW j \in Judges, d \in judge[j].holds PROVE FALSE
    <3>1. judge[j].at # "idle"
      BY <2>1 DEF LocksAreSound
    <3> QED
      BY <2>1, <3>1 DEF LocksAreSound
  <2>2. ASSUME NEW j \in Judges, (\E r \in Resolutions : Resolves(j, r)) \/ Closes(j)
        PROVE  dispute'[d] = dispute[d]
    BY <2>1, <2>2 DEF Resolves, Closes
  <2>3. ASSUME NEW c \in DisputeIds, NEW b \in DisputedBookings, CreatesDispute(c, b)
        PROVE  dispute'[d] = dispute[d]
    BY <2>3 DEF CreatesDispute
  <2> QED
    BY <2>2, <2>3, DisputesCases
    DEF DeadlinePasses, LooksToResolve, LooksToClose, RollsBack, disputeVars
<1> QED
  BY <1>1, DisputesInvariant, PTL DEF DisputesSpec, ClosedIsFinal

-----------------------------------------------------------------------------
(* Commands: what moderators order and services poll.                      *)

\* A moderator gave the command.
Made(c) == command[c].status # "NONE"

\* A command that was made names what it is about. None is ever over: no
\* acknowledgement is recorded.
RowsAreSound ==
  \A c \in Commands :
    /\ command[c].status \in {"NONE", "PENDING"}
    /\ Made(c) => command[c].kind \in Kinds
    /\ command[c].kind \in {"BAN_USER", "UNBAN_USER"} => command[c].target \in Accounts
    /\ command[c].kind = "CANCEL_TRIP" => command[c].target \in Trips
    /\ ~Made(c) => command[c].target = NoAccount

\* Commands are made in the order of their ids.
Ordered == \A c, d \in Commands : d < c /\ Made(c) => Made(d)

\* What an instance with this batch has ahead of it.
AheadIn(batch, c) == c \in batch.todo \/ (batch.at = "writing" /\ batch.command = c)

\* An instance has of the oldest commands of its service only, and takes them in order.
BatchIsSound(w, batch) ==
  /\ batch.at \in {"idle", "ticking"} => batch.command = NoCommand
  /\ batch.at \in {"writing", "acking"} => batch.command \in Commands
  /\ batch.at = "idle" => batch.todo = {}
  /\ \A c \in Commands : c \in batch.todo \cup {batch.command} => c \in Pending(ServiceOf[w])
  /\ batch.at = "writing" =>
       /\ command[batch.command].kind \in {"BAN_USER", "UNBAN_USER"}
       /\ \A c \in batch.todo : batch.command < c

BatchesAreSound == \A w \in Workers : BatchIsSound(w, worker[w])

\* Only what polls hand out is carried out, and polls hand it out again.
DoneAreHandedOut == \A c \in done : c \in Pending(TargetService(command[c].kind))

\* A trip that was cancelled stays so.
TripsStayCancelled ==
  \A c \in done : command[c].kind = "CANCEL_TRIP" => command[c].target \in cancelled

\* Two commands about one user, d the earlier one.
Undoes(d, c) ==
  /\ d < c
  /\ command[d].target = command[c].target
  /\ command[d].kind # "CANCEL_TRIP" /\ command[c].kind # "CANCEL_TRIP"

\* Whoever is about to undo the last command on a user has that command to do after it.
LastComesAfter ==
  \A c \in done : LastOn(c) =>
    \A w \in Workers, d \in Commands : Undoes(d, c) /\ Ahead(w, d) => c \in worker[w].todo

\* The inductive invariant.
CommandsInv ==
  /\ CommandsTypeOK
  /\ registered \in SUBSET Accounts /\ banned \in SUBSET registered
  /\ RowsAreSound
  /\ Ordered
  /\ BatchesAreSound
  /\ DoneAreHandedOut
  /\ TripsStayCancelled
  /\ LastComesAfter
  /\ LastWordHolds

-----------------------------------------------------------------------------
\* No command at first.
LEMMA CommandsInitInv ==
  ASSUME CommandsInit, SessionsInit
  PROVE  CommandsInv
<1>1. CommandsTypeOK
  BY CommandMaxRetriesAssumption
  DEF CommandsInit, CommandsTypeOK, CommandType, AckType, WorkerType, Targets, IdleWorker
<1>2. registered \in SUBSET Accounts /\ banned \in SUBSET registered
  BY DEF SessionsInit
<1>3. \A c \in Commands :
        /\ command[c].status = "NONE" /\ command[c].kind = NoKind /\ command[c].target = NoAccount
        /\ ~Made(c)
  BY DEF CommandsInit, Made
<1>4. RowsAreSound /\ Ordered
  BY <1>3 DEF RowsAreSound, Ordered, NoKind
<1>5. BatchesAreSound
  BY CommandsAssumption DEF CommandsInit, BatchesAreSound, BatchIsSound, IdleWorker
<1>6. DoneAreHandedOut /\ TripsStayCancelled /\ LastComesAfter /\ LastWordHolds
  BY DEF CommandsInit, DoneAreHandedOut, TripsStayCancelled, LastComesAfter, LastWordHolds
<1> QED
  BY <1>1, <1>2, <1>4, <1>5, <1>6 DEF CommandsInv

\* A command that is handed out was made, for the service that asks.
LEMMA HandedOutIsMade ==
  ASSUME NEW service, NEW c \in Pending(service)
  PROVE  /\ c \in Commands /\ Made(c)
         /\ TargetService(command[c].kind) = service
  BY DEF Pending, Open, OpenStatuses, Made

\* New commands come after the old ones: what is handed out goes on to be.
LEMMA HandedOutAgain ==
  ASSUME CommandsInv, NEW c \in Commands, ~Made(c), NEW row \in CommandType, row.status = "PENDING",
         command' = [command EXCEPT ![c] = row],
         NEW service, NEW d \in Pending(service)
  PROVE  d \in Pending(service)'
<1> DEFINE open == {e \in Commands : Open(e) /\ TargetService(command[e].kind) = service}
           now == {e \in Commands : Open(e)' /\ TargetService(command'[e].kind) = service}
<1>1. d \in Commands /\ Made(d) /\ d \in open /\ Cardinality({e \in open : e < d}) < FetchLimit
  BY DEF Pending, Open, OpenStatuses, Made
<1>2. \A e \in Commands \ {c} : command'[e] = command[e]
  BY DEF CommandsInv, CommandsTypeOK
<1>3. ~(c < d) /\ d # c
  BY <1>1 DEF CommandsInv, Ordered
<1>4. \A e \in Commands \ {c} : e \in now <=> e \in open
  BY <1>2 DEF Open
<1>5. {e \in now : e < d} = {e \in open : e < d}
  BY <1>3, <1>4
<1>6. d \in now
  BY <1>1, <1>3, <1>4
<1> HIDE DEF open, now
<1>7. Cardinality({e \in now : e < d}) < FetchLimit
  BY <1>1, <1>5
<1> QED
  BY <1>6, <1>7 DEF Pending, now

\* Moderators.
LEMMA OrdersKeeps ==
  ASSUME CommandsInv, NEW c \in Commands, NEW kind \in Kinds, NEW target \in Targets,
         target \in IF kind = "CANCEL_TRIP" THEN Trips ELSE Accounts,
         Orders(c, kind, target)
  PROVE  CommandsInv'
<1> DEFINE row == [status |-> "PENDING", kind |-> kind, target |-> target, tries |-> 0]
<1>1. /\ command' = [command EXCEPT ![c] = row]
      /\ ~Made(c)
      /\ \A d \in Commands : d < c => Made(d)
      /\ UNCHANGED <<cancelled, worker, acks, done, registered, banned>>
  BY DEF Orders, sessionVars, Made
<1>2. command \in [Commands -> CommandType] /\ row \in CommandType
  BY CommandMaxRetriesAssumption DEF CommandsInv, CommandsTypeOK, CommandType, OpenStatuses
<1>3. /\ command'[c] = row
      /\ \A d \in Commands \ {c} : command'[d] = command[d]
      /\ command' \in [Commands -> CommandType]
  BY <1>1, <1>2
<1>4. /\ Made(c)' /\ command'[c].kind = kind /\ command'[c].target = target
      /\ command'[c].status = "PENDING"
      /\ \A d \in Commands \ {c} :
           /\ Made(d)' <=> Made(d)
           /\ InPlace(d)' <=> InPlace(d)
  BY <1>1, <1>3 DEF Made, InPlace
<1>5. \A service : \A d \in Pending(service) : d \in Pending(service)' /\ d # c
  BY <1>1, <1>2, HandedOutAgain, HandedOutIsMade
<1>6. \A w \in Workers, d \in Commands : Ahead(w, d)' <=> Ahead(w, d)
  BY <1>1 DEF Ahead
<1>7. \A d \in done : d \in Commands /\ Made(d) /\ d # c /\ command'[d] = command[d]
  BY <1>1, <1>3, HandedOutIsMade DEF CommandsInv, CommandsTypeOK, DoneAreHandedOut
<1>8. \A w \in Workers, d \in Commands : Ahead(w, d) => Made(d) /\ d # c
  BY <1>1, HandedOutIsMade DEF CommandsInv, BatchesAreSound, BatchIsSound, Ahead
<1>9. CommandsTypeOK'
  BY <1>1, <1>3 DEF CommandsInv, CommandsTypeOK
<1>10. RowsAreSound'
  BY <1>3, <1>4 DEF CommandsInv, RowsAreSound, Kinds
<1>11. Ordered'
  BY <1>1, <1>4, CommandsAssumption DEF CommandsInv, Ordered
<1>12. BatchesAreSound'
  <2> SUFFICES ASSUME NEW w \in Workers
               PROVE  BatchIsSound(w, worker[w])'
    BY DEF BatchesAreSound
  <2>1. BatchIsSound(w, worker[w])
    BY DEF CommandsInv, BatchesAreSound
  <2>2. worker[w].at = "writing" =>
          command'[worker[w].command].kind \in {"BAN_USER", "UNBAN_USER"}
    <3> HAVE worker[w].at = "writing"
    <3>1. worker[w].command \in Commands \ {c}
      BY <2>1, <1>8 DEF BatchIsSound, Ahead
    <3> QED
      BY <3>1, <2>1, <1>3 DEF BatchIsSound
  <2> QED
    BY <2>1, <2>2, <1>1, <1>5 DEF BatchIsSound
<1>13. DoneAreHandedOut' /\ TripsStayCancelled'
  BY <1>1, <1>5, <1>7 DEF CommandsInv, DoneAreHandedOut, TripsStayCancelled
<1>14. \A d \in done : LastOn(d)' => LastOn(d) \/ command[d].kind = "CANCEL_TRIP"
  <2> SUFFICES ASSUME NEW d \in done, LastOn(d)', command[d].kind # "CANCEL_TRIP"
               PROVE  LastOn(d)
    OBVIOUS
  <2>1. command[d].target # NoAccount
    BY <1>7, NoAccountAssumption DEF CommandsInv, RowsAreSound, Kinds
  <2>2. command[c].target = NoAccount
    BY <1>1 DEF CommandsInv, RowsAreSound
  <2> QED
    BY <2>1, <2>2, <1>3, <1>7 DEF LastOn, Made
<1>15. LastComesAfter'
  <2> SUFFICES ASSUME NEW d \in done, LastOn(d)', NEW w \in Workers, NEW e \in Commands,
                      Undoes(e, d)', Ahead(w, e)
               PROVE  d \in worker[w].todo
    BY <1>1, <1>6 DEF LastComesAfter
  <2>1. Undoes(e, d) /\ command[d].kind # "CANCEL_TRIP"
    BY <1>3, <1>7, <1>8 DEF Undoes
  <2> QED
    BY <2>1, <1>14 DEF CommandsInv, LastComesAfter
<1>16. LastWordHolds'
  <2> SUFFICES ASSUME NEW d \in done, LastOn(d)', command'[d].target \notin Accounts \ registered,
                      \A w \in Workers : ~Ahead(w, d)'
               PROVE  InPlace(d)'
    BY <1>1 DEF LastWordHolds
  <2>1. CASE command[d].kind = "CANCEL_TRIP"
    BY <2>1, <1>4, <1>7 DEF CommandsInv, TripsStayCancelled, InPlace
  <2>2. CASE command[d].kind # "CANCEL_TRIP"
    BY <2>2, <1>4, <1>6, <1>7, <1>14 DEF CommandsInv, LastWordHolds
  <2> QED
    BY <2>1, <2>2
<1> QED
  BY <1>1, <1>9, <1>10, <1>11, <1>12, <1>13, <1>15, <1>16 DEF CommandsInv

\* Every other step leaves the rows as they are. One that moves an instance on keeps
\* the invariant, if the instance has after a command all that it should, if what it
\* carries out is in place, and if what was in place is, or is still to be done.
LEMMA BatchMoves ==
  ASSUME CommandsInv, UNCHANGED <<command, registered>>,
         NEW w \in Workers, NEW new \in WorkerType,
         worker' = [worker EXCEPT ![w] = new],
         BatchIsSound(w, new),
         cancelled \subseteq cancelled', cancelled' \in SUBSET Trips,
         banned' \in SUBSET registered, acks' \in SUBSET AckType,
         \A c \in done' \ done :
           /\ c \in Pending(ServiceOf[w]) /\ ~OlderBatch(w, c)
           /\ InPlace(c)' \/ (command[c].kind # "CANCEL_TRIP" /\ command[c].target \notin registered),
         \A c \in done', d \in Commands :
           LastOn(c) /\ Undoes(d, c) /\ AheadIn(new, d) => c \in new.todo,
         \A c \in done \cap done' :
           /\ Ahead(w, c) =>
                AheadIn(new, c) \/ InPlace(c)'
                \/ (command[c].kind # "CANCEL_TRIP" /\ command[c].target \notin registered)
           /\ LastOn(c) /\ command[c].kind # "CANCEL_TRIP" /\ InPlace(c)
                => InPlace(c)' \/ \E v \in Workers : Ahead(v, c)'
  PROVE  CommandsInv'
<1>1. worker \in [Workers -> WorkerType] /\ done \in SUBSET Commands
  BY DEF CommandsInv, CommandsTypeOK
<1>2. /\ worker' \in [Workers -> WorkerType]
      /\ \A v \in Workers : worker'[v] = IF v = w THEN new ELSE worker[v]
  BY <1>1
<1>3. /\ \A c \in Commands : Ahead(w, c)' <=> AheadIn(new, c)
      /\ \A v \in Workers \ {w}, c \in Commands : Ahead(v, c)' <=> Ahead(v, c)
  BY <1>2 DEF Ahead, AheadIn
<1>4. /\ RowsAreSound' /\ Ordered'
      /\ \A service : Pending(service)' = Pending(service)
      /\ \A c \in Commands : LastOn(c)' <=> LastOn(c)
      /\ \A c, d \in Commands : Undoes(d, c)' <=> Undoes(d, c)
  BY DEF CommandsInv, RowsAreSound, Ordered, Made, Pending, Open, LastOn, Undoes
<1>5. done' \in SUBSET Commands
  BY <1>1, HandedOutIsMade
<1>6. CommandsTypeOK'
  BY <1>2, <1>5 DEF CommandsInv, CommandsTypeOK
<1>7. BatchesAreSound'
  <2> SUFFICES ASSUME NEW v \in Workers
               PROVE  BatchIsSound(v, worker[v])'
    BY DEF BatchesAreSound
  <2>1. BatchIsSound(v, worker'[v])
    BY <1>2 DEF CommandsInv, BatchesAreSound
  <2> QED
    BY <2>1, <1>4 DEF BatchIsSound
<1>8. DoneAreHandedOut'
  BY <1>4, HandedOutIsMade DEF CommandsInv, DoneAreHandedOut
<1>9. TripsStayCancelled'
  BY DEF CommandsInv, TripsStayCancelled, InPlace
<1>10. LastComesAfter'
  <2> SUFFICES ASSUME NEW c \in done', LastOn(c), NEW v \in Workers, NEW d \in Commands,
                      Undoes(d, c), Ahead(v, d)'
               PROVE  c \in worker'[v].todo
    BY <1>4, <1>5 DEF LastComesAfter
  <2>1. CASE v = w
    BY <2>1, <1>2, <1>3
  <2>2. CASE v # w /\ c \in done
    BY <2>2, <1>2, <1>3 DEF CommandsInv, LastComesAfter
  <2>3. CASE v # w /\ c \notin done
    BY <2>3, <1>2, <1>3 DEF OlderBatch, Undoes
  <2> QED
    BY <2>1, <2>2, <2>3
<1>11. LastWordHolds'
  <2> SUFFICES ASSUME NEW c \in done', LastOn(c), command[c].target \notin Accounts \ registered,
                      \A v \in Workers : ~Ahead(v, c)'
               PROVE  InPlace(c)'
    BY <1>4, <1>5 DEF LastWordHolds
  <2>0. c \in Commands /\ Made(c)
    BY <1>5 DEF LastOn, Made
  <2>1. CASE command[c].kind = "CANCEL_TRIP"
    BY <2>1, <1>9 DEF TripsStayCancelled, InPlace
  <2>2. CASE command[c].kind # "CANCEL_TRIP"
    <3>1. command[c].target \in registered
      BY <2>0, <2>2 DEF CommandsInv, RowsAreSound, Kinds
    <3>2. CASE c \notin done
      BY <3>1, <3>2
    <3>3. CASE c \in done /\ Ahead(w, c)
      BY <2>0, <3>1, <3>3, <1>3
    <3>4. CASE c \in done /\ ~Ahead(w, c)
      <4>1. \A v \in Workers : ~Ahead(v, c)
        BY <2>0, <3>4, <1>3
      <4>2. InPlace(c)
        BY <3>4, <4>1 DEF CommandsInv, LastWordHolds
      <4> QED
        BY <2>2, <3>4, <4>2
    <3> QED
      BY <3>2, <3>3, <3>4
  <2> QED
    BY <2>1, <2>2
<1> QED
  BY <1>4, <1>6, <1>7, <1>8, <1>9, <1>10, <1>11 DEF CommandsInv

\* A poll that is answered: whatever could undo what is done comes with it.
LEMMA FetchesKeeps ==
  ASSUME CommandsInv, NEW w \in Workers, Fetches(w)
  PROVE  CommandsInv'
<1> DEFINE open == Pending(ServiceOf[w])
           new == [worker[w] EXCEPT !.at = "ticking", !.todo = open]
<1>1. /\ worker[w].at = "idle"
      /\ worker' = [worker EXCEPT ![w].at = "ticking", ![w].todo = open]
      /\ UNCHANGED <<command, cancelled, acks, done, registered, banned>>
  BY DEF Fetches, sessionVars
<1>2. worker \in [Workers -> WorkerType] /\ worker[w] \in WorkerType
  BY DEF CommandsInv, CommandsTypeOK
<1>3. open \subseteq Commands
  BY DEF Pending
<1>4. worker[w].command = NoCommand /\ worker[w].todo = {}
  BY <1>1 DEF CommandsInv, BatchesAreSound, BatchIsSound
<1> HIDE DEF open
<1>5. /\ new \in WorkerType
      /\ new.at = "ticking" /\ new.todo = open /\ new.command = NoCommand
  BY <1>2, <1>3, <1>4 DEF WorkerType
<1>6. worker' = [worker EXCEPT ![w] = new]
  BY <1>1, <1>2
<1> HIDE DEF new
<1>7. BatchIsSound(w, new)
  BY <1>5, CommandsAssumption DEF BatchIsSound, open
<1>8. \A c \in done, d \in Commands : Undoes(d, c) /\ AheadIn(new, d) => c \in new.todo
  <2> SUFFICES ASSUME NEW c \in done, NEW d \in open, Undoes(d, c)
               PROVE  c \in open
    BY <1>5 DEF AheadIn
  <2>1. TargetService(command[d].kind) = ServiceOf[w]
    BY HandedOutIsMade DEF open
  <2>2. TargetService(command[c].kind) = ServiceOf[w]
    BY <2>1 DEF Undoes, TargetService
  <2> QED
    BY <2>2 DEF CommandsInv, DoneAreHandedOut, open
<1>9. \A c \in Commands : (InPlace(c)' <=> InPlace(c)) /\ ~Ahead(w, c)
  BY <1>1, <1>4 DEF InPlace, Ahead
<1>10. /\ cancelled \in SUBSET Trips /\ banned \in SUBSET registered /\ acks \in SUBSET AckType
       /\ done \in SUBSET Commands
  BY DEF CommandsInv, CommandsTypeOK
<1> QED
  BY <1>1, <1>5, <1>6, <1>7, <1>8, <1>9, <1>10, BatchMoves

\* The instance has taken up a command, the first of its batch, and that is ahead of it
\* or done; what is after it is left.
LEMMA TakesUpSoundly ==
  ASSUME CommandsInv, NEW w \in Workers, NEW c \in Commands,
         NEW at \in {"writing", "acking"}, NEW status \in {"APPLIED", "FAILED_RETRY"},
         \/ worker[w].at = "ticking" /\ First(w, c)
         \/ worker[w].at = "writing" /\ c = worker[w].command,
         at = "writing" =>
           worker[w].at = "ticking" /\ command[c].kind \in {"BAN_USER", "UNBAN_USER"},
         NEW new,
         new = [at |-> at, todo |-> worker[w].todo \ {c}, command |-> c, status |-> status]
  PROVE  /\ new \in WorkerType /\ BatchIsSound(w, new)
         /\ new.at = at /\ new.todo = worker[w].todo \ {c} /\ new.command = c
         /\ c \in Pending(ServiceOf[w]) /\ Ahead(w, c)
         /\ \A d \in worker[w].todo : c <= d
         /\ \A d \in Commands : AheadIn(new, d) => Ahead(w, d) /\ c <= d
         /\ \A d \in Commands : Ahead(w, d) => AheadIn(new, d) \/ d = c
<1>1. worker[w] \in WorkerType /\ BatchIsSound(w, worker[w])
  BY DEF CommandsInv, CommandsTypeOK, BatchesAreSound
<1>2. new \in WorkerType
  BY <1>1 DEF WorkerType
<1>3. new.at = at /\ new.todo = worker[w].todo \ {c} /\ new.command = c
  OBVIOUS
<1>4. c \in Pending(ServiceOf[w]) /\ Ahead(w, c)
  BY <1>1 DEF BatchIsSound, First, Ahead
<1>5. worker[w].todo \subseteq Commands /\ Commands \subseteq Nat
  BY <1>1, CommandsAssumption DEF WorkerType
<1>6. \A d \in worker[w].todo : c <= d
  BY <1>1, <1>5 DEF BatchIsSound, First
<1>7. BatchIsSound(w, new)
  <2>1. at = "writing" => \A d \in worker[w].todo \ {c} : c < d
    BY <1>5, <1>6
  <2>2. \A d \in Commands : d \in (worker[w].todo \ {c}) \cup {c} => d \in Pending(ServiceOf[w])
    BY <1>1, <1>4 DEF BatchIsSound
  <2> QED
    BY <2>1, <2>2, <1>3 DEF BatchIsSound
<1>8. \A d \in Commands : AheadIn(new, d) => Ahead(w, d) /\ c <= d
  BY <1>3, <1>4, <1>5, <1>6 DEF AheadIn, Ahead
<1>9. \A d \in Commands : Ahead(w, d) => AheadIn(new, d) \/ d = c
  BY <1>1, <1>3, CommandsAssumption DEF AheadIn, Ahead, BatchIsSound
<1> QED
  BY <1>2, <1>3, <1>4, <1>6, <1>7, <1>8, <1>9

\* An instance that carries a command out, or finds it so.
LEMMA TakesUpKeeps ==
  ASSUME CommandsInv, NEW w \in Workers, NEW c \in Commands,
         NEW at \in {"writing", "acking"}, NEW status \in {"APPLIED", "FAILED_RETRY"},
         \/ worker[w].at = "ticking" /\ First(w, c)
         \/ worker[w].at = "writing" /\ c = worker[w].command,
         at = "writing" =>
           worker[w].at = "ticking" /\ command[c].kind \in {"BAN_USER", "UNBAN_USER"},
         UNCHANGED <<command, acks, registered>>,
         TakesUp(w, c, at, status),
         cancelled \subseteq cancelled', cancelled' \in SUBSET Trips, banned' \in SUBSET registered,
         done' \subseteq done \cup {c},
         at = "writing" => done' \subseteq done,
         c \in done' /\ at = "acking" =>
           \/ InPlace(c)'
           \/ command[c].kind # "CANCEL_TRIP" /\ command[c].target \notin registered,
         c \in done' \ done => ~OlderBatch(w, c),
         \A d \in done : d # c /\ LastOn(d) /\ command[d].kind # "CANCEL_TRIP" /\ InPlace(d)
                           => InPlace(d)' \/ d \in worker[w].todo
  PROVE  CommandsInv'
<1> DEFINE new == [at |-> at, todo |-> worker[w].todo \ {c}, command |-> c, status |-> status]
<1>1. worker' = [worker EXCEPT ![w] = new] /\ worker \in [Workers -> WorkerType]
  BY DEF TakesUp, CommandsInv, CommandsTypeOK
<1>2. /\ new \in WorkerType /\ BatchIsSound(w, new)
      /\ new.at = at /\ new.todo = worker[w].todo \ {c} /\ new.command = c
      /\ c \in Pending(ServiceOf[w]) /\ Ahead(w, c)
      /\ \A d \in worker[w].todo : c <= d
      /\ \A d \in Commands : AheadIn(new, d) => Ahead(w, d) /\ c <= d
      /\ \A d \in Commands : Ahead(w, d) => AheadIn(new, d) \/ d = c
  BY TakesUpSoundly
<1> HIDE DEF new
<1>3. worker'[w] = new /\ \A d \in Commands : Ahead(w, d)' <=> AheadIn(new, d)
  BY <1>1 DEF Ahead, AheadIn
<1>4. \A d \in done', e \in Commands : LastOn(d) /\ Undoes(e, d) /\ AheadIn(new, e) => d \in new.todo
  <2> SUFFICES ASSUME NEW d \in done', NEW e \in Commands, LastOn(d), Undoes(e, d), AheadIn(new, e)
               PROVE  d \in new.todo
    OBVIOUS
  <2>1. c <= e /\ e < d /\ c \in Nat /\ d \in Nat /\ e \in Nat
    BY <1>2, CommandsAssumption DEF Undoes, CommandsInv, CommandsTypeOK
  <2>2. d # c
    BY <2>1
  <2>3. d \in worker[w].todo
    BY <2>2, <1>2 DEF CommandsInv, LastComesAfter
  <2> QED
    BY <2>2, <2>3, <1>2
<1>5. ASSUME NEW d \in done \cap done'
      PROVE  /\ Ahead(w, d) =>
                  AheadIn(new, d) \/ InPlace(d)'
                  \/ (command[d].kind # "CANCEL_TRIP" /\ command[d].target \notin registered)
             /\ LastOn(d) /\ command[d].kind # "CANCEL_TRIP" /\ InPlace(d)
                  => InPlace(d)' \/ \E v \in Workers : Ahead(v, d)'
  <2>0. d \in Commands
    BY DEF CommandsInv, CommandsTypeOK
  <2>1. CASE d # c
    <3>1. d \in worker[w].todo => Ahead(w, d)'
      BY <2>0, <2>1, <1>2, <1>3 DEF AheadIn
    <3> QED
      BY <2>0, <2>1, <3>1, <1>2
  <2>2. CASE d = c /\ at = "writing"
    BY <2>2, <1>2, <1>3 DEF AheadIn
  <2>3. CASE d = c /\ at = "acking"
    <3>1. command[d].kind # "CANCEL_TRIP" => command[d].kind \in {"BAN_USER", "UNBAN_USER"}
      BY <2>0, HandedOutIsMade DEF CommandsInv, DoneAreHandedOut, RowsAreSound, Kinds
    <3>2. banned \subseteq registered /\ banned' \subseteq registered
      BY DEF CommandsInv
    <3>3. command[d].kind # "CANCEL_TRIP" /\ command[d].target \notin registered /\ InPlace(d)
            => InPlace(d)'
      BY <3>1, <3>2 DEF InPlace
    <3> QED
      BY <2>3, <3>3
  <2> QED
    BY <2>1, <2>2, <2>3
<1>6. acks \in SUBSET AckType
  BY DEF CommandsInv, CommandsTypeOK
<1> QED
  BY <1>1, <1>2, <1>4, <1>5, <1>6, BatchMoves

\* What the command asks for is in place, or its user is unknown.
LEMMA FindsInPlaceKeeps ==
  ASSUME CommandsInv, NEW w \in Workers, NEW c \in Commands, FindsInPlace(w, c)
  PROVE  CommandsInv'
<1>1. /\ worker[w].at = "ticking" /\ First(w, c)
      /\ InPlace(c) \/ (command[c].kind # "CANCEL_TRIP" /\ command[c].target \notin registered)
      /\ TakesUp(w, c, "acking", "APPLIED")
      /\ done' = IF OlderBatch(w, c) THEN done ELSE done \cup {c}
      /\ UNCHANGED <<command, cancelled, acks, registered, banned>>
  BY DEF FindsInPlace, Completes, sessionVars
<1>2. cancelled \in SUBSET Trips /\ banned \in SUBSET registered
  BY DEF CommandsInv, CommandsTypeOK
<1>3. \A d \in Commands : InPlace(d)' <=> InPlace(d)
  BY <1>1 DEF InPlace
<1>4. done \in SUBSET Commands
  BY DEF CommandsInv, CommandsTypeOK
<1> QED
  BY <1>1, <1>2, <1>3, <1>4, TakesUpKeeps

\* The user is read, to be written next.
LEMMA FindsUserKeeps ==
  ASSUME CommandsInv, NEW w \in Workers, NEW c \in Commands, FindsUser(w, c)
  PROVE  CommandsInv'
<1>1. /\ worker[w].at = "ticking" /\ First(w, c)
      /\ command[c].kind # "CANCEL_TRIP"
      /\ TakesUp(w, c, "writing", "APPLIED")
      /\ UNCHANGED <<command, cancelled, acks, done, registered, banned>>
  BY DEF FindsUser, sessionVars
<1>2. cancelled \in SUBSET Trips /\ banned \in SUBSET registered /\ done \in SUBSET Commands
  BY DEF CommandsInv, CommandsTypeOK
<1>3. Made(c)
  BY <1>1, HandedOutIsMade DEF CommandsInv, BatchesAreSound, BatchIsSound, First
<1>4. command[c].kind \in {"BAN_USER", "UNBAN_USER"}
  BY <1>1, <1>3 DEF CommandsInv, RowsAreSound, Kinds
<1>5. \A d \in Commands : InPlace(d)' <=> InPlace(d)
  BY <1>1 DEF InPlace
<1> QED
  BY <1>1, <1>2, <1>4, <1>5, TakesUpKeeps

\* A trip is cancelled.
LEMMA CancelsTripKeeps ==
  ASSUME CommandsInv, NEW w \in Workers, NEW c \in Commands, CancelsTrip(w, c)
  PROVE  CommandsInv'
<1>1. /\ worker[w].at = "ticking" /\ First(w, c)
      /\ command[c].kind = "CANCEL_TRIP"
      /\ TakesUp(w, c, "acking", "APPLIED")
      /\ cancelled' = cancelled \cup {command[c].target}
      /\ done' = IF OlderBatch(w, c) THEN done ELSE done \cup {c}
      /\ UNCHANGED <<command, acks, registered, banned>>
  BY DEF CancelsTrip, Completes, sessionVars
<1>2. cancelled \in SUBSET Trips /\ banned \in SUBSET registered /\ done \in SUBSET Commands
  BY DEF CommandsInv, CommandsTypeOK
<1>3. command[c].target \in Trips
  BY <1>1 DEF CommandsInv, RowsAreSound
<1>4. \A d \in done : Made(d)
  BY HandedOutIsMade DEF CommandsInv, DoneAreHandedOut
<1>5. /\ \A d \in done : InPlace(d) => InPlace(d)'
      /\ InPlace(c)'
  BY <1>1, <1>2, <1>4 DEF InPlace, Kinds, CommandsInv, RowsAreSound
<1> QED
  BY <1>1, <1>2, <1>3, <1>5, TakesUpKeeps

\* An attempt fails: nothing is done, and it is not sure that it ever was.
LEMMA FailsToApplyKeeps ==
  ASSUME CommandsInv, NEW w \in Workers, NEW c \in Commands, FailsToApply(w, c)
  PROVE  CommandsInv'
<1>1. /\ \/ worker[w].at = "ticking" /\ First(w, c)
         \/ worker[w].at = "writing" /\ c = worker[w].command
      /\ TakesUp(w, c, "acking", "FAILED_RETRY")
      /\ done' = done \ {c}
      /\ UNCHANGED <<command, cancelled, acks, registered, banned>>
  BY DEF FailsToApply, FailureStatus, sessionVars
<1>2. cancelled \in SUBSET Trips /\ banned \in SUBSET registered /\ done \in SUBSET Commands
  BY DEF CommandsInv, CommandsTypeOK
<1>3. \A d \in Commands : InPlace(d)' <=> InPlace(d)
  BY <1>1 DEF InPlace
<1> QED
  BY <1>1, <1>2, <1>3, TakesUpKeeps

\* The user's row is written. If that undoes the last command on the user, the
\* instance has that one still to do.
LEMMA WritesUserKeeps ==
  ASSUME CommandsInv, NEW w \in Workers, WritesUser(w)
  PROVE  CommandsInv'
<1>0. PICK c \in Commands : c = worker[w].command
  BY DEF CommandsInv, BatchesAreSound, BatchIsSound, WritesUser
<1> DEFINE a == command[c].target
<1>1. /\ worker[w].at = "writing"
      /\ worker' = [worker EXCEPT ![w].at = "acking"]
      /\ done' = IF OlderBatch(w, c) THEN done ELSE done \cup {c}
      /\ UNCHANGED <<command, cancelled, acks, registered>>
      /\ \/ command[c].kind = "BAN_USER" /\ a \in registered /\ banned' = banned \cup {a}
         \/ command[c].kind = "UNBAN_USER" /\ a \in registered /\ banned' = banned \ {a}
  BY <1>0 DEF WritesUser, Completes, Bans, Unbans
<1>2. worker \in [Workers -> WorkerType] /\ worker[w] \in WorkerType
  BY DEF CommandsInv, CommandsTypeOK
<1>3. c \notin worker[w].todo /\ worker[w].todo \subseteq Commands
  BY <1>0, <1>1, <1>2, CommandsAssumption
  DEF CommandsInv, BatchesAreSound, BatchIsSound, WorkerType
<1>4. TakesUp(w, c, "acking", worker[w].status) /\ worker[w].status \in {"APPLIED", "FAILED_RETRY"}
  <2>1. worker[w].todo \ {c} = worker[w].todo
    BY <1>3
  <2>2. [worker[w] EXCEPT !.at = "acking"]
          = [at |-> "acking", todo |-> worker[w].todo, command |-> c, status |-> worker[w].status]
    BY <1>0, <1>2 DEF WorkerType
  <2>3. worker' = [worker EXCEPT ![w] = [worker[w] EXCEPT !.at = "acking"]]
    BY <1>1
  <2> QED
    BY <2>1, <2>2, <2>3, <1>2 DEF TakesUp, WorkerType
<1>5. cancelled \in SUBSET Trips /\ banned' \in SUBSET registered /\ done \in SUBSET Commands
  BY <1>1 DEF CommandsInv, CommandsTypeOK
<1>6. InPlace(c)'
  BY <1>1 DEF InPlace
<1>7. ASSUME NEW d \in done, d # c, LastOn(d), command[d].kind # "CANCEL_TRIP", InPlace(d)
      PROVE  InPlace(d)' \/ d \in worker[w].todo
  <2>1. d \in Commands /\ Made(d) /\ command[d].kind \in {"BAN_USER", "UNBAN_USER"}
    BY <1>5, <1>7 DEF CommandsInv, RowsAreSound, Kinds, LastOn, Made
  <2>2. CASE command[d].target # a
    BY <2>1, <2>2, <1>1, <1>7 DEF InPlace
  <2>3. CASE command[d].target = a
    <3>1. c < d
      BY <2>1, <2>3, <1>7, CommandsAssumption DEF LastOn
    <3>2. Undoes(c, d) /\ Ahead(w, c)
      BY <2>3, <3>1, <1>0, <1>1, <1>7 DEF Undoes, Ahead
    <3> QED
      BY <3>2, <1>7 DEF CommandsInv, LastComesAfter
  <2> QED
    BY <2>2, <2>3
<1> QED
  BY <1>0, <1>1, <1>4, <1>5, <1>6, <1>7, TakesUpKeeps

\* An instance that goes on, or starts again, has nothing new ahead of it.
LEMMA AcknowledgesKeeps ==
  ASSUME CommandsInv, NEW w \in Workers, Acknowledges(w)
  PROVE  CommandsInv'
<1> DEFINE ack == [command |-> worker[w].command, status |-> worker[w].status]
           more == [IdleWorker EXCEPT !.at = "ticking", !.todo = worker[w].todo]
           new == IF worker[w].todo = {} THEN IdleWorker ELSE more
<1>1. /\ worker[w].at = "acking"
      /\ acks' = acks \cup {ack}
      /\ UNCHANGED <<command, cancelled, done, registered, banned>>
  BY DEF Acknowledges, sessionVars
<1>2. worker \in [Workers -> WorkerType] /\ worker[w] \in WorkerType /\ BatchIsSound(w, worker[w])
  BY DEF CommandsInv, CommandsTypeOK, BatchesAreSound
<1>3. worker' = [worker EXCEPT ![w] = new]
  BY <1>2 DEF Acknowledges, Rest
<1>4. ack \in AckType
  BY <1>1, <1>2 DEF BatchIsSound, AckType, WorkerType
<1>5. more \in WorkerType /\ more.at = "ticking" /\ more.todo = worker[w].todo /\ more.command = NoCommand
  BY <1>2 DEF WorkerType, IdleWorker
<1>6. IdleWorker \in WorkerType /\ IdleWorker.at = "idle" /\ IdleWorker.todo = {} /\ IdleWorker.command = NoCommand
  BY DEF WorkerType, IdleWorker
<1>7. /\ new \in WorkerType
      /\ new.at \in {"idle", "ticking"} /\ new.todo = worker[w].todo /\ new.command = NoCommand
      /\ new.at = "idle" => new.todo = {}
  BY <1>5, <1>6
<1> HIDE DEF new, ack, more
<1>8. BatchIsSound(w, new)
  BY <1>2, <1>7, CommandsAssumption DEF BatchIsSound
<1>9. \A d \in Commands : AheadIn(new, d) <=> Ahead(w, d)
  BY <1>1, <1>7 DEF AheadIn, Ahead
<1>10. \A c \in Commands : InPlace(c)' <=> InPlace(c)
  BY <1>1 DEF InPlace
<1>11. /\ cancelled \in SUBSET Trips /\ banned \in SUBSET registered /\ acks' \in SUBSET AckType
       /\ done \in SUBSET Commands
  BY <1>1, <1>4 DEF CommandsInv, CommandsTypeOK
<1>12. \A c \in done, d \in Commands : LastOn(c) /\ Undoes(d, c) /\ AheadIn(new, d) => c \in new.todo
  BY <1>7, <1>9 DEF CommandsInv, LastComesAfter
<1> QED
  BY <1>1, <1>3, <1>7, <1>8, <1>9, <1>10, <1>11, <1>12, BatchMoves

\* What a crash leaves undone counts as done no more.
LEMMA WorkerCrashesKeeps ==
  ASSUME CommandsInv, NEW w \in Workers, WorkerCrashes(w)
  PROVE  CommandsInv'
<1>1. /\ worker' = [worker EXCEPT ![w] = IdleWorker]
      /\ done' = {c \in done : ~Ahead(w, c)}
      /\ UNCHANGED <<command, cancelled, acks, registered, banned>>
  BY DEF WorkerCrashes, sessionVars
<1>2. IdleWorker \in WorkerType /\ IdleWorker.at = "idle" /\ IdleWorker.todo = {} /\ IdleWorker.command = NoCommand
  BY DEF WorkerType, IdleWorker
<1>3. BatchIsSound(w, IdleWorker)
  BY <1>2, CommandsAssumption DEF BatchIsSound
<1>4. \A d \in Commands : ~AheadIn(IdleWorker, d)
  BY <1>2 DEF AheadIn
<1>5. \A c \in Commands : InPlace(c)' <=> InPlace(c)
  BY <1>1 DEF InPlace
<1>6. /\ cancelled \in SUBSET Trips /\ banned \in SUBSET registered /\ acks \in SUBSET AckType
      /\ done \in SUBSET Commands
  BY DEF CommandsInv, CommandsTypeOK
<1> HIDE DEF IdleWorker
<1> QED
  BY <1>1, <1>2, <1>3, <1>4, <1>5, <1>6, BatchMoves

\* No acknowledgement is recorded: the row has no tryCount to count on from.
LEMMA NothingIsRecorded ==
  ASSUME NEW ack \in acks, RecordsAck(ack)
  PROVE  command' = command
<1>1. DOMAIN Selected(ack.command) = {"status", "try_count"}
  BY DEF Selected
<1>2. NextTry(Selected(ack.command)) = NaN
  BY <1>1 DEF NextTry
<1> QED
  BY <1>2 DEF RecordsAck

\* A step that changes acknowledgements on their way at most.
LEMMA AcksPass ==
  ASSUME CommandsInv, acks' \in SUBSET AckType,
         UNCHANGED <<command, cancelled, worker, done, registered, banned>>
  PROVE  CommandsInv'
<1>1. /\ \A service : Pending(service)' = Pending(service)
      /\ \A c \in Commands : /\ LastOn(c)' <=> LastOn(c)
                             /\ InPlace(c)' <=> InPlace(c)
      /\ \A w \in Workers, c \in Commands : Ahead(w, c)' <=> Ahead(w, c)
      /\ \A c, d \in Commands : Undoes(d, c)' <=> Undoes(d, c)
  BY DEF Pending, Open, LastOn, InPlace, Ahead, Undoes
<1>2. /\ CommandsTypeOK' /\ RowsAreSound' /\ Ordered' /\ TripsStayCancelled'
  BY DEF CommandsInv, CommandsTypeOK, RowsAreSound, Ordered, TripsStayCancelled, Made
<1>3. BatchesAreSound' /\ DoneAreHandedOut'
  BY <1>1 DEF CommandsInv, BatchesAreSound, BatchIsSound, DoneAreHandedOut
<1>4. done \in SUBSET Commands
  BY DEF CommandsInv, CommandsTypeOK
<1>5. LastComesAfter' /\ LastWordHolds'
  BY <1>1, <1>4 DEF CommandsInv, LastComesAfter, LastWordHolds
<1> QED
  BY <1>2, <1>3, <1>5 DEF CommandsInv

\* Every step.
LEMMA CommandsStep ==
  ASSUME CommandsInv, [CommandsNext]_<<commandVars, sessionVars>>
  PROVE  CommandsInv'
<1>0. acks \in SUBSET AckType
  BY DEF CommandsInv, CommandsTypeOK
<1>1. CASE UNCHANGED <<commandVars, sessionVars>>
  BY <1>0, <1>1, AcksPass DEF commandVars, sessionVars
<1>2. CASE \E c \in Commands : \/ \E a \in Accounts : OrdersBan(c, a) \/ OrdersUnban(c, a)
                               \/ \E trip \in Trips : OrdersCancel(c, trip)
  <2>1. ASSUME NEW c \in Commands, NEW a \in Accounts, OrdersBan(c, a) \/ OrdersUnban(c, a)
        PROVE  CommandsInv'
    BY <2>1, OrdersKeeps DEF OrdersBan, OrdersUnban, Kinds, Targets
  <2>2. ASSUME NEW c \in Commands, NEW trip \in Trips, OrdersCancel(c, trip)
        PROVE  CommandsInv'
    BY <2>2, OrdersKeeps DEF OrdersCancel, Kinds, Targets
  <2> QED
    BY <1>2, <2>1, <2>2
<1>3. CASE \E w \in Workers :
             Works(w) \/ WorkerCrashes(w) \/ \E c \in Commands : FailsToApply(w, c)
  <2>1. PICK w \in Workers :
          \/ Fetches(w) \/ WritesUser(w) \/ Acknowledges(w) \/ WorkerCrashes(w)
          \/ \E c \in Commands :
               FindsInPlace(w, c) \/ FindsUser(w, c) \/ CancelsTrip(w, c) \/ FailsToApply(w, c)
    BY <1>3 DEF Works
  <2>2. CASE \/ Fetches(w) \/ WritesUser(w) \/ Acknowledges(w) \/ WorkerCrashes(w)
    BY <2>2, FetchesKeeps, WritesUserKeeps, AcknowledgesKeeps, WorkerCrashesKeeps
  <2>3. CASE \E c \in Commands :
               FindsInPlace(w, c) \/ FindsUser(w, c) \/ CancelsTrip(w, c) \/ FailsToApply(w, c)
    BY <2>3, FindsInPlaceKeeps, FindsUserKeeps, CancelsTripKeeps, FailsToApplyKeeps
  <2> QED
    BY <2>1, <2>2, <2>3
<1>4. CASE \E ack \in acks : RecordsAck(ack) \/ DropsAck(ack)
  <2>1. command' = command
    BY <1>4, NothingIsRecorded DEF DropsAck
  <2>2. acks' \in SUBSET AckType /\ UNCHANGED <<cancelled, worker, done, registered, banned>>
    BY <1>0, <1>4 DEF RecordsAck, DropsAck, sessionVars
  <2> QED
    BY <2>1, <2>2, AcksPass
<1> QED
  BY <1>1, <1>2, <1>3, <1>4 DEF CommandsNext

\* Types, commands in the order of their ids, batches of the oldest commands taken in
\* their order, and after whatever could undo the last command on a user, that command.
THEOREM CommandsInvariant == CommandsSpec => []CommandsInv
  BY CommandsInitInv, CommandsStep, PTL DEF CommandsSpec

\* A moderator's last word holds between any number of instances that carry out
\* everything again at every poll, for any number of commands, users and trips, any
\* FetchLimit, and with crashes, failures and acknowledgements that come to nothing.
THEOREM TheLastWordHolds == CommandsSpec => []LastWordHolds
<1>1. CommandsInv => LastWordHolds
  BY DEF CommandsInv
<1> QED
  BY <1>1, CommandsInvariant, PTL

-----------------------------------------------------------------------------
(* Configurations: the copies services keep.                               *)

\* What a service has, under an ETag that could still be the one there is.
IsOf(etag, items) ==
  etag # NoEtag => etag <= Greatest(config) /\ (etag = Greatest(config) => items = Rows)

\* As long as every edit has raised the greatest version, an ETag stands for the
\* rows it was given out with, at a service and on its way there.
EtagsTell ==
  ~flat =>
    \A s \in Copies :
      /\ IsOf(copy[s].etag, copy[s].items)
      /\ answer[s].kind = "full" => IsOf(answer[s].etag, answer[s].rows)
      /\ answer[s].kind = "unchanged" => answer[s].rows = copy[s].items

\* The inductive invariant.
ConfigsInv ==
  /\ ConfigsTypeOK
  /\ EtagsTell
  /\ CopiesAreTold

-----------------------------------------------------------------------------
\* The greatest version is one.
LEMMA GreatestIsVersion ==
  ASSUME NEW rows \in [ConfigKeys -> ConfigType]
  PROVE  Greatest(rows) \in Versions
<1> DEFINE S == {rows[k].version : k \in ConfigKeys}
<1>1. S \subseteq 0 .. MaxVersion /\ S # {} /\ MaxVersion \in Nat
  BY ConfigKeysAssumption, MaxVersionAssumption DEF ConfigType, Versions
<1> HIDE DEF S
<1>2. Max(S) \in S
  BY <1>1, MaxIs
<1> QED
  BY <1>1, <1>2 DEF Greatest, S, Versions

\* The rows are what a service can have.
LEMMA RowsAreItems ==
  ASSUME ConfigsTypeOK
  PROVE  Rows \in Items
  BY DEF ConfigsTypeOK, ConfigType, Rows, Items

\* A service without rows, and no answer.
LEMMA NothingIsTyped ==
  /\ NoItems \in Items
  /\ [etag |-> NoEtag, items |-> NoItems] \in CopyType
  /\ NoAnswer \in AnswerType /\ NoAnswer.kind = "none"
  BY DEF NoItems, Items, Values, CopyType, NoAnswer, AnswerType

\* What an answer has.
LEMMA AnswerIs ==
  ASSUME NEW a \in AnswerType
  PROVE  /\ a.kind \in {"none", "full", "unchanged"}
         /\ a.kind \in {"full", "unchanged"} => a.rows \in Items
         /\ a.kind = "full" => a.etag \in Versions
  BY DEF AnswerType, NoAnswer

\* No service has rows at first.
LEMMA ConfigsInitInv ==
  ASSUME ConfigsInit
  PROVE  ConfigsInv
<1>1. ConfigsTypeOK
  <2>1. 0 \in Versions /\ 1 \in 1 .. MaxVersion
    BY MaxVersionAssumption DEF Versions
  <2> QED
    BY <2>1, NothingIsTyped DEF ConfigsInit, ConfigsTypeOK, ConfigType, Values, NoUpsert
<1>2. EtagsTell
  BY NothingIsTyped DEF ConfigsInit, EtagsTell, IsOf
<1>3. CopiesAreTold
  BY DEF ConfigsInit, CopiesAreTold
<1> QED
  BY <1>1, <1>2, <1>3 DEF ConfigsInv

\* An edit: no ETag is that of the rows there are now.
LEMMA EditKeeps ==
  ASSUME ConfigsInv, NEW rows \in [ConfigKeys -> ConfigType], config' = rows, Notes(rows),
         operator' \in [Operators ->
           [at : {"idle", "writing"}, key : ConfigKeys \cup {NoValue}, next : 1 .. MaxVersion]],
         UNCHANGED <<copy, answer, told>>
  PROVE  ConfigsInv'
<1>1. Greatest(config) \in Versions /\ Greatest(rows) \in Versions
  BY GreatestIsVersion DEF ConfigsInv, ConfigsTypeOK
<1>2. flat' = (flat \/ Greatest(rows) <= Greatest(config))
  BY DEF Notes
<1>3. ConfigsTypeOK'
  BY <1>2 DEF ConfigsInv, ConfigsTypeOK
<1>4. CopiesAreTold'
  BY <1>2 DEF ConfigsInv, CopiesAreTold
<1>5. EtagsTell'
  <2> SUFFICES ASSUME ~flat', NEW s \in Copies
               PROVE  /\ IsOf(copy[s].etag, copy[s].items)'
                      /\ answer[s].kind = "full" => IsOf(answer[s].etag, answer[s].rows)'
                      /\ answer[s].kind = "unchanged" => answer[s].rows = copy[s].items
    BY DEF EtagsTell
  <2>1. ~flat /\ Greatest(rows) > Greatest(config)
    <3>1. ~flat /\ ~(Greatest(rows) <= Greatest(config))
      BY <1>2, Zenon
    <3> QED
      BY <1>1, <3>1 DEF Versions
  <2>2. /\ IsOf(copy[s].etag, copy[s].items)
        /\ answer[s].kind = "full" => IsOf(answer[s].etag, answer[s].rows)
        /\ answer[s].kind = "unchanged" => answer[s].rows = copy[s].items
    BY <2>1 DEF ConfigsInv, EtagsTell
  <2>3. /\ copy[s].etag \in Versions \cup {NoEtag}
        /\ answer[s].kind = "full" => answer[s].etag \in Versions
    <3>1. copy[s] \in CopyType /\ answer[s] \in AnswerType
      BY DEF ConfigsInv, ConfigsTypeOK
    <3> QED
      BY <3>1, AnswerIs DEF CopyType
  <2>4. ASSUME NEW etag \in Versions \cup {NoEtag}, NEW items, IsOf(etag, items)
        PROVE  etag # NoEtag => etag <= Greatest(rows) /\ etag # Greatest(rows)
    BY <1>1, <2>1, <2>4 DEF IsOf, Versions
  <2>5. IsOf(copy[s].etag, copy[s].items)'
    BY <2>2, <2>3, <2>4 DEF IsOf
  <2>6. answer[s].kind = "full" => IsOf(answer[s].etag, answer[s].rows)'
    BY <2>2, <2>3, <2>4 DEF IsOf
  <2> QED
    BY <2>2, <2>5, <2>6
<1> QED
  BY <1>3, <1>4, <1>5 DEF ConfigsInv

\* What one service has and awaits changes; the rows stay.
LEMMA ServiceKeeps ==
  ASSUME ConfigsInv, UNCHANGED <<config, operator, flat>>, NEW s \in Copies,
         NEW new \in CopyType, NEW reply \in AnswerType, NEW rows \in Items,
         copy' = [copy EXCEPT ![s] = new],
         answer' = [answer EXCEPT ![s] = reply],
         told' = [told EXCEPT ![s] = rows],
         ~flat => /\ IsOf(new.etag, new.items)
                  /\ reply.kind = "full" => IsOf(reply.etag, reply.rows)
                  /\ reply.kind = "unchanged" => reply.rows = new.items
                  /\ new.items = rows
  PROVE  ConfigsInv'
<1>1. copy \in [Copies -> CopyType] /\ answer \in [Copies -> AnswerType] /\ told \in [Copies -> Items]
  BY DEF ConfigsInv, ConfigsTypeOK
<1>2. /\ copy' \in [Copies -> CopyType] /\ answer' \in [Copies -> AnswerType] /\ told' \in [Copies -> Items]
      /\ \A t \in Copies : /\ copy'[t] = IF t = s THEN new ELSE copy[t]
                           /\ answer'[t] = IF t = s THEN reply ELSE answer[t]
                           /\ told'[t] = IF t = s THEN rows ELSE told[t]
  BY <1>1
<1>3. ConfigsTypeOK'
  BY <1>2 DEF ConfigsInv, ConfigsTypeOK
<1>5. EtagsTell'
  <2> SUFFICES ASSUME ~flat, NEW t \in Copies
               PROVE  /\ IsOf(copy'[t].etag, copy'[t].items)
                      /\ answer'[t].kind = "full" => IsOf(answer'[t].etag, answer'[t].rows)
                      /\ answer'[t].kind = "unchanged" => answer'[t].rows = copy'[t].items
    BY DEF EtagsTell, IsOf, Rows
  <2>1. CASE t = s
    BY <2>1, <1>2
  <2>2. CASE t # s
    BY <2>2, <1>2 DEF ConfigsInv, EtagsTell
  <2> QED
    BY <2>1, <2>2
<1>6. CopiesAreTold'
  BY <1>2 DEF ConfigsInv, CopiesAreTold
<1> QED
  BY <1>3, <1>5, <1>6 DEF ConfigsInv

\* An answer that says what there is.
LEMMA AnswersKeeps ==
  ASSUME ConfigsInv, NEW s \in Copies, Answers(s)
  PROVE  ConfigsInv'
<1> DEFINE same == [kind |-> "unchanged", rows |-> Rows]
           all == [kind |-> "full", rows |-> Rows, etag |-> Greatest(config)]
           reply == IF NotModified(copy[s].etag) THEN same ELSE all
<1>1. copy[s] \in CopyType /\ told[s] \in Items /\ Rows \in Items /\ Greatest(config) \in Versions
      /\ copy \in [Copies -> CopyType] /\ told \in [Copies -> Items]
  BY RowsAreItems, GreatestIsVersion DEF ConfigsInv, ConfigsTypeOK
<1>2. /\ answer' = [answer EXCEPT ![s] = reply]
      /\ UNCHANGED <<config, operator, copy, told, flat>>
  BY DEF Answers
<1>3. same \in AnswerType /\ same.kind = "unchanged" /\ same.rows = Rows
  BY <1>1 DEF AnswerType
<1>4. all \in AnswerType /\ all.kind = "full" /\ all.rows = Rows /\ all.etag = Greatest(config)
  BY <1>1 DEF AnswerType
<1>5. copy' = [copy EXCEPT ![s] = copy[s]] /\ told' = [told EXCEPT ![s] = told[s]]
  BY <1>1, <1>2
<1>6. ~flat => IsOf(copy[s].etag, copy[s].items) /\ copy[s].items = told[s]
  BY DEF ConfigsInv, EtagsTell, CopiesAreTold
<1>0. UNCHANGED <<config, operator, flat>>
  BY <1>2
<1> HIDE DEF same, all
<1>7. CASE NotModified(copy[s].etag)
  <2>1. copy[s].etag = Greatest(config) /\ copy[s].etag # NoEtag
    BY <1>1, <1>7, MaxVersionAssumption DEF NotModified, Versions, NoEtag
  <2>2. ~flat => Rows = copy[s].items
    BY <1>6, <2>1 DEF IsOf
  <2>3. answer' = [answer EXCEPT ![s] = same]
    BY <1>2, <1>7
  <2>4. ~flat => /\ IsOf(copy[s].etag, copy[s].items)
                 /\ same.kind = "full" => IsOf(same.etag, same.rows)
                 /\ same.kind = "unchanged" => same.rows = copy[s].items
                 /\ copy[s].items = told[s]
    BY <1>3, <1>6, <2>2
  <2> QED
    BY <1>0, <1>1, <1>3, <1>5, <2>3, <2>4, ServiceKeeps
<1>8. CASE ~NotModified(copy[s].etag)
  <2>1. IsOf(Greatest(config), Rows)
    BY <1>1 DEF IsOf, Versions
  <2>2. answer' = [answer EXCEPT ![s] = all]
    BY <1>2, <1>8
  <2>3. ~flat => /\ IsOf(copy[s].etag, copy[s].items)
                 /\ all.kind = "full" => IsOf(all.etag, all.rows)
                 /\ all.kind = "unchanged" => all.rows = copy[s].items
                 /\ copy[s].items = told[s]
    BY <1>4, <1>6, <2>1
  <2> QED
    BY <1>0, <1>1, <1>4, <1>5, <2>2, <2>3, ServiceKeeps
<1> QED
  BY <1>7, <1>8

\* A service takes the rows it is sent.
LEMMA TakesRowsKeeps ==
  ASSUME ConfigsInv, NEW s \in Copies, TakesRows(s)
  PROVE  ConfigsInv'
<1> DEFINE new == [etag |-> answer[s].etag, items |-> answer[s].rows]
<1>1. /\ answer[s].kind = "full"
      /\ copy' = [copy EXCEPT ![s] = new]
      /\ told' = [told EXCEPT ![s] = answer[s].rows]
      /\ answer' = [answer EXCEPT ![s] = NoAnswer]
      /\ UNCHANGED <<config, operator, flat>>
  BY DEF TakesRows
<1>2. answer[s] \in AnswerType
  BY DEF ConfigsInv, ConfigsTypeOK
<1>3. answer[s].rows \in Items /\ answer[s].etag \in Versions
  BY <1>1, <1>2, AnswerIs
<1>4. new \in CopyType /\ new.etag = answer[s].etag /\ new.items = answer[s].rows
  BY <1>3 DEF CopyType
<1> HIDE DEF new
<1>5. ~flat => IsOf(new.etag, new.items)
  BY <1>1, <1>4 DEF ConfigsInv, EtagsTell
<1> QED
  BY <1>1, <1>3, <1>4, <1>5, NothingIsTyped, ServiceKeeps

\* A service is told that nothing changed.
LEMMA KeepsRowsKeeps ==
  ASSUME ConfigsInv, NEW s \in Copies, KeepsRows(s)
  PROVE  ConfigsInv'
<1>1. /\ answer[s].kind = "unchanged"
      /\ told' = [told EXCEPT ![s] = answer[s].rows]
      /\ answer' = [answer EXCEPT ![s] = NoAnswer]
      /\ UNCHANGED <<config, operator, copy, flat>>
  BY DEF KeepsRows
<1>2. answer[s] \in AnswerType /\ copy[s] \in CopyType /\ copy \in [Copies -> CopyType]
  BY DEF ConfigsInv, ConfigsTypeOK
<1>3. answer[s].rows \in Items
  BY <1>1, <1>2, AnswerIs
<1>4. copy' = [copy EXCEPT ![s] = copy[s]]
  BY <1>1, <1>2
<1>5. ~flat => IsOf(copy[s].etag, copy[s].items) /\ answer[s].rows = copy[s].items
  BY <1>1 DEF ConfigsInv, EtagsTell
<1> QED
  BY <1>1, <1>2, <1>3, <1>4, <1>5, NothingIsTyped, ServiceKeeps

\* An answer is lost.
LEMMA MissesAnswerKeeps ==
  ASSUME ConfigsInv, NEW s \in Copies, MissesAnswer(s)
  PROVE  ConfigsInv'
<1>1. answer' = [answer EXCEPT ![s] = NoAnswer] /\ UNCHANGED <<config, operator, copy, told, flat>>
  BY DEF MissesAnswer
<1>2. /\ copy[s] \in CopyType /\ copy \in [Copies -> CopyType]
      /\ told[s] \in Items /\ told \in [Copies -> Items]
  BY DEF ConfigsInv, ConfigsTypeOK
<1>3. copy' = [copy EXCEPT ![s] = copy[s]] /\ told' = [told EXCEPT ![s] = told[s]]
  BY <1>1, <1>2
<1>4. ~flat => IsOf(copy[s].etag, copy[s].items) /\ copy[s].items = told[s]
  BY DEF ConfigsInv, EtagsTell, CopiesAreTold
<1> QED
  BY <1>1, <1>2, <1>3, <1>4, NothingIsTyped, ServiceKeeps

\* A service begins again without rows.
LEMMA RestartsKeeps ==
  ASSUME ConfigsInv, NEW s \in Copies, Restarts(s)
  PROVE  ConfigsInv'
<1> DEFINE new == [etag |-> NoEtag, items |-> NoItems]
<1>1. /\ copy' = [copy EXCEPT ![s] = new]
      /\ told' = [told EXCEPT ![s] = NoItems]
      /\ answer' = [answer EXCEPT ![s] = NoAnswer]
      /\ UNCHANGED <<config, operator, flat>>
  BY DEF Restarts
<1>2. new \in CopyType /\ new.etag = NoEtag /\ new.items = NoItems
  BY NothingIsTyped
<1> HIDE DEF new
<1>3. IsOf(new.etag, new.items)
  BY <1>2 DEF IsOf
<1> QED
  BY <1>1, <1>2, <1>3, NothingIsTyped, ServiceKeeps

\* Every step.
LEMMA ConfigsStep ==
  ASSUME ConfigsInv, [ConfigsNext]_configVars
  PROVE  ConfigsInv'
<1> DEFINE OperatorType == [at : {"idle", "writing"}, key : ConfigKeys \cup {NoValue}, next : 1 .. MaxVersion]
<1>0. config \in [ConfigKeys -> ConfigType] /\ operator \in [Operators -> OperatorType]
  BY DEF ConfigsInv, ConfigsTypeOK
<1>1. CASE UNCHANGED configVars
  BY <1>1 DEF configVars, ConfigsInv, ConfigsTypeOK, EtagsTell, IsOf, Rows, CopiesAreTold
<1>2. NoUpsert \in OperatorType
  BY MaxVersionAssumption DEF NoUpsert
<1>3. ASSUME UNCHANGED <<config, copy, answer, told, flat>>, operator' \in [Operators -> OperatorType]
      PROVE  ConfigsInv'
  BY <1>3 DEF ConfigsInv, ConfigsTypeOK, EtagsTell, IsOf, Rows, CopiesAreTold
<1>4. ASSUME NEW o \in Operators, NEW k \in ConfigKeys, ReadsVersion(o, k)
      PROVE  ConfigsInv'
  <2>1. config[k].version + 1 \in 1 .. MaxVersion
    BY <1>0, <1>4, MaxVersionAssumption DEF ReadsVersion, ConfigType, Versions
  <2>2. [at |-> "writing", key |-> k, next |-> config[k].version + 1] \in OperatorType
    BY <2>1
  <2>3. operator' \in [Operators -> OperatorType]
    BY <1>0, <1>4, <2>2 DEF ReadsVersion
  <2> QED
    BY <1>3, <1>4, <2>3 DEF ReadsVersion
<1>5. ASSUME NEW o \in Operators, OperatorFails(o)
      PROVE  ConfigsInv'
  <2>1. operator' \in [Operators -> OperatorType]
    BY <1>0, <1>2, <1>5 DEF OperatorFails
  <2> QED
    BY <1>3, <1>5, <2>1 DEF OperatorFails
<1>6. ASSUME NEW k, NEW row \in ConfigType, NEW rows,
             rows = [config EXCEPT ![k] = row],
             config' = rows, Notes(rows),
             operator' \in [Operators -> OperatorType], UNCHANGED <<copy, answer, told>>
      PROVE  ConfigsInv'
  <2>1. rows \in [ConfigKeys -> ConfigType]
    BY <1>0, <1>6
  <2> QED
    BY <1>6, <2>1, EditKeeps
<1>7. ASSUME NEW o \in Operators, NEW value \in ConfigValues, Upserts(o, value)
      PROVE  ConfigsInv'
  <2>1. Version(o) \in Versions
    <3>1. operator[o].next \in 1 .. MaxVersion
      BY <1>0
    <3> QED
      BY <3>1, MaxVersionAssumption DEF Version, Versions
  <2>2. [version |-> Version(o), value |-> value] \in ConfigType
    BY <2>1 DEF ConfigType, Values
  <2>3. operator' \in [Operators -> OperatorType]
    BY <1>0, <1>2, <1>7 DEF Upserts
  <2> QED
    BY <1>6, <1>7, <2>2, <2>3 DEF Upserts
<1>8. ASSUME NEW k \in ConfigKeys, Deletes(k)
      PROVE  ConfigsInv'
  <2>1. [version |-> 0, value |-> NoValue] \in ConfigType
    BY MaxVersionAssumption DEF ConfigType, Versions, Values
  <2> QED
    BY <1>0, <1>6, <1>8, <2>1 DEF Deletes
<1>9. ASSUME NEW s \in Copies,
             Answers(s) \/ TakesRows(s) \/ KeepsRows(s) \/ MissesAnswer(s) \/ Restarts(s)
      PROVE  ConfigsInv'
  BY <1>9, AnswersKeeps, TakesRowsKeeps, KeepsRowsKeeps, MissesAnswerKeeps, RestartsKeeps
<1> QED
  BY <1>1, <1>4, <1>5, <1>7, <1>8, <1>9 DEF ConfigsNext

\* Types, ETags that stand for the rows they were given out with, and copies as told.
THEOREM ConfigsInvariant == ConfigsSpec => []ConfigsInv
  BY ConfigsInitInv, ConfigsStep, PTL DEF ConfigsSpec

\* A service has the rows admin-service answered last, for any number of services and
\* keys, as long as every edit raised the greatest version: an unchanged ETag keeps
\* what the rows were. An edit that lowers it (a deletion) is what it does not cover.
THEOREM CopiesAreAsTold == ConfigsSpec => []CopiesAreTold
<1>1. ConfigsInv => CopiesAreTold
  BY DEF ConfigsInv
<1> QED
  BY <1>1, ConfigsInvariant, PTL

=============================================================================
