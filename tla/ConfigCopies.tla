---------------------------- MODULE ConfigCopies ----------------------------
(***************************************************************************)
(* Configuration: admin-service keeps versioned rows, every other service  *)
(* has a copy of all of them, which it fetches again with the ETag of its  *)
(* last fetch. The ETag is the greatest version of any row.                *)
(***************************************************************************)
EXTENDS Naturals, FiniteSets, FiniteSetsExt

CONSTANTS
  ConfigKeys,
  ConfigValues,
  NoValue,       \* no row, or no copy of it
  Operators,     \* PUT and DELETE requests under way
  Copies,        \* the ConfigClient of each service
  MaxVersion     \* bound: a row is edited up to this version

ASSUME ConfigKeysAssumption == ConfigKeys # {} /\ IsFiniteSet(ConfigKeys)
ASSUME NoValueAssumption == NoValue \notin ConfigValues \cup ConfigKeys
ASSUME MaxVersionAssumption == MaxVersion \in Nat \ {0}

VARIABLES
  config,     \* the rows: version, 0 for none, and value
  operator,   \* the version each upsert is about to write
  copy,       \* ConfigClient.snapshot: lastEtag and items
  answer,     \* what is on its way to each service
  told,       \* history: the rows at the time of a service's last completed fetch
  flat        \* history: an edit left the greatest version as it was, or lower

configVars == <<config, operator, copy, answer, told, flat>>

Values == ConfigValues \cup {NoValue}
Versions == 0 .. MaxVersion
NoEtag == MaxVersion + 1     \* no fetch yet: what no ETag is
NoAnswer == [kind |-> "none"]
Items == [ConfigKeys -> Values]

ConfigType == [version : Versions, value : Values]
CopyType == [etag : Versions \cup {NoEtag}, items : Items]
AnswerType ==
  {NoAnswer} \cup [kind : {"unchanged"}, rows : Items]
             \cup [kind : {"full"}, rows : Items, etag : Versions]

ConfigsTypeOK ==
  /\ config \in [ConfigKeys -> ConfigType]
  /\ operator \in [Operators ->
       [at : {"idle", "writing"}, key : ConfigKeys \cup {NoValue}, next : 1 .. MaxVersion]]
  /\ copy \in [Copies -> CopyType]
  /\ answer \in [Copies -> AnswerType]
  /\ told \in [Copies -> Items]
  /\ flat \in BOOLEAN

NoItems == [k \in ConfigKeys |-> NoValue]
NoUpsert == [at |-> "idle", key |-> NoValue, next |-> 1]

ConfigsInit ==
  /\ config = [k \in ConfigKeys |-> [version |-> 0, value |-> NoValue]]
  /\ operator = [o \in Operators |-> NoUpsert]
  /\ copy = [s \in Copies |-> [etag |-> NoEtag, items |-> NoItems]]
  /\ answer = [s \in Copies |-> NoAnswer]
  /\ told = [s \in Copies |-> NoItems]
  /\ flat = FALSE

Greatest(rows) == Max({rows[k].version : k \in ConfigKeys})

\* History: whether an edit keeps the greatest version from growing.
Notes(rows) == flat' = (flat \/ Greatest(rows) <= Greatest(config))

-----------------------------------------------------------------------------
(* admin-service                                                           *)

\* findUnique, in the transaction but without a lock.
ReadsVersion(o, k) ==
  /\ operator[o].at = "idle"
  /\ config[k].version < MaxVersion
  /\ operator' = [operator EXCEPT ![o] =
       [at |-> "writing", key |-> k, next |-> config[k].version + 1]]
  /\ UNCHANGED <<config, copy, answer, told, flat>>

\* A row there is gets the version read before, a new one gets 1.
Version(o) == IF config[operator[o].key].version = 0 THEN 1 ELSE operator[o].next

\* The upsert.
Upserts(o, value) ==
  LET k == operator[o].key
      rows == [config EXCEPT ![k] = [version |-> Version(o), value |-> value]]
  IN  /\ operator[o].at = "writing"
      /\ config' = rows
      /\ Notes(rows)
      /\ operator' = [operator EXCEPT ![o] = NoUpsert]
      /\ UNCHANGED <<copy, answer, told>>

\* The row goes, and its version with it.
Deletes(k) ==
  LET rows == [config EXCEPT ![k] = [version |-> 0, value |-> NoValue]]
  IN  /\ config[k].version > 0
      /\ config' = rows
      /\ Notes(rows)
      /\ UNCHANGED <<operator, copy, answer, told>>

\* The transaction is rolled back.
OperatorFails(o) ==
  /\ operator[o].at = "writing"
  /\ operator' = [operator EXCEPT ![o] = NoUpsert]
  /\ UNCHANGED <<config, copy, answer, told, flat>>

Rows == [k \in ConfigKeys |-> config[k].value]

\* Mutant: any ETag of this build is good.
NotModified_Any(etag) == etag # NoEtag

\* if-none-match is the ETag there is now.
NotModified(etag) == etag = Greatest(config)

\* GET /internal/configs: 304, or all rows and the ETag.
Answers(s) ==
  /\ answer[s] = NoAnswer
  /\ answer' = [answer EXCEPT ![s] =
       IF NotModified(copy[s].etag)
       THEN [kind |-> "unchanged", rows |-> Rows]
       ELSE [kind |-> "full", rows |-> Rows, etag |-> Greatest(config)]]
  /\ UNCHANGED <<config, operator, copy, told, flat>>

-----------------------------------------------------------------------------
(* ConfigClient                                                            *)

TakesRows(s) ==
  /\ answer[s].kind = "full"
  /\ copy' = [copy EXCEPT ![s] = [etag |-> answer[s].etag, items |-> answer[s].rows]]
  /\ told' = [told EXCEPT ![s] = answer[s].rows]
  /\ answer' = [answer EXCEPT ![s] = NoAnswer]
  /\ UNCHANGED <<config, operator, flat>>

\* The copy counts as fetched just now.
KeepsRows(s) ==
  /\ answer[s].kind = "unchanged"
  /\ told' = [told EXCEPT ![s] = answer[s].rows]
  /\ answer' = [answer EXCEPT ![s] = NoAnswer]
  /\ UNCHANGED <<config, operator, copy, flat>>

\* Out of time, or an error: the copy stays, for the next refresh to renew.
MissesAnswer(s) ==
  /\ answer[s] # NoAnswer
  /\ answer' = [answer EXCEPT ![s] = NoAnswer]
  /\ UNCHANGED <<config, operator, copy, told, flat>>

\* The service starts again with nothing.
Restarts(s) ==
  /\ copy' = [copy EXCEPT ![s] = [etag |-> NoEtag, items |-> NoItems]]
  /\ told' = [told EXCEPT ![s] = NoItems]
  /\ answer' = [answer EXCEPT ![s] = NoAnswer]
  /\ UNCHANGED <<config, operator, flat>>

ConfigsNext ==
  \/ \E o \in Operators :
       \/ \E k \in ConfigKeys : ReadsVersion(o, k)
       \/ \E value \in ConfigValues : Upserts(o, value)
       \/ OperatorFails(o)
  \/ \E k \in ConfigKeys : Deletes(k)
  \/ \E s \in Copies :
       Answers(s) \/ TakesRows(s) \/ KeepsRows(s) \/ MissesAnswer(s) \/ Restarts(s)

ConfigsSpec == ConfigsInit /\ [][ConfigsNext]_configVars

-----------------------------------------------------------------------------
(* Properties                                                              *)

\* As long as every edit has raised the greatest version, a service's copy is what
\* the rows were when it was last answered: nothing that happens between the ETag,
\* the answer and the next edit makes a 304 lie.
CopiesAreTold == ~flat => \A s \in Copies : copy[s].items = told[s]

\* A flag that is switched off is off at once: whatever was edited or deleted, a
\* service that was answered has the rows as they were then.
CopiesFollow == \A s \in Copies : copy[s].items = told[s]

=============================================================================
