------------------------------ MODULE Receipts ------------------------------
(***************************************************************************)
(* payments-service: a receipt is created with a capture and issued by a   *)
(* worker of which every instance of the service has one. As in            *)
(* Notifications a worker lists the due ids, claims a row in a short       *)
(* transaction, calls the issuer outside any, and marks the row by its id; *)
(* but a claim only postpones next_retry_at, and counts no try.            *)
(***************************************************************************)
EXTENDS Naturals

CONSTANTS
  ReceiptIds,
  NoReceipt,
  Issuers,         \* instances of the service
  ReceiptRetryN    \* RECEIPT_RETRY_N

ASSUME ReceiptRetryAssumption == ReceiptRetryN \in Nat \ {0}
ASSUME NoReceiptAssumption == NoReceipt \notin ReceiptIds

VARIABLES
  receipt,    \* the rows: status ("NONE" before the capture), try_count, due
  issuer,     \* what each worker is doing
  issued,     \* history: the receipts that were issued
  rejections  \* history: issuings that failed, up to RECEIPT_RETRY_N

receiptVars == <<receipt, issuer, issued, rejections>>

ReceiptStatuses == {"NONE", "PENDING", "ISSUED", "FAILED_FINAL"}

IssuerType ==
  [at : {"idle", "ticking", "issuing", "marking"}, todo : SUBSET ReceiptIds,
   receipt : ReceiptIds \cup {NoReceipt}, try : 0 .. ReceiptRetryN, ok : BOOLEAN]

ReceiptsTypeOK ==
  /\ receipt \in [ReceiptIds ->
       [status : ReceiptStatuses, tries : 0 .. ReceiptRetryN, due : BOOLEAN]]
  /\ issuer \in [Issuers -> IssuerType]
  /\ issued \in SUBSET ReceiptIds
  /\ rejections \in [ReceiptIds -> 0 .. ReceiptRetryN]

IdleIssuer == [at |-> "idle", todo |-> {}, receipt |-> NoReceipt, try |-> 0, ok |-> FALSE]

ReceiptsInit ==
  /\ receipt = [r \in ReceiptIds |-> [status |-> "NONE", tries |-> 0, due |-> FALSE]]
  /\ issuer = [i \in Issuers |-> IdleIssuer]
  /\ issued = {}
  /\ rejections = [r \in ReceiptIds |-> 0]

\* In the transaction of the capture.
CreatesReceipt(r) ==
  /\ receipt[r].status = "NONE"
  /\ receipt' = [receipt EXCEPT ![r].status = "PENDING", ![r].due = TRUE]
  /\ UNCHANGED <<issuer, issued, rejections>>

\* The backoff is over, or the claim, also of a worker that is still at it: the
\* claim lasts 120 s, and issueReceipt has no timeout.
ReceiptFallsDue(r) ==
  /\ receipt[r].status = "PENDING"
  /\ ~receipt[r].due
  /\ receipt' = [receipt EXCEPT ![r].due = TRUE]
  /\ UNCHANGED <<issuer, issued, rejections>>

-----------------------------------------------------------------------------
(* The worker                                                              *)

\* In the loop over the ids listed, between two of them.
Ticking(todo) == [at |-> "ticking", todo |-> todo, receipt |-> NoReceipt, try |-> 0, ok |-> FALSE]

\* findDueIds. A row may be locked just then, and left out.
IssuerTicks(i) ==
  /\ issuer[i].at = "idle"
  /\ \E todo \in SUBSET {r \in ReceiptIds : receipt[r].status = "PENDING" /\ receipt[r].due} :
       /\ todo # {}
       /\ issuer' = [issuer EXCEPT ![i] = Ticking(todo)]
  /\ UNCHANGED <<receipt, issued, rejections>>

\* On to the next id, or the tick is over.
NextReceipt(i, todo) ==
  issuer' = [issuer EXCEPT ![i] =
    IF todo = {} THEN IdleIssuer ELSE Ticking(todo)]

\* What lockById looks for: the status, but not next_retry_at.
ReceiptLockable(r) == receipt[r].status = "PENDING"

ClaimsReceipt(i, r) ==
  /\ issuer[i].at = "ticking"
  /\ r \in issuer[i].todo
  /\ ReceiptLockable(r)
  /\ receipt' = [receipt EXCEPT ![r].due = FALSE]
  /\ issuer' = [issuer EXCEPT ![i] =
       [at |-> "issuing", todo |-> @.todo \ {r}, receipt |-> r,
        try |-> IF receipt[r].tries < ReceiptRetryN THEN receipt[r].tries + 1 ELSE ReceiptRetryN,
        ok |-> FALSE]]
  /\ UNCHANGED <<issued, rejections>>

\* The row is locked or no longer to be issued, or the transaction fails.
PassesOverReceipt(i, r) ==
  /\ issuer[i].at = "ticking"
  /\ r \in issuer[i].todo
  /\ NextReceipt(i, issuer[i].todo \ {r})
  /\ UNCHANGED <<receipt, issued, rejections>>

\* issueReceipt answers or throws; one that throws may have issued it.
IssueOutcomes == {o \in [ok : BOOLEAN, done : BOOLEAN] : o.ok => o.done}

Issues(i) ==
  /\ issuer[i].at = "issuing"
  /\ \E o \in IssueOutcomes :
       /\ issuer' = [issuer EXCEPT ![i].at = "marking", ![i].ok = o.ok]
       /\ issued' = IF o.done THEN issued \cup {issuer[i].receipt} ELSE issued
       /\ rejections' = [rejections EXCEPT ![issuer[i].receipt] =
            IF o.ok \/ @ = ReceiptRetryN THEN @ ELSE @ + 1]
  /\ UNCHANGED receipt

MarksIssued(i) ==
  /\ issuer[i].at = "marking"
  /\ issuer[i].ok
  /\ receipt' = [receipt EXCEPT ![issuer[i].receipt].status = "ISSUED"]
  /\ NextReceipt(i, issuer[i].todo)
  /\ UNCHANGED <<issued, rejections>>

\* Mutant: the last try is not made.
LastIssue_OneEarly(i) == issuer[i].try + 1 >= ReceiptRetryN

LastIssue(i) == issuer[i].try >= ReceiptRetryN

GivesReceiptUp(i) ==
  /\ issuer[i].at = "marking"
  /\ ~issuer[i].ok
  /\ LastIssue(i)
  /\ receipt' = [receipt EXCEPT ![issuer[i].receipt].status = "FAILED_FINAL",
                                ![issuer[i].receipt].tries = issuer[i].try]
  /\ NextReceipt(i, issuer[i].todo)
  /\ UNCHANGED <<issued, rejections>>

\* markRetry leaves the status alone.
RetriedStatus(r) == receipt[r].status

RetriesReceipt(i) ==
  /\ issuer[i].at = "marking"
  /\ ~issuer[i].ok
  /\ ~LastIssue(i)
  /\ LET r == issuer[i].receipt
     IN  receipt' = [receipt EXCEPT ![r] =
           [status |-> RetriedStatus(r), tries |-> issuer[i].try, due |-> FALSE]]
  /\ NextReceipt(i, issuer[i].todo)
  /\ UNCHANGED <<issued, rejections>>

\* The transaction fails: the row stays as it is.
MarksNoReceipt(i) ==
  /\ issuer[i].at = "marking"
  /\ NextReceipt(i, issuer[i].todo)
  /\ UNCHANGED <<receipt, issued, rejections>>

\* The instance stops and starts again.
IssuerCrashes(i) ==
  /\ issuer[i].at # "idle"
  /\ issuer' = [issuer EXCEPT ![i] = IdleIssuer]
  /\ UNCHANGED <<receipt, issued, rejections>>

IssuerMarks(i) == MarksIssued(i) \/ GivesReceiptUp(i) \/ RetriesReceipt(i)

ReceiptsNext ==
  \/ \E r \in ReceiptIds : CreatesReceipt(r) \/ ReceiptFallsDue(r)
  \/ \E i \in Issuers :
       \/ IssuerTicks(i)
       \/ \E r \in ReceiptIds : ClaimsReceipt(i, r) \/ PassesOverReceipt(i, r)
       \/ Issues(i) \/ IssuerMarks(i) \/ MarksNoReceipt(i) \/ IssuerCrashes(i)

ReceiptsSpec == ReceiptsInit /\ [][ReceiptsNext]_receiptVars

-----------------------------------------------------------------------------
(* Properties                                                              *)

\* A receipt is ISSUED only if it was issued, and FAILED_FINAL only after
\* RECEIPT_RETRY_N failures; try_count counts no try that was not made, although
\* instances write it from what each of them read.
ReceiptsAreTrue ==
  \A r \in ReceiptIds :
    /\ receipt[r].tries <= rejections[r]
    /\ receipt[r].status = "ISSUED" => r \in issued
    /\ receipt[r].status = "FAILED_FINAL" => rejections[r] = ReceiptRetryN

\* A receipt that was issued or given up is not taken up again, although a slower
\* instance may still schedule a retry of it.
ReceiptsEnd ==
  [][\A r \in ReceiptIds :
       receipt[r].status \in {"ISSUED", "FAILED_FINAL"} => receipt'[r].status # "PENDING"]_receiptVars

=============================================================================
