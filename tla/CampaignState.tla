---------------------------- MODULE CampaignState ----------------------------
(***************************************************************************)
(* The state around one campaign: its rows in the database (app/models.py),*)
(* the requests the web application is handling, and the sender worker of  *)
(* every process.  The operations are in CampaignRequests (the handlers)   *)
(* and SenderWorker, which have only the database in common.               *)
(*                                                                         *)
(* A campaign whose row was deleted has the status "deleted".  A row of    *)
(* campaign_recipients is its primary key e \in RowIds, with a status in   *)
(* entry[e], an email in address[e] and recipient_id[e]:                   *)
(*   "absent"  the key has not been used, or may be used again;            *)
(*   "gone"    the row was deleted and its key is never used again.        *)
(* A row of recipients is its primary key r \in RecipientIds, with an email *)
(* in mailbox[r], which is NoAddress when there is no such row.            *)
(***************************************************************************)
EXTENDS Integers, Sequences, FiniteSets, FiniteSetsExt,
        Functions

CONSTANTS
  Addresses,    \* email addresses that may be in the audience
  NoAddress,    \* the email of a key of recipients that is not in use
  Known,        \* the recipients: a sequence of addresses, in key order
  MaxRecipient, \* bound: the largest key of recipients
  MaxRow,       \* bound: the largest key of campaign_recipients
  Audience,     \* the draft's audience: a sequence of addresses, in key order
  Sessions,     \* requests that may be in progress at the same time
  Workers,      \* process starts: every start has a worker id of its own
  NoWorker,     \* the empty claimed_by
  Sqlite        \* TRUE: SQLite, one process; FALSE: PostgreSQL, any number

ASSUME StateAssumption ==
  /\ MaxRow \in Nat
  /\ Addresses # {}
  /\ Audience \in Seq(Addresses)
  /\ Len(Audience) <= MaxRow
  /\ MaxRecipient \in Nat
  /\ Known \in Seq(Addresses)
  /\ Len(Known) <= MaxRecipient
  /\ NoAddress \notin Addresses
  /\ NoWorker \notin Workers
  /\ Sqlite \in BOOLEAN

\* A process start is counted once it happened, so there are finitely many.
ASSUME WorkersAssumption == IsFiniteSet(Workers)

\* Nobody is in an audience twice: it is put together from recipients, whose
\* email is unique, and pasted addresses, less those that are already in it.
\* (app/routers/campaigns.py)
ASSUME AudienceAssumption == IsInjective(Audience)

VARIABLES
  \* The database:
  status,       \* campaigns.status
  dryRun,       \* campaigns.dry_run
  content,      \* subject, bodies and sender of the campaign, as a version
  claimedBy,    \* campaigns.claimed_by
  lease,        \* campaigns.lease_until against the clock
  entry,        \* campaign_recipients.status, by key
  address,      \* campaign_recipients.email, by key
  recipient_id, \* campaign_recipients.recipient_id, by key
  mailbox,      \* recipients.email, by key
  suppressed,   \* the recipients that have is_suppressed set
  \* The handlers:
  request,      \* what each session has read and not yet committed
  requests,     \* how many requests were begun
  \* The workers:
  pc,           \* where each worker is
  stopping,     \* the workers whose _stopping event is set
  seen,         \* status in the row a claim on SQLite has read
  loaded,       \* what _send_campaign read before its loop
  batch,        \* the rows left of the batch in the for loop
  skips,        \* rows marked skipped in the session, not yet flushed
  outcome,      \* status of the row being handled, not yet flushed
  dbErrors,     \* how many statements of a worker failed
  lostReplies,  \* how many replies of the mail server were lost
  overruns,     \* how many messages outlasted their lease
  \* History, read by no action:
  round,        \* how often a handler has put the campaign in the queue
  serving,      \* the round of the campaign a worker claimed, 0 when none
  delivered,    \* how many messages each address was handed
  halt,         \* whether an operator's pause or cancel stands
  leeway,       \* the messages that may still go out after it
  grace         \* and those to a recipient that unsubscribed, by key

campaignVars == <<status, dryRun, content, claimedBy, lease>>
entryVars    == <<entry, address, recipient_id>>
recipientVars == <<mailbox, suppressed>>
historyVars  == <<delivered, halt, leeway, grace>>
storeVars    == <<campaignVars, entryVars, recipientVars, round, historyVars>>
requestVars  == <<request, requests>>
localVars    == <<seen, serving, loaded, batch, skips, outcome>>
faultVars    == <<dbErrors, lostReplies, overruns>>
workerVars   == <<pc, stopping, localVars, faultVars>>

vars == <<storeVars, requestVars, workerVars>>

-----------------------------------------------------------------------------
(* The database *)

RowIds == 1..MaxRow

RecipientIds == 1..MaxRecipient

\* NULL, in recipient_id.
NoRecipient == 0

Statuses == {"draft", "queued", "sending", "paused", "completed", "cancelled",
             "failed", "deleted"}

ACTIVE_STATUSES == {"queued", "sending"}

is_editable == status \in {"draft", "paused"}

Stopped == status \in {"paused", "cancelled"}

Exists == status # "deleted"

EntryStatuses == {"pending", "sent", "failed", "skipped"}

Rows == {e \in RowIds : entry[e] \in EntryStatuses}

Pending == {e \in RowIds : entry[e] = "pending"}

\* What a deleted row leaves behind.  Without AUTOINCREMENT, SQLite hands out
\* one more than the largest key in use; a PostgreSQL sequence never goes back.
DeletedRow == IF Sqlite THEN "absent" ELSE "gone"

Recipients == {r \in RecipientIds : mailbox[r] # NoAddress}

\* The recipient with this email, or NULL.
RecipientOf(a, emails) ==
  IF \E r \in RecipientIds : emails[r] = a
  THEN CHOOSE r \in RecipientIds : emails[r] = a
  ELSE NoRecipient

\* (Mistake: a campaign being sent may be claimed by every other instance.)
Claimable_NoLease == status \in ACTIVE_STATUSES

\* (Mistake: only a lease that was handed back is taken over.)
Claimable_NoLapse ==
  \/ status = "queued"
  \/ status = "sending" /\ lease = "none"

\* The queue a worker polls: a queued campaign, or one whose owner handed the
\* lease back or stopped renewing it.
Claimable ==
  \/ status = "queued"
  \/ status = "sending" /\ lease # "live"

StoreTypeOK ==
  /\ status \in Statuses
  /\ dryRun \in BOOLEAN
  /\ content \in Nat
  /\ claimedBy \in Workers \cup {NoWorker}
  /\ lease \in {"none", "live", "lapsed"}
  /\ entry \in [RowIds -> EntryStatuses \cup {"absent", "gone"}]
  /\ address \in [RowIds -> Addresses]
  /\ recipient_id \in [RowIds -> RecipientIds \cup {NoRecipient}]
  /\ mailbox \in [RecipientIds -> Addresses \cup {NoAddress}]
  /\ suppressed \subseteq Recipients
  /\ round \in Nat
  /\ delivered \in [Addresses -> Nat]
  /\ halt \in {"none", "stands", "overwritten"}
  /\ leeway \in Int
  /\ grace \in [RecipientIds -> Int]

\* A draft with its audience in it, before anybody sends it.  Some of the
\* recipients may have unsubscribed since they were added.
StoreInit ==
  /\ status = "draft"
  /\ dryRun = FALSE
  /\ content = 0
  /\ claimedBy = NoWorker
  /\ lease = "none"
  /\ entry = [e \in RowIds |->
                IF e <= Len(Audience) THEN "pending" ELSE "absent"]
  /\ address = [e \in RowIds |-> IF e <= Len(Audience) THEN Audience[e]
                                ELSE CHOOSE a \in Addresses : TRUE]
  /\ mailbox = [r \in RecipientIds |->
                  IF r <= Len(Known) THEN Known[r] ELSE NoAddress]
  /\ recipient_id = [e \in RowIds |->
                       IF e <= Len(Audience)
                       THEN RecipientOf(Audience[e], mailbox)
                       ELSE NoRecipient]
  /\ suppressed \in SUBSET Recipients
  /\ round = 0
  /\ delivered = [a \in Addresses |-> 0]
  /\ halt = "none"
  /\ leeway = 0
  /\ grace = [r \in RecipientIds |-> 0]

-----------------------------------------------------------------------------
(* The requests *)

AllOps == {"send", "pause", "resume", "cancel", "retry", "update", "audience",
           "remove", "delete", "import", "forget", "unsubscribe"}

NoRequest == [op |-> "none", dryRun |-> FALSE]

RequestTypeOK ==
  /\ request \in [Sessions -> [op : AllOps \cup {"none"}, dryRun : BOOLEAN]]
  /\ requests \in Nat

RequestInit ==
  /\ request = [s \in Sessions |-> NoRequest]
  /\ requests = 0

-----------------------------------------------------------------------------
(* The workers *)

\* Inside _send_campaign, with the campaign claimed.
Sending == {"load", "connect", "failing", "loop", "fetch", "finish", "entry",
            "check", "send", "resend", "record", "leaving"}

Locations ==
  Sending \cup {"off", "idle", "polling", "claiming", "exited", "crashed"}

Alive(w) == pc[w] \notin {"off", "exited", "crashed"}

NotLoaded == [content |-> 0, dryRun |-> FALSE]

\* What a worker keeps of a row it has fetched.
Items == [id : RowIds, email : Addresses,
          recipient : RecipientIds \cup {NoRecipient}]

\* The row a worker is handling.
Current(w) == CHOOSE r \in batch[w] : \A q \in batch[w] : r.id <= q.id

\* The workers with a message in hand, from the last look at the status on, and
\* those that have looked at the recipient r as well.
InHand == {w \in Workers : /\ pc[w] \in {"check", "send", "resend"}
                           /\ ~loaded[w].dryRun}

OnTheWay(r) == {w \in InHand : /\ pc[w] # "check"
                               /\ Current(w).recipient = r}

WorkerTypeOK ==
  /\ pc \in [Workers -> Locations]
  /\ stopping \subseteq Workers
  /\ seen \in [Workers -> {"", "queued", "sending"}]
  /\ serving \in [Workers -> Nat]
  /\ loaded \in [Workers -> [content : Nat, dryRun : BOOLEAN]]
  /\ batch \in [Workers -> SUBSET Items]
  /\ skips \in [Workers -> SUBSET RowIds]
  /\ outcome \in [Workers -> {"", "sent", "failed", "skipped"}]
  /\ dbErrors \in Nat
  /\ lostReplies \in Nat
  /\ overruns \in Nat

WorkerInit ==
  /\ pc = [w \in Workers |-> "off"]
  /\ stopping = {}
  /\ seen = [w \in Workers |-> ""]
  /\ serving = [w \in Workers |-> 0]
  /\ loaded = [w \in Workers |-> NotLoaded]
  /\ batch = [w \in Workers |-> {}]
  /\ skips = [w \in Workers |-> {}]
  /\ outcome = [w \in Workers |-> ""]
  /\ dbErrors = 0
  /\ lostReplies = 0
  /\ overruns = 0

=============================================================================
