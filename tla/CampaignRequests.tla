--------------------------- MODULE CampaignRequests ---------------------------
(***************************************************************************)
(* The handlers of app/routers/campaigns.py that change a campaign or its  *)
(* audience, the unsubscribe page of app/routers/public.py, and the pages   *)
(* that add and delete recipients.                                         *)
(*                                                                         *)
(* A handler reads the campaign, returns early unless its status allows    *)
(* the operation, and then writes: "UPDATE campaigns SET ... WHERE id = ?" *)
(* with the columns it changed and no condition on the status it read.     *)
(* The read and the commit are two actions, so that handlers of other      *)
(* sessions and the sender may come between them.  What the form posts is  *)
(* chosen at the commit, where it is first used.                           *)
(***************************************************************************)
EXTENDS CampaignState

CONSTANTS
  Ops,          \* the operations the operators of this instance use
  Lists,        \* recipient lists: sets of addresses
  MaxRequests   \* bound: how many requests are made

ASSUME RequestAssumption ==
  /\ MaxRequests \in Nat
  /\ Lists \subseteq SUBSET Addresses

\* The handler has read a row whose state allows op.  dry is the dry_run it
\* loaded: the unit of work writes that column only when the form differs.
Begin(s, op, dry) ==
  /\ op \in Ops
  /\ requests < MaxRequests
  /\ request[s] = NoRequest
  /\ request' = [request EXCEPT ![s] = [op |-> op, dryRun |-> dry]]
  /\ requests' = requests + 1
  /\ UNCHANGED <<storeVars, workerVars>>

Commit(s, op) ==
  /\ request[s].op = op
  /\ request' = [request EXCEPT ![s] = NoRequest]
  /\ UNCHANGED <<requests, workerVars>>

\* The row a handler wants to update or add to has been deleted meanwhile: the
\* unit of work raises and the request ends in an error, with nothing written.
StaleCommit(s) ==
  /\ ~Exists
  /\ request[s].op \in
       {"send", "pause", "resume", "cancel", "update", "audience"}
  /\ request' = [request EXCEPT ![s] = NoRequest]
  /\ UNCHANGED <<requests, storeVars, workerVars>>

Requeue ==
  /\ status' = "queued"
  /\ round' = round + 1
  /\ halt' = "none"
  /\ UNCHANGED <<delivered, leeway, grace>>

\* From the first of a pause and a cancel on, until the campaign is put in the
\* queue again, only the messages in hand may go out.
Halt(stopped) ==
  /\ status' = stopped
  /\ halt' = "stands"
  /\ leeway' = IF halt = "stands" THEN leeway ELSE Cardinality(InHand)
  /\ UNCHANGED <<round, delivered, grace>>

-----------------------------------------------------------------------------
SendRead(s) ==
  /\ Exists
  /\ status \notin ACTIVE_STATUSES
  /\ Pending # {}
  /\ Begin(s, "send", dryRun)

SendCommit(s) ==
  /\ Commit(s, "send")
  /\ Exists
  /\ Requeue
  /\ \E dry \in BOOLEAN :
       dryRun' = IF dry # request[s].dryRun THEN dry ELSE dryRun
  /\ UNCHANGED <<content, claimedBy, lease, entryVars, recipientVars>>

PauseRead(s) ==
  /\ status \in ACTIVE_STATUSES
  /\ Begin(s, "pause", FALSE)

PauseCommit(s) ==
  /\ Commit(s, "pause")
  /\ Exists
  /\ Halt("paused")
  /\ UNCHANGED <<dryRun, content, claimedBy, lease, entryVars, recipientVars>>

ResumeRead(s) ==
  /\ status \in {"paused", "failed"}
  /\ Begin(s, "resume", FALSE)

ResumeCommit(s) ==
  /\ Commit(s, "resume")
  /\ Exists
  /\ Requeue
  /\ UNCHANGED <<dryRun, content, claimedBy, lease, entryVars, recipientVars>>

CancelRead(s) ==
  /\ status \in ACTIVE_STATUSES \cup {"paused"}
  /\ Begin(s, "cancel", FALSE)

CancelCommit(s) ==
  /\ Commit(s, "cancel")
  /\ Exists
  /\ Halt("cancelled")
  /\ UNCHANGED <<dryRun, content, claimedBy, lease, entryVars, recipientVars>>

RetryRead(s) ==
  /\ Exists
  /\ status \notin ACTIVE_STATUSES
  /\ Begin(s, "retry", FALSE)

\* (Mistake: the retry takes every row that was handled.)
RetryCommit_Everybody(s) ==
  /\ Commit(s, "retry")
  /\ entry' = [e \in RowIds |-> IF e \in Rows THEN "pending" ELSE entry[e]]
  /\ UNCHANGED <<campaignVars, address, recipient_id, recipientVars, round,
                 historyVars>>

\* One UPDATE over the failed rows; the campaign's status stays what it is.
RetryCommit(s) ==
  /\ Commit(s, "retry")
  /\ entry' = [e \in RowIds |->
                 IF entry[e] = "failed" THEN "pending" ELSE entry[e]]
  /\ UNCHANGED <<campaignVars, address, recipient_id, recipientVars, round,
                 historyVars>>

-----------------------------------------------------------------------------
UpdateRead(s) ==
  /\ is_editable
  /\ Begin(s, "update", FALSE)

UpdateCommit(s) ==
  /\ Commit(s, "update")
  /\ Exists
  /\ content' = content + 1
  /\ UNCHANGED <<status, dryRun, claimedBy, lease, entryVars, recipientVars,
                 round, historyVars>>

AudienceRead(s) ==
  /\ is_editable
  /\ Begin(s, "audience", FALSE)

\* The addresses of list that are added: neither suppressed nor already there.
Added(list, rows) ==
  {a \in list : RecipientOf(a, mailbox) \notin suppressed}
    \ {address[e] : e \in rows}

\* The n keys the database gives to the next rows.
NextKeys(entries, n) ==
  LET last == Max({0} \cup {e \in RowIds : entries[e] # "absent"})
  IN  last + 1 .. last + n

\* mode "replace" deletes every row first, those already sent included.  The
\* query for the new ones has no ORDER BY.  A pasted address that is nobody's
\* gets a row without a recipient.
AudienceCommit(s) ==
  /\ Commit(s, "audience")
  /\ Exists
  /\ \E replace \in BOOLEAN, list \in Lists :
       LET left == IF replace THEN {} ELSE Rows
           kept == [e \in RowIds |->
                      IF e \in Rows \ left THEN DeletedRow ELSE entry[e]]
           new  == Added(list, left)
           keys == NextKeys(kept, Cardinality(new))
       IN  /\ keys \subseteq RowIds
           /\ entry' = [e \in RowIds |->
                          IF e \in keys THEN "pending" ELSE kept[e]]
           /\ \E email \in Bijection(keys, new) :
                /\ address' = [e \in RowIds |->
                                 IF e \in keys THEN email[e] ELSE address[e]]
                /\ recipient_id' = [e \in RowIds |->
                     IF e \in keys THEN RecipientOf(email[e], mailbox)
                     ELSE recipient_id[e]]
  /\ UNCHANGED <<campaignVars, recipientVars, round, historyVars>>

RemoveRead(s) ==
  /\ is_editable
  /\ Rows # {}
  /\ Begin(s, "remove", FALSE)

RemoveCommit(s) ==
  /\ Commit(s, "remove")
  /\ entry' \in {entry} \cup {[entry EXCEPT ![e] = DeletedRow] : e \in Rows}
  /\ UNCHANGED <<campaignVars, address, recipient_id, recipientVars, round,
                 historyVars>>

DeleteRead(s) ==
  /\ Exists
  /\ status \notin ACTIVE_STATUSES
  /\ Begin(s, "delete", FALSE)

DeleteCommit(s) ==
  /\ Commit(s, "delete")
  /\ status' = "deleted"
  /\ entry' = [e \in RowIds |-> IF e \in Rows THEN DeletedRow ELSE entry[e]]
  /\ UNCHANGED <<dryRun, content, claimedBy, lease, address, recipient_id,
                 recipientVars, round, historyVars>>

-----------------------------------------------------------------------------
\* A page about recipients: one request, read and committed at once.
RecipientPage(op) ==
  /\ op \in Ops
  /\ requests < MaxRequests
  /\ requests' = requests + 1
  /\ UNCHANGED <<request, campaignVars, entry, address, round, workerVars>>

\* The keys a new recipient may get.  SQLite gives one more than the largest in
\* use.  PostgreSQL never gives one again: it may have a number that was used
\* before here once nothing remembers its old bearer any more.
FreshRecipients ==
  IF Sqlite
  THEN {1 + Max({0} \cup Recipients)}
  ELSE {r \in RecipientIds \ Recipients :
          \A w \in Workers : \A q \in batch[w] : q.recipient # r}

\* upsert_recipient, for an address that is nobody's.  The rows that have the
\* address already are not linked to the new recipient.
ImportRecipient(a) ==
  /\ RecipientPage("import")
  /\ RecipientOf(a, mailbox) = NoRecipient
  /\ \E r \in FreshRecipients \cap RecipientIds :
       mailbox' = [mailbox EXCEPT ![r] = a]
  /\ UNCHANGED <<recipient_id, suppressed, historyVars>>

\* delete_recipient: the foreign key is ON DELETE SET NULL.
DeleteRecipient(r) ==
  /\ RecipientPage("forget")
  /\ mailbox[r] # NoAddress
  /\ mailbox' = [mailbox EXCEPT ![r] = NoAddress]
  /\ suppressed' = suppressed \ {r}
  /\ recipient_id' = [e \in RowIds |-> IF recipient_id[e] = r THEN NoRecipient
                                       ELSE recipient_id[e]]
  /\ UNCHANGED historyVars

\* A signed unsubscribe link.  An address without a recipient has no row to
\* put the flag on, and nothing is recorded for it.
Unsubscribe(r) ==
  /\ RecipientPage("unsubscribe")
  /\ r \in Recipients \ suppressed
  /\ suppressed' = suppressed \cup {r}
  /\ grace' = [grace EXCEPT ![r] = Cardinality(OnTheWay(r))]
  /\ UNCHANGED <<recipient_id, mailbox, delivered, halt, leeway>>

RequestStep(s) ==
  \/ SendRead(s)     \/ SendCommit(s)
  \/ PauseRead(s)    \/ PauseCommit(s)
  \/ ResumeRead(s)   \/ ResumeCommit(s)
  \/ CancelRead(s)   \/ CancelCommit(s)
  \/ RetryRead(s)    \/ RetryCommit(s)
  \/ UpdateRead(s)   \/ UpdateCommit(s)
  \/ AudienceRead(s) \/ AudienceCommit(s)
  \/ RemoveRead(s)   \/ RemoveCommit(s)
  \/ DeleteRead(s)   \/ DeleteCommit(s)
  \/ StaleCommit(s)

RecipientNext ==
  \/ \E a \in Addresses : ImportRecipient(a)
  \/ \E r \in RecipientIds : DeleteRecipient(r) \/ Unsubscribe(r)

RequestNext ==
  \/ \E s \in Sessions : RequestStep(s)
  \/ RecipientNext

=============================================================================
