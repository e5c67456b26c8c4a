----------------------------- MODULE SenderWorker -----------------------------
(***************************************************************************)
(* The sender worker of app/services/sender.py, one per process, with what *)
(* app/main.py does to the queue when the process starts.  An action is    *)
(* the code between two points where another process or a handler can come *)
(* in: one statement and its commit, or one exchange with the mail server. *)
(*                                                                         *)
(*   off -> idle -> polling [-> claiming] -> load -> connect -> loop       *)
(*   loop -> fetch -> entry -> check -> send [-> resend] -> record -> entry*)
(*   fetch -> finish, connect -> failing, and from anywhere in between     *)
(*   -> leaving -> idle; a process ends in "exited" or "crashed".          *)
(***************************************************************************)
EXTENDS CampaignState

CONSTANTS
  BatchSize,       \* BATCH_SIZE
  MaxDown,         \* bound: how many processes stop or crash
  MaxDbErrors,     \* bound: how many statements of a worker fail
  MaxLostReplies,  \* bound: how many replies of the mail server are lost
  MaxOverruns      \* bound: how often a message outlasts LEASE_SECONDS

ASSUME WorkerAssumption ==
  /\ BatchSize \in Nat \ {0}
  /\ MaxDown \in Nat
  /\ MaxDbErrors \in Nat
  /\ MaxLostReplies \in Nat
  /\ MaxOverruns \in Nat

Goto(w, from, to) ==
  /\ pc[w] = from
  /\ pc' = [pc EXCEPT ![w] = to]

\* The locals of a call that returns, raises or dies; the claim is being worked
\* on until the worker has left _send_campaign.
Forget(w) ==
  /\ seen' = [seen EXCEPT ![w] = ""]
  /\ loaded' = [loaded EXCEPT ![w] = NotLoaded]
  /\ batch' = [batch EXCEPT ![w] = {}]
  /\ skips' = [skips EXCEPT ![w] = {}]
  /\ outcome' = [outcome EXCEPT ![w] = ""]
  /\ serving' = [serving EXCEPT ![w] = IF pc'[w] \in Sending THEN @ ELSE 0]

-----------------------------------------------------------------------------
(* The process *)

\* (Mistake: every instance that starts puts the campaign back in the queue.)
RequeuesAtStart_Always == TRUE

\* Only a single instance knows that nobody is sending when it starts.
RequeuesAtStart == Sqlite

\* bootstrap, then start_worker.  A SQLite installation is a single process.
Start(w) ==
  /\ Goto(w, "off", "idle")
  /\ Sqlite => \A v \in Workers : ~Alive(v)
  /\ status' =
       IF RequeuesAtStart /\ status = "sending" THEN "queued" ELSE status
  /\ UNCHANGED <<requestVars, stopping, localVars, faultVars, dryRun, content,
                 claimedBy, lease, entryVars, recipientVars, round,
                 historyVars>>

Down == {w \in Workers : pc[w] \in {"exited", "crashed"}} \cup stopping

\* stop_worker: the shutdown part of the lifespan.
Stop(w) ==
  /\ Alive(w)
  /\ w \notin stopping
  /\ Cardinality(Down) < MaxDown
  /\ stopping' = stopping \cup {w}
  /\ UNCHANGED <<requestVars, pc, localVars, faultVars, storeVars>>

Exit(w) ==
  /\ w \in stopping
  /\ Goto(w, "idle", "exited")
  /\ UNCHANGED <<requestVars, stopping, localVars, faultVars, storeVars>>

\* The process dies: killed, out of memory, or still busy STOP_TIMEOUT after
\* it was asked to stop, when the daemon thread ends with the process.
Crash(w) ==
  /\ Alive(w)
  /\ w \in stopping \/ Cardinality(Down) < MaxDown
  /\ pc' = [pc EXCEPT ![w] = "crashed"]
  /\ Forget(w)
  /\ UNCHANGED <<requestVars, stopping, faultVars, storeVars>>

\* LEASE_SECONDS pass without a renewal: the owner is gone, or one message and
\* the wait after it took longer than that.
Lapse ==
  /\ lease = "live"
  /\ lease' = "lapsed"
  /\ \/ pc[claimedBy] \notin Sending /\ UNCHANGED overruns
     \/ /\ pc[claimedBy] \in Sending
        /\ overruns < MaxOverruns
        /\ overruns' = overruns + 1
  /\ UNCHANGED <<requestVars, pc, stopping, localVars, dbErrors, lostReplies,
                 status, dryRun, content, claimedBy, entryVars, recipientVars,
                 round, historyVars>>

-----------------------------------------------------------------------------
(* run and _claim_campaign *)

Poll(w) ==
  /\ w \notin stopping
  /\ Goto(w, "idle", "polling")
  /\ UNCHANGED <<requestVars, stopping, localVars, faultVars, storeVars>>

ClaimNothing(w) ==
  /\ ~Claimable
  /\ Goto(w, "polling", "idle")
  /\ UNCHANGED <<requestVars, stopping, localVars, faultVars, storeVars>>

\* (Mistake: the claim reads without FOR UPDATE.)
RowLocks_None == FALSE

\* SKIP LOCKED needs row locks, and SQLite has none.
RowLocks == ~Sqlite

\* The columns a claim writes: the status only if the row was read as queued,
\* and then over whatever a handler has written since.
TakeOver(w, read) ==
  /\ status' = IF read = "queued" THEN "sending" ELSE status
  /\ claimedBy' = w
  /\ lease' = "live"
  /\ serving' = [serving EXCEPT ![w] = round]
  /\ halt' = IF read = "queued" /\ halt = "stands" THEN "overwritten" ELSE halt
  /\ UNCHANGED <<dryRun, content, entryVars, recipientVars, round, delivered,
                 leeway, grace>>

\* FOR UPDATE SKIP LOCKED: the row cannot change before the commit.
Claim(w) ==
  /\ RowLocks
  /\ Claimable
  /\ Goto(w, "polling", "load")
  /\ TakeOver(w, status)
  /\ UNCHANGED <<requestVars, stopping, seen, loaded, batch, skips, outcome,
                 faultVars>>

\* Without row locks the read is a step of its own.
ClaimRead(w) ==
  /\ ~RowLocks
  /\ Claimable
  /\ Goto(w, "polling", "claiming")
  /\ seen' = [seen EXCEPT ![w] = status]
  /\ UNCHANGED <<requestVars, stopping, serving, loaded, batch, skips, outcome,
                 faultVars, storeVars>>

ClaimWrite(w) ==
  /\ Exists
  /\ Goto(w, "claiming", "load")
  /\ TakeOver(w, seen[w])
  /\ seen' = [seen EXCEPT ![w] = ""]
  /\ UNCHANGED <<requestVars, stopping, loaded, batch, skips, outcome,
                 faultVars>>

\* The row is gone: the flush raises, run logs it and waits.
ClaimStale(w) ==
  /\ ~Exists
  /\ Goto(w, "claiming", "idle")
  /\ Forget(w)
  /\ UNCHANGED <<requestVars, stopping, faultVars, storeVars>>

-----------------------------------------------------------------------------
(* _send_campaign up to its loop *)

Load(w) ==
  /\ Exists
  /\ Goto(w, "load", IF dryRun THEN "loop" ELSE "connect")
  /\ loaded' = [loaded EXCEPT ![w] = [content |-> content, dryRun |-> dryRun]]
  /\ UNCHANGED <<requestVars, stopping, seen, serving, batch, skips, outcome,
                 faultVars, storeVars>>

LoadNothing(w) ==
  /\ ~Exists
  /\ Goto(w, "load", "idle")
  /\ Forget(w)
  /\ UNCHANGED <<requestVars, stopping, faultVars, storeVars>>

Connect(w) ==
  /\ pc[w] = "connect"
  /\ \E to \in {"loop", "failing"} : pc' = [pc EXCEPT ![w] = to]
  /\ UNCHANGED <<requestVars, stopping, localVars, faultVars, storeVars>>

\* _fail_campaign
Fail(w) ==
  /\ Goto(w, "failing", "leaving")
  /\ status' = IF Exists THEN "failed" ELSE status
  /\ UNCHANGED <<requestVars, stopping, localVars, faultVars, dryRun, content,
                 claimedBy, lease, entryVars, recipientVars, round,
                 historyVars>>

-----------------------------------------------------------------------------
(* The loop *)

CheckStatus(w) ==
  /\ Goto(w, "loop",
          IF w \in stopping \/ status # "sending" THEN "leaving" ELSE "fetch")
  /\ UNCHANGED <<requestVars, stopping, localVars, faultVars, storeVars>>

\* (Mistake: one row too few.)
FirstPending_Short ==
  {e \in Pending : Cardinality({f \in Pending : f < e}) < BatchSize - 1}

\* ORDER BY id LIMIT BATCH_SIZE
FirstPending ==
  {e \in Pending : Cardinality({f \in Pending : f < e}) < BatchSize}

Fetch(w) ==
  /\ Goto(w, "fetch", IF FirstPending = {} THEN "finish" ELSE "entry")
  /\ batch' = [batch EXCEPT ![w] =
                 {[id |-> e, email |-> address[e],
                   recipient |-> recipient_id[e]] : e \in FirstPending}]
  /\ UNCHANGED <<requestVars, stopping, seen, serving, loaded, skips, outcome,
                 faultVars, storeVars>>

\* _finish_campaign and the commit at the end of the session.
Finish(w) ==
  /\ Goto(w, "finish", "leaving")
  /\ status' = IF Exists THEN "completed" ELSE status
  /\ UNCHANGED <<requestVars, stopping, localVars, faultVars, dryRun, content,
                 claimedBy, lease, entryVars, recipientVars, round,
                 historyVars>>

\* A commit flushes the rows marked skipped before it.  When one of them has
\* been deleted the flush raises and the whole transaction is rolled back.
Flushable(w) == skips[w] \subseteq Rows

Flush(w) ==
  /\ entry' = [e \in RowIds |-> IF e \in skips[w] THEN "skipped" ELSE entry[e]]
  /\ skips' = [skips EXCEPT ![w] = {}]
  /\ UNCHANGED <<address, recipient_id>>

\* The batch is used up, or a stop is seen between two messages.
EndBatch(w) ==
  /\ Flushable(w)
  /\ \/ batch[w] = {} /\ Goto(w, "entry", "loop")
     \/ batch[w] # {} /\ w \in stopping /\ Goto(w, "entry", "leaving")
  /\ Flush(w)
  /\ UNCHANGED <<requestVars, stopping, seen, serving, loaded, batch, outcome,
                 faultVars, campaignVars, recipientVars, round, historyVars>>

\* (Mistake: the renewal does not look at the status.)
Mine_AnyStatus(w) == claimedBy = w

\* (Mistake: the renewal does not look at the owner.)
Mine_AnyOwner(w) == status = "sending"

Mine(w) == status = "sending" /\ claimedBy = w

\* _renew_lease
Renew(w) ==
  /\ batch[w] # {}
  /\ w \notin stopping
  /\ Flushable(w)
  /\ Goto(w, "entry", IF Mine(w) THEN "check" ELSE "leaving")
  /\ lease' = IF Mine(w) THEN "live" ELSE lease
  /\ Flush(w)
  /\ UNCHANGED <<requestVars, stopping, seen, serving, loaded, batch, outcome,
                 faultVars, status, dryRun, content, claimedBy, recipientVars,
                 round, historyVars>>

StaleFlush(w) ==
  /\ ~Flushable(w)
  /\ Goto(w, "entry", "leaving")
  /\ Forget(w)
  /\ UNCHANGED <<requestVars, stopping, faultVars, storeVars>>

\* (Mistake: the audience was filtered when it was put together, so the flag is
\* not read again.)
IsSuppressed_Never(w) == FALSE

\* The recipient is read again for every message, by the recipient_id the row
\* had when it was fetched.  Without one, or when the recipient was deleted,
\* there is no flag to look at.
IsSuppressed(w) == Current(w).recipient \in suppressed

CheckRecipient(w) ==
  /\ pc[w] = "check"
  /\ ~IsSuppressed(w)
  /\ Goto(w, "check", "send")
  /\ UNCHANGED <<requestVars, stopping, localVars, faultVars, storeVars>>

Skip(w) ==
  /\ pc[w] = "check"
  /\ IsSuppressed(w)
  /\ Goto(w, "check", "entry")
  /\ batch' = [batch EXCEPT ![w] = @ \ {Current(w)}]
  /\ skips' = [skips EXCEPT ![w] = @ \cup {Current(w).id}]
  /\ UNCHANGED <<requestVars, stopping, seen, serving, loaded, outcome,
                 faultVars, storeVars>>

-----------------------------------------------------------------------------
(* One message: render, SmtpSender.send, and the commit of its outcome *)

Conclude(w, result) ==
  /\ pc' = [pc EXCEPT ![w] = "record"]
  /\ outcome' = [outcome EXCEPT ![w] = result]

\* The mail server takes the message.  One that will be repeated, for its reply
\* was lost, is still in hand.
HandOver(w, repeated) ==
  LET a == Current(w).email
      r == Current(w).recipient
      spent == IF repeated THEN 0 ELSE 1
  IN  /\ delivered' = [delivered EXCEPT ![a] = @ + 1]
      /\ leeway' = IF halt = "stands" THEN leeway - spent ELSE leeway
      /\ grace' = IF r \in suppressed THEN [grace EXCEPT ![r] = @ - spent]
                  ELSE grace
      /\ UNCHANGED halt

\* (Mistake: a dry run puts the row back, for the real run after it.)
DryRun_Pending(w) ==
  /\ pc[w] = "send"
  /\ loaded[w].dryRun
  /\ Conclude(w, "pending")
  /\ UNCHANGED <<requestVars, stopping, seen, serving, loaded, batch, skips,
                 faultVars, storeVars>>

\* (Mistake: a message that was only rendered is recorded as sent.)
DryRun_Sent(w) ==
  /\ pc[w] = "send"
  /\ loaded[w].dryRun
  /\ Conclude(w, "sent")
  /\ UNCHANGED <<requestVars, stopping, seen, serving, loaded, batch, skips,
                 faultVars, storeVars>>

DryRun(w) ==
  /\ pc[w] = "send"
  /\ loaded[w].dryRun
  /\ Conclude(w, "skipped")
  /\ UNCHANGED <<requestVars, stopping, seen, serving, loaded, batch, skips,
                 faultVars, storeVars>>

Accepted(w) ==
  /\ pc[w] \in {"send", "resend"}
  /\ ~loaded[w].dryRun
  /\ HandOver(w, FALSE)
  /\ Conclude(w, "sent")
  /\ UNCHANGED <<requestVars, stopping, seen, serving, loaded, batch, skips,
                 faultVars, campaignVars, entryVars, recipientVars, round>>

\* A template that does not render, or a message or connection refused.
Refused(w) ==
  /\ pc[w] \in {"send", "resend"}
  /\ Conclude(w, "failed")
  /\ UNCHANGED <<requestVars, stopping, seen, serving, loaded, batch, skips,
                 faultVars, storeVars>>

\* The server has the message but its reply never arrives, which smtplib
\* reports as a disconnect: reconnect and send again, but only once.
ReplyLost(w) ==
  /\ pc[w] \in {"send", "resend"}
  /\ ~loaded[w].dryRun
  /\ lostReplies < MaxLostReplies
  /\ lostReplies' = lostReplies + 1
  /\ HandOver(w, pc[w] = "send")
  /\ \/ pc[w] = "send" /\ Goto(w, "send", "resend") /\ UNCHANGED outcome
     \/ pc[w] = "resend" /\ Conclude(w, "failed")
  /\ UNCHANGED <<requestVars, stopping, seen, serving, loaded, batch, skips,
                 dbErrors, overruns, campaignVars, entryVars, recipientVars,
                 round>>

Record(w) ==
  /\ Goto(w, "record", "entry")
  /\ Current(w).id \in Rows
  /\ entry' = [entry EXCEPT ![Current(w).id] = outcome[w]]
  /\ batch' = [batch EXCEPT ![w] = @ \ {Current(w)}]
  /\ outcome' = [outcome EXCEPT ![w] = ""]
  /\ UNCHANGED <<requestVars, stopping, seen, serving, loaded, skips,
                 faultVars, campaignVars, address, recipient_id, recipientVars,
                 round, historyVars>>

\* The row was deleted: the commit raises and the outcome is lost.
RecordStale(w) ==
  /\ Goto(w, "record", "leaving")
  /\ Current(w).id \notin Rows
  /\ Forget(w)
  /\ UNCHANGED <<requestVars, stopping, faultVars, storeVars>>

-----------------------------------------------------------------------------
(* The way out *)

\* (Mistake: the lease is left to lapse.)
HandsBack_Never(w) == FALSE

HandsBack(w) == w \in stopping /\ claimedBy = w

\* The finally block: _release_lease when the worker is stopping.
Leave(w) ==
  /\ Goto(w, "leaving", "idle")
  /\ lease' = IF HandsBack(w) THEN "none" ELSE lease
  /\ Forget(w)
  /\ UNCHANGED <<requestVars, stopping, faultVars, status, dryRun, content,
                 claimedBy, entryVars, recipientVars, round, historyVars>>

\* A statement fails - a lost connection, a database that stays locked - and
\* the exception ends the call.  run catches it and polls again.
DbError(w) ==
  /\ dbErrors < MaxDbErrors
  /\ dbErrors' = dbErrors + 1
  /\ \/ \E from \in {"polling", "claiming", "load", "leaving"} :
          Goto(w, from, "idle")
     \/ \E from \in {"failing", "loop", "fetch", "finish", "entry", "check",
                     "record"} :
          Goto(w, from, "leaving")
  /\ Forget(w)
  /\ UNCHANGED <<requestVars, stopping, lostReplies, overruns, storeVars>>

\* What a running process does by itself.
WorkerStep(w) ==
  \/ Exit(w) \/ Poll(w)
  \/ ClaimNothing(w) \/ Claim(w)
  \/ ClaimRead(w) \/ ClaimWrite(w) \/ ClaimStale(w)
  \/ Load(w) \/ LoadNothing(w) \/ Connect(w) \/ Fail(w)
  \/ CheckStatus(w) \/ Fetch(w) \/ Finish(w)
  \/ EndBatch(w) \/ Renew(w) \/ StaleFlush(w) \/ CheckRecipient(w) \/ Skip(w)
  \/ DryRun(w) \/ Accepted(w) \/ Refused(w) \/ ReplyLost(w)
  \/ Record(w) \/ RecordStale(w) \/ Leave(w)

\* What happens to it.
WorkerFault(w) == Stop(w) \/ Crash(w) \/ DbError(w)

WorkerNext ==
  \/ \E w \in Workers : Start(w) \/ WorkerStep(w) \/ WorkerFault(w)
  \/ Lapse

=============================================================================
