--------------------------- MODULE CampaignSending ---------------------------
(***************************************************************************)
(* One campaign, the operators' requests about it, and the sender workers  *)
(* of every process started against the same database.                     *)
(***************************************************************************)
EXTENDS CampaignRequests, SenderWorker

TypeOK ==
  /\ StoreTypeOK
  /\ RequestTypeOK
  /\ WorkerTypeOK

Init ==
  /\ StoreInit
  /\ RequestInit
  /\ WorkerInit

Next ==
  \/ RequestNext
  \/ WorkerNext

Spec == Init /\ [][Next]_vars

\* A running worker keeps running; a container that ended is started again
\* while there are starts left; time passes.  Operators, signals, crashes and
\* errors owe nobody a step.
Fairness ==
  /\ \A w \in Workers : WF_vars(WorkerStep(w))
  /\ WF_vars(\E w \in Workers : Start(w))
  /\ WF_vars(Lapse)

FairSpec == Spec /\ Fairness

-----------------------------------------------------------------------------
(* What the lease gives *)

\* For every time an operator puts the campaign in the queue, one worker at a
\* time serves it - through stops, crashes and take-overs - as long as no
\* message outlasts its lease.
\* (_claim_campaign, _renew_lease, _release_lease, bootstrap)
ExclusivePerRound ==
  overruns = 0 =>
    \A v, w \in Workers :
      v # w /\ pc[v] \in Sending /\ pc[w] \in Sending => serving[v] # serving[w]

\* A worker that is about to handle an address goes by the message and the
\* dry-run setting the campaign has now, whoever edited it during a pause.
\* (_send_campaign reads both once, before its loop)
SendsCurrentContent ==
  [][\A w \in Workers : pc[w] = "entry" /\ pc'[w] = "check" =>
       loaded[w] = [content |-> content, dryRun |-> dryRun]]_vars

\* The only claim that outlives its work is that of a crashed process: what a
\* running or a cleanly stopped one holds, it is serving, or has handed back.
\* (run, the finally block of _send_campaign)
ClaimIsServed ==
  status = "sending" /\ lease = "live" /\ dbErrors = 0 =>
    pc[claimedBy] \in Sending \cup {"crashed"}

(* What the recipients see *)

Mishaps ==
  Cardinality({w \in Workers : pc[w] = "crashed"}) + dbErrors + lostReplies
    + overruns

\* Nobody gets a campaign twice, but for one more copy for each process that
\* died, commit that failed or reply that was lost, as long as no message
\* outlasts its lease.
\* (_renew_lease before and the commit after each message, retry_failed)
ResendsAccountedFor ==
  overruns = 0 => \A a \in Addresses : delivered[a] <= 1 + Mishaps

\* Whatever operators pause, resume, retry and send again at the same time, and
\* however many workers that leaves with a message in flight: each time the
\* campaign was put in the queue, and each mishap, is good for one copy.
\* (_claim_campaign, _renew_lease, _finish_campaign, bootstrap)
CopiesPerOrder == \A a \in Addresses : delivered[a] <= round + Mishaps

\* "... under a lease the sending instance renews before every message, so
\* exactly one worker sends it" (docs/advanced-config.md:239): without mishaps
\* nobody gets a campaign twice.
OneWorkerSends == Mishaps = 0 => \A a \in Addresses : delivered[a] <= 1

\* A pause or a cancel takes effect between messages: from its commit until an
\* operator puts the campaign in the queue again nothing goes out but the
\* messages the workers had in hand at that commit, and the repetition of one
\* whose reply was lost.  Not so where a claim on SQLite has written over the
\* operator's status (PauseHolds).
\* (_renew_lease in the loop, _claim_campaign, bootstrap)
StopsBetweenMessages == halt = "stands" => leeway >= 0

\* Through a row that names its recipient, whoever unsubscribes gets nothing but
\* a message that had been through the check already, also when the campaign
\* is retried, resumed or taken over later.  (_send_campaign, unsubscribe)
UnsubscribeHolds == \A r \in suppressed : grace[r] >= 0

\* A row says sent only if its address was handed the message.
SentWasDelivered ==
  \A e \in Rows : entry[e] = "sent" => delivered[address[e]] > 0

(* What the operators see *)

\* No worker takes a paused or cancelled campaign back to sending.
PauseHolds == [][Stopped => status' # "sending"]_status

\* A campaign is completed only when everybody in it has been handled.
CompletedLeavesNobody ==
  [][status' = "completed" /\ status # "completed" => Pending = {}]_status

\* "draft -> queued -> sending -> completed | paused | cancelled | failed"
\* (app/models.py:209): a campaign that ends was being sent.
EndsFromSending ==
  [][status' \in {"completed", "failed"} /\ status' # status =>
       status = "sending"]_status

\* "Tick Dry run and send. [...] Untick Dry run and send for real."
\* (docs/guide.md:96-110): after the dry run the audience is there to send to.
DryRunThenSend == status = "completed" /\ dryRun => Pending # {}

\* A campaign in the queue gets out of the workers' hands: it is completed, or
\* failed, or an operator stopped it.
QueueDrains == status = "queued" ~> status \notin ACTIVE_STATUSES

-----------------------------------------------------------------------------
(* What it promises altogether *)

Launched == {"check", "send"}

\* The second try of SmtpSender.send is its last.
TriesLeft(w) ==
  IF pc[w] \in Launched THEN 2 ELSE IF pc[w] = "resend" THEN 1 ELSE 0

Service == INSTANCE ServedOrders WITH
  orders <- round,
  open <- status \in ACTIVE_STATUSES,
  serves <- serving,
  tries <- [w \in Workers |-> TriesLeft(w)],
  handed <- delivered

\* The requests, the claims with their leases, and the loop of every worker are
\* together no more than orders that one worker at a time serves: a message is
\* set off only for the latest of them, and only while that one is open.
\* (every handler of the sending, _claim_campaign, _send_campaign, stop_worker)
ServesOrders == Service!Spec

=============================================================================
