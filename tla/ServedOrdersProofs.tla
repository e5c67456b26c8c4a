------------------------- MODULE ServedOrdersProofs -------------------------
(***************************************************************************)
(* CampaignSending implements ServedOrders on PostgreSQL, for any number   *)
(* of workers, requests, rows, crashes, errors and lost replies, as long   *)
(* as no message outlasts its lease.                                       *)
(***************************************************************************)
EXTENDS CampaignSendingProofs

USE DEF Locations, Sending, ACTIVE_STATUSES, campaignVars, entryVars,
        recipientVars, historyVars, storeVars, requestVars, localVars,
        faultVars, workerVars, vars

\* What the mapping needs besides OneServer: only an order opens the campaign,
\* a worker that sends nothing serves nothing, and who holds the claim of a
\* campaign in "sending" serves the latest order.
OpenWasOrdered == status \in ACTIVE_STATUSES => round > 0

IdleServesNothing == \A w \in Workers : ~Serves(w) => serving[w] = 0

ClaimIsLatest ==
  \A w \in Workers : Serves(w) /\ Mine(w) => serving[w] = round

Orderly ==
  /\ overruns = 0
  /\ OpenWasOrdered
  /\ IdleServesNothing
  /\ ClaimIsLatest

Inv == TypeInv /\ OneServer /\ Orderly

Tries == [w \in Workers |-> TriesLeft(w)]

-----------------------------------------------------------------------------
(* The strengthening is an invariant *)

\* Nobody serves anything before the first order.
LEMMA OrderlyInit == Init => Orderly
<1> SUFFICES ASSUME Init PROVE Orderly
  OBVIOUS
<1>1. status = "draft" /\ overruns = 0
  BY DEF Init, StoreInit, WorkerInit
<1>2. \A w \in Workers : serving[w] = 0 /\ pc[w] = "off"
  BY DEF Init, WorkerInit
<1> QED
  BY <1>1, <1>2
  DEF Orderly, OpenWasOrdered, IdleServesNothing, ClaimIsLatest, Serves

\* The handlers touch no worker, and hand nobody a message.
LEMMA RequestsTouchNoWorker ==
  ASSUME RequestNext
  PROVE  UNCHANGED <<workerVars, delivered>>
  BY RecipientPages
  DEF RequestNext, RequestStep, SendRead, PauseRead, ResumeRead, CancelRead,
      RetryRead, UpdateRead, AudienceRead, RemoveRead, DeleteRead, Begin,
      SendCommit, PauseCommit, ResumeCommit, CancelCommit, RetryCommit,
      UpdateCommit, AudienceCommit, RemoveCommit, DeleteCommit, Commit,
      StaleCommit, Requeue, Halt

\* A call that forgets its locals keeps its order only while it is sending, and
\* leaves the other workers theirs.
LEMMA ForgottenServesNothing ==
  ASSUME Inv, NEW w \in Workers, NEW to, pc' = [pc EXCEPT ![w] = to], Forget(w)
  PROVE  IdleServesNothing'
<1>1. \A v \in Workers : v # w => pc'[v] = pc[v] /\ serving'[v] = serving[v]
  BY ServingTyped DEF Inv, Forget
<1>2. pc'[w] = to
  BY ServingTyped DEF Inv
<1>3. serving'[w] = IF to \in Sending THEN serving[w] ELSE 0
  BY <1>2, ServingTyped DEF Inv, Forget
<1> QED
  BY <1>1, <1>2, <1>3 DEF Inv, Orderly, IdleServesNothing, Serves

\* A worker that moves about in the loop, or outside of it, keeps its order.
LEMMA MovingServesTheSame ==
  ASSUME Inv, NEW w \in Workers, NEW to, pc' = [pc EXCEPT ![w] = to],
         to \in Sending <=> pc[w] \in Sending, UNCHANGED serving
  PROVE  IdleServesNothing'
<1>1. \A v \in Workers : v # w => pc'[v] = pc[v]
  BY ServingTyped DEF Inv
<1>2. pc'[w] = to
  BY ServingTyped DEF Inv
<1> QED
  BY <1>1, <1>2 DEF Inv, Orderly, IdleServesNothing, Serves

\* Whatever a worker does that is not a claim, those who send nothing have
\* nothing to serve.
LEMMA WorkersServeOrForget ==
  ASSUME Inv, NEW w \in Workers, WorkerStep(w) \/ WorkerFault(w), ~Claim(w),
         ~ClaimWrite(w)
  PROVE  IdleServesNothing'
<1> USE MovingServesTheSame, ForgottenServesNothing
<1>1. Exit(w) \/ Poll(w) \/ ClaimNothing(w) \/ ClaimRead(w)
      => IdleServesNothing'
  BY DEF Exit, Poll, ClaimNothing, ClaimRead, Goto
<1>2. ClaimStale(w) \/ LoadNothing(w) \/ StaleFlush(w) \/ RecordStale(w)
        \/ Leave(w) \/ Crash(w)
      => IdleServesNothing'
  BY DEF ClaimStale, LoadNothing, StaleFlush, RecordStale, Leave, Crash, Goto
<1>3. Load(w) \/ Fail(w) \/ CheckStatus(w) \/ Fetch(w) \/ Finish(w)
      => IdleServesNothing'
  BY DEF Load, Fail, CheckStatus, Fetch, Finish, Goto
<1>4. Connect(w) => IdleServesNothing'
  BY DEF Connect
<1>5. EndBatch(w) \/ Renew(w) \/ CheckRecipient(w) \/ Skip(w) \/ Record(w)
      => IdleServesNothing'
  BY DEF EndBatch, Renew, CheckRecipient, Skip, Record, Goto
<1>6. DryRun(w) \/ Accepted(w) \/ Refused(w) => IdleServesNothing'
  BY DEF DryRun, Accepted, Refused, Conclude
<1>7. ReplyLost(w) => IdleServesNothing'
  BY DEF ReplyLost, Conclude, Goto
<1>8. Stop(w) => IdleServesNothing'
  BY DEF Stop, Inv, Orderly, IdleServesNothing, Serves
<1>9. DbError(w) => IdleServesNothing'
  BY DEF DbError, Goto
<1> QED
  BY <1>1, <1>2, <1>3, <1>4, <1>5, <1>6, <1>7, <1>8, <1>9
  DEF WorkerStep, WorkerFault

\* Nobody comes to own a campaign, and nobody's order changes, in a quiet step.
LEMMA QuietKeepsOrderly ==
  ASSUME Inv, Quiet, IdleServesNothing'
  PROVE  Orderly'
<1>1. OpenWasOrdered'
  BY DEF Inv, Orderly, OpenWasOrdered, Quiet
<1>2. ClaimIsLatest'
  BY DEF Inv, Orderly, ClaimIsLatest, Quiet, Mine
<1>3. overruns' = 0
  BY DEF Inv, Orderly, Quiet
<1> QED
  BY <1>1, <1>2, <1>3 DEF Orderly

\* A claim takes the latest order for the worker that makes it.
LEMMA ClaimKeepsOrderly ==
  ASSUME Inv, NEW w \in Workers, Claim(w)
  PROVE  Orderly'
<1>1. /\ pc' = [pc EXCEPT ![w] = "load"]
      /\ serving' = [serving EXCEPT ![w] = round]
      /\ claimedBy' = w
      /\ UNCHANGED <<round, overruns>>
      /\ status \in ACTIVE_STATUSES
  BY DEF Claim, Claimable, TakeOver, Goto
<1>2. \A v \in Workers : v # w => pc'[v] = pc[v] /\ serving'[v] = serving[v]
  BY <1>1, ServingTyped DEF Inv
<1>3. pc'[w] = "load" /\ serving'[w] = round
  BY <1>1, ServingTyped DEF Inv
<1>4. OpenWasOrdered' /\ overruns' = 0
  BY <1>1 DEF Inv, Orderly, OpenWasOrdered
<1>5. IdleServesNothing'
  BY <1>2, <1>3 DEF Inv, Orderly, IdleServesNothing, Serves
<1>6. ClaimIsLatest'
  BY <1>1, <1>3 DEF ClaimIsLatest, Mine
<1> QED
  BY <1>4, <1>5, <1>6 DEF Orderly

\* The strengthening is kept: every step is an order, a claim, or quiet.
LEMMA OrderlyStep ==
  ASSUME ~Sqlite, MaxOverruns = 0, Inv, [Next]_vars
  PROVE  Orderly'
<1>1. ASSUME RequestNext
      PROVE  Orderly'
  <2>1. IdleServesNothing'
    BY <1>1, RequestsTouchNoWorker
    DEF Inv, Orderly, IdleServesNothing, Serves
  <2>2. CASE Quiet
    BY <2>1, <2>2, QuietKeepsOrderly
  <2>3. CASE Requeue
    <3>1. overruns' = 0
      BY <1>1, RequestsTouchNoWorker DEF Inv, Orderly
    <3>2. OpenWasOrdered'
      BY <2>3, ServingTyped DEF Inv, OpenWasOrdered, Requeue
    <3>3. ClaimIsLatest'
      BY <2>3 DEF ClaimIsLatest, Mine, Requeue
    <3> QED
      BY <2>1, <3>1, <3>2, <3>3 DEF Orderly
  <2> QED
    BY <1>1, <2>2, <2>3, RequestsAreQuiet DEF Inv
<1>2. ASSUME NEW w \in Workers, WorkerStep(w) \/ WorkerFault(w)
      PROVE  Orderly'
  <2>1. CASE Claim(w)
    BY <2>1, ClaimKeepsOrderly
  <2>2. ~ClaimWrite(w)
    BY DEF ClaimWrite, Goto, Inv, OneServer, ClaimsAreLocked
  <2>3. ASSUME ~Claim(w)
        PROVE  IdleServesNothing'
    BY <1>2, <2>2, <2>3, WorkersServeOrForget
  <2>4. CASE Leave(w)
    <3>1. IdleServesNothing'
      BY <2>3, <2>4 DEF Leave, Claim, Goto
    <3>2. /\ UNCHANGED <<status, claimedBy, round, overruns>>
          /\ pc' = [pc EXCEPT ![w] = "idle"]
          /\ serving' = [serving EXCEPT ![w] = IF pc'[w] \in Sending THEN @
                                               ELSE 0]
      BY <2>4 DEF Leave, Goto, Forget
    <3>3. \A v \in Workers : v # w => pc'[v] = pc[v] /\ serving'[v] = serving[v]
      BY <3>2, ServingTyped DEF Inv
    <3>4. pc'[w] = "idle"
      BY <3>2, ServingTyped DEF Inv
    <3>5. ClaimIsLatest'
      BY <3>2, <3>3, <3>4 DEF Inv, Orderly, ClaimIsLatest, Mine, Serves
    <3> QED
      BY <3>1, <3>2, <3>5 DEF Inv, Orderly, OpenWasOrdered
  <2>5. CASE Quiet /\ ~Claim(w)
    BY <2>3, <2>5, QuietKeepsOrderly
  <2> QED
    BY <1>2, <2>1, <2>2, <2>4, <2>5, WorkersAreQuiet DEF Inv
<1>3. ASSUME NEW w \in Workers, Start(w)
      PROVE  Orderly'
  <2>1. /\ UNCHANGED <<status, claimedBy, round, overruns, serving>>
        /\ pc[w] = "off" /\ pc' = [pc EXCEPT ![w] = "idle"]
    BY <1>3 DEF Start, RequeuesAtStart, Goto
  <2>2. IdleServesNothing'
    BY <2>1, MovingServesTheSame
  <2>3. \A v \in Workers : Serves(v)' => Serves(v)
    BY <2>1, ServingTyped DEF Inv, Serves
  <2> QED
    BY <2>1, <2>2, <2>3
    DEF Inv, Orderly, OpenWasOrdered, ClaimIsLatest, Mine
<1>4. ASSUME Lapse
      PROVE  Orderly'
  BY <1>4
  DEF Lapse, Inv, Orderly, OpenWasOrdered, IdleServesNothing, ClaimIsLatest,
      Mine, Serves
<1>5. ASSUME UNCHANGED vars
      PROVE  Orderly'
  BY <1>5
  DEF Inv, Orderly, OpenWasOrdered, IdleServesNothing, ClaimIsLatest, Mine,
      Serves
<1> QED
  BY <1>1, <1>2, <1>3, <1>4, <1>5 DEF Next, WorkerNext

-----------------------------------------------------------------------------
(* Every step is a step of ServedOrders, or changes nothing of it *)

TriesAt(to) == IF to \in Launched THEN 2 ELSE IF to = "resend" THEN 1 ELSE 0

\* The tries left follow from where the worker goes.
LEMMA TriesMove ==
  ASSUME TypeInv, NEW w \in Workers, NEW to, pc' = [pc EXCEPT ![w] = to]
  PROVE  /\ Tries' = [Tries EXCEPT ![w] = TriesAt(to)]
         /\ Tries[w] = TriesAt(pc[w])
<1>1. pc'[w] = to /\ \A v \in Workers : v # w => pc'[v] = pc[v]
  BY ServingTyped
<1> QED
  BY <1>1 DEF Tries, TriesLeft, TriesAt

\* So a move that takes no message up and puts none down changes no tries.
LEMMA SameTries ==
  ASSUME TypeInv, NEW w \in Workers, NEW to, pc' = [pc EXCEPT ![w] = to],
         TriesAt(to) = TriesAt(pc[w])
  PROVE  Tries' = Tries
<1>1. Tries' = [Tries EXCEPT ![w] = TriesAt(to)] /\ Tries[w] = TriesAt(pc[w])
  BY TriesMove
<1> QED
  BY <1>1 DEF Tries

\* Nothing of the campaign's orders, their servers and their messages changes.
Unnoticed ==
  UNCHANGED <<round, status \in ACTIVE_STATUSES, serving, Tries, delivered>>

\* What the operators rely on starts with no order.
LEMMA InitMaps == Init => Service!Init
<1> SUFFICES ASSUME Init PROVE Service!Init
  OBVIOUS
<1>1. /\ round = 0 /\ status = "draft"
      /\ serving = [w \in Workers |-> 0]
      /\ pc = [w \in Workers |-> "off"]
      /\ delivered = [a \in Addresses |-> 0]
  BY DEF Init, StoreInit, WorkerInit
<1>2. \A w \in Workers : TriesLeft(w) = 0
  BY <1>1 DEF TriesLeft, Launched
<1> QED
  BY <1>1, <1>2 DEF Service!Init

\* The steps of a worker that nobody who waits for the campaign notices.
LEMMA UnnoticedSteps ==
  ASSUME Inv, NEW w \in Workers,
         \/ Exit(w) \/ Poll(w) \/ ClaimNothing(w) \/ ClaimRead(w)
         \/ Load(w) \/ Connect(w) \/ CheckStatus(w) \/ Fetch(w)
         \/ EndBatch(w) \/ CheckRecipient(w) \/ Record(w) \/ Stop(w)
  PROVE  Unnoticed
<1> USE SameTries DEF Inv, TriesAt, Launched, Unnoticed
<1>1. Exit(w) \/ Poll(w) \/ ClaimNothing(w) \/ ClaimRead(w) => Unnoticed
  BY DEF Exit, Poll, ClaimNothing, ClaimRead, Goto
<1>2. Load(w) \/ CheckStatus(w) \/ Fetch(w) => Unnoticed
  BY DEF Load, CheckStatus, Fetch, Goto
<1>3. Connect(w) => Unnoticed
  BY DEF Connect
<1>4. EndBatch(w) \/ CheckRecipient(w) \/ Record(w) => Unnoticed
  BY DEF EndBatch, CheckRecipient, Record, Goto
<1>5. Stop(w) => Unnoticed
  BY DEF Stop, Tries, TriesLeft
<1> QED
  BY <1>1, <1>2, <1>3, <1>4, <1>5

\* A finish, or a failure to connect, closes the order.
LEMMA ClosingSteps ==
  ASSUME Inv, NEW w \in Workers, Fail(w) \/ Finish(w)
  PROVE  Unnoticed \/ Service!Close
<1>1. UNCHANGED <<round, serving, delivered>>
  BY DEF Fail, Finish
<1>2. status' = status \/ status' \notin ACTIVE_STATUSES
  BY DEF Fail, Finish
<1>3. Tries' = Tries
  BY SameTries DEF Fail, Finish, Goto, Inv, TriesAt, Launched
<1> QED
  BY <1>1, <1>2, <1>3 DEF Unnoticed, Service!Close, Tries

\* A renewal sets a message off, for the latest order while it is open.
LEMMA RenewMaps ==
  ASSUME Inv, NEW w \in Workers, Renew(w)
  PROVE  Unnoticed \/ Service!SetOff(w)
<1>1. /\ pc[w] = "entry"
      /\ pc' = [pc EXCEPT ![w] = IF Mine(w) THEN "check" ELSE "leaving"]
      /\ UNCHANGED <<round, status, serving, delivered>>
  BY DEF Renew, Goto
<1>2. CASE Mine(w)
  <2>1. serving[w] = round /\ status = "sending"
    BY <1>1, <1>2 DEF Inv, Orderly, ClaimIsLatest, Serves, Mine
  <2>2. Tries' = [Tries EXCEPT ![w] = 2] /\ Tries[w] = 0
    BY <1>1, <1>2, TriesMove DEF Inv, TriesAt, Launched
  <2> QED
    BY <1>1, <2>1, <2>2 DEF Service!SetOff, Tries
<1>3. CASE ~Mine(w)
  BY <1>1, <1>3, SameTries DEF Inv, TriesAt, Launched, Unnoticed
<1> QED
  BY <1>2, <1>3

\* A message that is not handed over is given up.
LEMMA GivingUpSteps ==
  ASSUME Inv, NEW w \in Workers,
         Skip(w) \/ DryRun(w) \/ Refused(w) \/ StaleFlush(w) \/ RecordStale(w)
  PROVE  Service!GiveUp(w)
<1>1. UNCHANGED <<round, status, delivered>>
  BY DEF Skip, DryRun, Refused, StaleFlush, RecordStale
<1>2. PICK to \in {"entry", "record", "leaving"} : pc' = [pc EXCEPT ![w] = to]
  BY DEF Skip, DryRun, Refused, StaleFlush, RecordStale, Goto, Conclude
<1>3. Tries' = [Tries EXCEPT ![w] = 0]
  BY <1>2, TriesMove DEF Inv, TriesAt, Launched
<1>4. pc'[w] \in Sending
  BY <1>2, ServingTyped DEF Inv
<1>5. serving' = serving
  BY <1>4, ServingTyped
  DEF Skip, DryRun, Refused, StaleFlush, RecordStale, Forget, Inv
<1> QED
  BY <1>1, <1>3, <1>5 DEF Service!GiveUp, Tries

\* A worker that leaves, dies or loses its database lets go of the order, or at
\* least of the message.
LEMMA QuittingSteps ==
  ASSUME Inv, NEW w \in Workers,
         LoadNothing(w) \/ Leave(w) \/ Crash(w) \/ DbError(w)
  PROVE  Service!Quit(w) \/ Service!GiveUp(w)
<1>1. UNCHANGED <<round, status, delivered>>
  BY DEF LoadNothing, Leave, Crash, DbError
<1>2. PICK to \in {"idle", "leaving", "crashed"} : pc' = [pc EXCEPT ![w] = to]
  BY DEF LoadNothing, Leave, Crash, DbError, Goto
<1>3. Tries' = [Tries EXCEPT ![w] = 0]
  BY <1>2, TriesMove DEF Inv, TriesAt, Launched
<1>4. pc'[w] = to
  BY <1>2, ServingTyped DEF Inv
<1>5. serving' = [serving EXCEPT ![w] = IF to \in Sending THEN @ ELSE 0]
  BY <1>4, ServingTyped DEF LoadNothing, Leave, Crash, DbError, Forget, Inv
<1>6. to = "leaving" => serving' = serving
  BY <1>5, ServingTyped DEF Inv
<1> QED
  BY <1>1, <1>3, <1>5, <1>6 DEF Service!Quit, Service!GiveUp, Tries

\* What the mail server takes uses up a try of the message that was set off.
LEMMA HandOverMaps ==
  ASSUME Inv, NEW w \in Workers, Accepted(w) \/ ReplyLost(w)
  PROVE  \E a \in Addresses : Service!HandOver(w, a)
<1> DEFINE a == Current(w).email
<1>1. pc[w] \in {"send", "resend"}
  BY DEF Accepted, ReplyLost
<1>2. a \in Addresses
  BY <1>1, CurrentTyped DEF Inv
<1>3. /\ UNCHANGED <<round, status, serving>>
      /\ delivered' = [delivered EXCEPT ![a] = @ + 1]
  BY DEF Accepted, ReplyLost, HandOver
<1>4. PICK to \in {"resend", "record"} :
        pc' = [pc EXCEPT ![w] = to] /\ (to = "resend" => pc[w] = "send")
  BY <1>1 DEF Accepted, ReplyLost, Conclude, Goto
<1>5. Tries' = [Tries EXCEPT ![w] = TriesAt(to)] /\ Tries[w] = TriesAt(pc[w])
  BY <1>4, TriesMove DEF Inv
<1>6. TriesAt(to) \in 0..Tries[w] - 1
  BY <1>1, <1>4, <1>5 DEF TriesAt, Launched
<1>7. Service!HandOver(w, a)
  BY <1>3, <1>5, <1>6 DEF Service!HandOver, Tries
<1> QED
  BY <1>2, <1>7

\* A claim takes an open order that nobody serves.
LEMMA ClaimMaps ==
  ASSUME ~Sqlite, Inv, NEW w \in Workers, Claim(w)
  PROVE  Service!Take(w)
<1>1. /\ Claimable
      /\ pc[w] = "polling" /\ pc' = [pc EXCEPT ![w] = "load"]
      /\ serving' = [serving EXCEPT ![w] = round]
      /\ UNCHANGED <<round, delivered>>
      /\ status' = IF status = "queued" THEN "sending" ELSE status
  BY DEF Claim, TakeOver, Goto
<1>2. status \in ACTIVE_STATUSES /\ status' \in ACTIVE_STATUSES
  BY <1>1 DEF Claimable
<1>3. round > 0 /\ serving[w] = 0
  BY <1>1, <1>2 DEF Inv, Orderly, OpenWasOrdered, IdleServesNothing, Serves
<1>4. \A v \in Workers : serving[v] # round
  <2> SUFFICES ASSUME NEW v \in Workers, serving[v] = round PROVE FALSE
    OBVIOUS
  <2>1. Serves(v)
    BY <1>3, ServingTyped DEF Inv, Orderly, IdleServesNothing
  <2>2. lease = "live" /\ status # "queued"
    BY <2>1 DEF Inv, Orderly, OneServer, OwnerServes
  <2> QED
    BY <1>1, <2>2 DEF Claimable
<1>5. Tries' = Tries
  BY <1>1, SameTries DEF Inv, TriesAt, Launched
<1> QED
  BY <1>1, <1>2, <1>3, <1>4, <1>5 DEF Service!Take, Tries

\* A handler gives an order, closes it, or leaves it what it is.
LEMMA RequestsMap ==
  ASSUME Inv, RequestNext
  PROVE  Service!Order \/ Service!Close \/ Unnoticed
<1>1. UNCHANGED <<serving, delivered>> /\ Tries' = Tries
  BY RequestsTouchNoWorker DEF Tries, TriesLeft
<1>2. CASE Quiet
  BY <1>1, <1>2 DEF Quiet, Unnoticed, Service!Close, Tries
<1>3. CASE Requeue
  BY <1>1, <1>3 DEF Requeue, Service!Order, Tries
<1> QED
  BY <1>2, <1>3, RequestsAreQuiet DEF Inv

\* So every step maps to a step of ServedOrders or to none.
LEMMA StepMaps ==
  ASSUME ~Sqlite, Inv, [Next]_vars
  PROVE  [Service!Next]_Service!vars
<1>1. Unnoticed => UNCHANGED Service!vars
  BY DEF Unnoticed, Service!vars, Tries
<1>2. ASSUME RequestNext
      PROVE  Service!Next \/ Unnoticed
  BY <1>2, RequestsMap DEF Service!Next
<1>3. ASSUME NEW w \in Workers, WorkerStep(w) \/ WorkerFault(w)
      PROVE  Service!Next \/ Unnoticed
  <2>1. pc[w] # "claiming"
    BY DEF Inv, OneServer, ClaimsAreLocked
  <2>2. ~ClaimWrite(w) /\ ~ClaimStale(w)
    BY <2>1 DEF ClaimWrite, ClaimStale, Goto
  <2> QED
    BY <1>3, <2>2, UnnoticedSteps, ClosingSteps, RenewMaps, GivingUpSteps,
       QuittingSteps, HandOverMaps, ClaimMaps
    DEF WorkerStep, WorkerFault, Service!Next
<1>4. ASSUME NEW w \in Workers, Start(w)
      PROVE  Unnoticed
  BY <1>4, SameTries
  DEF Start, RequeuesAtStart, Goto, Inv, TriesAt, Launched, Unnoticed
<1>5. ASSUME Lapse
      PROVE  Unnoticed
  BY <1>5 DEF Lapse, Unnoticed, Tries, TriesLeft
<1>6. ASSUME UNCHANGED vars
      PROVE  Unnoticed
  BY <1>6 DEF Unnoticed, Tries, TriesLeft
<1> QED
  BY <1>1, <1>2, <1>3, <1>4, <1>5, <1>6 DEF Next, WorkerNext

\* The whole of the sending, on PostgreSQL and with messages that are done
\* within their lease, keeps what the operators rely on.
\* (every handler of the sending, _claim_campaign, _send_campaign, stop_worker)
THEOREM SendingServesOrders ==
  ASSUME ~Sqlite, MaxOverruns = 0
  PROVE  Spec => ServesOrders
<1>1. Init => Inv
  BY TypeInit, OneServerInit, OrderlyInit DEF Inv
<1>2. Inv /\ [Next]_vars => Inv'
  BY TypeStep, OneServerStep, OrderlyStep DEF Inv
<1>3. Init => Service!Init
  BY InitMaps
<1>4. Inv /\ [Next]_vars => [Service!Next]_Service!vars
  BY StepMaps
<1> QED
  BY <1>1, <1>2, <1>3, <1>4, PTL DEF Spec, ServesOrders, Service!Spec

=============================================================================
