------------------------ MODULE SendingPromisesProofs ------------------------
(***************************************************************************)
(* What recipients and operators may rely on, proved for any number of     *)
(* workers, sessions, rows, addresses and mishaps: how many copies anybody *)
(* gets, that an unsubscribe, a pause and a cancel take effect between     *)
(* messages, that edits reach the sender, that a claim is being served and *)
(* that a completed campaign has handled everybody.                        *)
(***************************************************************************)
EXTENDS CampaignSendingProofs, FiniteSetTheorems

USE DEF RowIds, Locations, Sending, ACTIVE_STATUSES, EntryStatuses, NoRequest,
        campaignVars, entryVars, recipientVars, historyVars, storeVars, requestVars,
        localVars, faultVars, workerVars, vars

-----------------------------------------------------------------------------
(* How many copies anybody gets: the invariant *)

\* The worker whose work on the audience counts: on SQLite the one that is
\* sending, on PostgreSQL the owner, if it claimed the latest order.
Holds(w) == Serves(w) /\ (Sqlite \/ (claimedBy = w /\ serving[w] = round))

Ids(w) == {r.id : r \in batch[w]}

\* A worker with a message, for the row e, that it may still hand over, or that
\* will leave the row to be retried.
Handles(w) ==
  \/ pc[w] \in {"check", "send", "resend"}
  \/ pc[w] = "record" /\ outcome[w] = "failed"

InFlight(w, e) == Handles(w) /\ Current(w).id = e

\* Workers that have lost their claim with such a message.
Strays(e) == {w \in Workers : InFlight(w, e) /\ ~Holds(w)}

\* The message was handed over, and that is not written down yet.
Concludes(w, e) ==
  pc[w] = "record" /\ outcome[w] = "sent" /\ Current(w).id = e

IsOpen(e) == entry[e] \in {"pending", "failed"}

\* Somebody may still begin a message for the row.
Due(e) ==
  /\ \A w \in Workers : Holds(w) => ~Concludes(w, e)
  /\ IsOpen(e) \/ \E w \in Workers : Holds(w) /\ e \in Ids(w)

\* The lease of the holder ran out, which has been counted already.
Spare == lease = "lapsed" /\ ~Sqlite /\ \E w \in Workers : Holds(w)

One(b) == IF b THEN 1 ELSE 0

\* The copies the address of row e has got, or may get without a mishap.
Copies(e) ==
  delivered[address[e]] + Cardinality(Strays(e)) + One(Due(e)) + One(Spare)

\* Operators that do one thing after the other, and let a campaign finish.
Calm == (\A s, t \in Sessions : s = t) /\ Ops \cap {"pause", "cancel"} = {}

\* The orders that may each cost a copy: on SQLite there is one process, and
\* calm operators put the campaign in the queue when nobody has it in hand.
Orders ==
  IF Sqlite \/ round = 0 \/ (Calm /\ overruns = 0) THEN 1 ELSE round

Original == 1 .. Len(Audience)

CopiesAreCounted == \A e \in Original : Copies(e) <= Orders + Mishaps

\* There are no rows, and no rows in a batch, but those of the draft.
RowsAreOriginal ==
  /\ \A e \in Original : address[e] = Audience[e]
  /\ \A e \in RowIds : entry[e] \in EntryStatuses => e \in Original
  /\ \A w \in Workers : \A r \in batch[w] :
       /\ r.id \in Original /\ r.email = Audience[r.id]
       /\ \A q \in batch[w] : q.id = r.id => q = r

IdleHasNoBatch == \A w \in Workers : ~Serves(w) => batch[w] = {}

OwnerIsLatest ==
  status = "sending" =>
    \A w \in Workers : Serves(w) /\ claimedBy = w => serving[w] = round

\* On PostgreSQL a campaign is in the queue for an order nobody serves, and its
\* lease is gone only when its owner has left.
QueuedIsUnserved ==
  ~Sqlite /\ (status = "queued" \/ lease = "none") =>
    \A w \in Workers : ~Holds(w)

\* Operators do no more than what is in Ops.
OnlyOps == \A s \in Sessions : request[s].op \in Ops \cup {"none"}

OthersGotNothing ==
  \A a \in Addresses :
    (\A e \in Original : Audience[e] # a) => delivered[a] = 0

NothingBeforeOrders ==
  round = 0 => /\ \A a \in Addresses : delivered[a] = 0
               /\ status \notin ACTIVE_STATUSES
               /\ \A w \in Workers : ~Serves(w) /\ pc[w] # "claiming"

AtItsWork(w) == Serves(w) /\ pc[w] # "leaving"

\* With calm operators whoever is at work serves the latest order, and the
\* campaign is not put in the queue before it is done.
CalmIsOrderly ==
  Calm /\ ~Sqlite /\ overruns = 0 =>
    /\ \A w \in Workers :
         AtItsWork(w) => serving[w] = round /\ status = "sending"
    /\ \A s \in Sessions :
         /\ request[s].op \notin {"pause", "cancel"}
         /\ request[s].op \in {"send", "resume", "delete"} =>
              status \notin ACTIVE_STATUSES

Framed ==
  /\ RowsAreOriginal /\ IdleHasNoBatch /\ OwnerIsLatest /\ QueuedIsUnserved
  /\ OnlyOps /\ OthersGotNothing /\ NothingBeforeOrders /\ CalmIsOrderly

CopyInv == TypeInv /\ OneServer /\ Framed /\ CopiesAreCounted

-----------------------------------------------------------------------------
(* What the steps of a worker change *)

OthersStay(w) ==
  \A v \in Workers : v # w =>
    /\ pc'[v] = pc[v] /\ serving'[v] = serving[v]
    /\ batch'[v] = batch[v] /\ outcome'[v] = outcome[v]

\* What a worker fetches of a row.
ItemOf(e) ==
  [id |-> e, email |-> address[e], recipient |-> recipient_id[e]]

\* A step of a worker that claims nothing.
Works(w) ==
  /\ OthersStay(w)
  /\ UNCHANGED <<round, address, request, claimedBy, content, dryRun>>
  /\ \/ status' = status
     \/ /\ pc[w] \in {"failing", "finish"} /\ pc'[w] = "leaving"
        /\ status' \notin ACTIVE_STATUSES
  /\ \/ lease' = lease
     \/ lease' = "live"
     \/ lease' = "none" /\ claimedBy = w /\ pc'[w] = "idle"
  /\ Serves(w)' => Serves(w) /\ serving'[w] = serving[w]
  /\ AtItsWork(w)' => AtItsWork(w)
  /\ ~Serves(w)' => batch'[w] = {} \/ (batch'[w] = batch[w] /\ ~Serves(w))
  /\ batch'[w] \subseteq batch[w] \/ batch'[w] \subseteq {ItemOf(e) : e \in Pending}
  /\ \A e \in RowIds :
       entry'[e] = entry[e] \/ (e \in Rows /\ entry'[e] \in EntryStatuses)
  /\ \/ delivered' = delivered
     \/ /\ pc[w] \in {"send", "resend"}
        /\ delivered' = [delivered EXCEPT ![Current(w).email] = @ + 1]
  /\ pc'[w] = "claiming" => pc[w] \in {"claiming", "polling"}
  /\ pc'[w] = "claiming" /\ pc[w] = "polling" => status \in ACTIVE_STATUSES

\* The types of what a worker's step changes.
LEMMA WorkerTyped ==
  TypeInv => /\ pc \in [Workers -> Locations]
             /\ serving \in [Workers -> Nat]
             /\ batch \in [Workers -> SUBSET Items]
             /\ outcome \in [Workers -> {"", "sent", "failed", "skipped"}]
             /\ entry \in [RowIds -> EntryStatuses \cup {"absent", "gone"}]
             /\ skips \in [Workers -> SUBSET RowIds]
  BY DEF TypeInv, TypeOK, WorkerTypeOK, StoreTypeOK

\* Every step of a worker that is not a claim is such a step.
LEMMA WorkersWork ==
  ASSUME TypeInv, NEW w \in Workers, WorkerStep(w) \/ WorkerFault(w),
         ~Claim(w), ~ClaimWrite(w)
  PROVE  Works(w)
<1> USE WorkerTyped DEF Works, OthersStay, Serves, AtItsWork
<1>1. Stop(w) \/ Exit(w) \/ Poll(w) \/ ClaimNothing(w) => Works(w)
  BY DEF Stop, Exit, Poll, ClaimNothing, Goto
<1>2. ClaimRead(w) => Works(w)
  BY DEF ClaimRead, Claimable, Goto
<1>3. ClaimStale(w) \/ LoadNothing(w) => Works(w)
  BY DEF ClaimStale, LoadNothing, Goto, Forget
<1>4. StaleFlush(w) \/ RecordStale(w) \/ Crash(w) => Works(w)
  BY DEF StaleFlush, RecordStale, Crash, Goto, Forget
<1>5. Leave(w) => Works(w)
  BY DEF Leave, HandsBack, Goto, Forget
<1>6. Load(w) \/ Connect(w) \/ CheckStatus(w) => Works(w)
  BY DEF Load, Connect, CheckStatus, Goto
<1>7. Fail(w) \/ Finish(w) => Works(w)
  BY DEF Fail, Finish, Goto
<1>8. Fetch(w) => Works(w)
  <2> SUFFICES ASSUME Fetch(w) PROVE Works(w)
    OBVIOUS
  <2> DEFINE rows == {ItemOf(e) : e \in FirstPending}
  <2>1. rows \subseteq {ItemOf(e) : e \in Pending}
    BY DEF FirstPending
  <2>2. batch' = [batch EXCEPT ![w] = rows]
    BY DEF Fetch, ItemOf
  <2> HIDE DEF rows
  <2> QED
    BY <2>1, <2>2 DEF Fetch, Goto
<1>9. EndBatch(w) \/ Renew(w) => Works(w)
  BY DEF EndBatch, Renew, Goto, Flush, Flushable
<1>10. CheckRecipient(w) \/ Skip(w) => Works(w)
  BY DEF CheckRecipient, Skip, Goto
<1>11. DryRun(w) \/ Refused(w) => Works(w)
  BY DEF DryRun, Refused, Conclude
<1>12. Accepted(w) => Works(w)
  BY DEF Accepted, Conclude, HandOver
<1>13. ReplyLost(w) => Works(w)
  BY DEF ReplyLost, Conclude, HandOver, Goto
<1>14. Record(w) => Works(w)
  <2> SUFFICES ASSUME Record(w) PROVE Works(w)
    OBVIOUS
  <2>1. outcome[w] \in EntryStatuses
    BY DEF Record, Goto, TypeInv, AtWork
  <2> QED
    BY <2>1 DEF Record, Goto
<1>15. DbError(w) => Works(w)
  <2> SUFFICES ASSUME DbError(w) PROVE Works(w)
    OBVIOUS
  <2>1. PICK to \in {"idle", "leaving"} :
          /\ pc' = [pc EXCEPT ![w] = to]
          /\ to = "leaving" => pc[w] \in Sending
    BY DEF DbError, Goto
  <2> QED
    BY <2>1 DEF DbError, Forget
<1> HIDE DEF Works
<1> QED
  BY <1>1, <1>2, <1>3, <1>4, <1>5, <1>6, <1>7, <1>8, <1>9, <1>10, <1>11,
     <1>12, <1>13, <1>14, <1>15
  DEF WorkerStep, WorkerFault

-----------------------------------------------------------------------------
(* What the requests change *)

\* What a request does to the campaign, whatever becomes of its audience.
Steers ==
  /\ UNCHANGED <<workerVars, delivered, claimedBy, lease>>
  /\ \A s \in Sessions :
       \/ request'[s] = request[s] \/ request'[s].op = "none"
       \/ /\ request'[s].op \in Ops /\ status' = status
          /\ request'[s].op \in {"send", "resume", "delete"} =>
               status \notin ACTIVE_STATUSES
          /\ request'[s].op = "update" => is_editable
  /\ \/ UNCHANGED <<status, round>>
     \/ \E s \in Sessions :
          /\ request[s].op \in {"pause", "cancel", "delete"}
          /\ status' \notin ACTIVE_STATUSES \cup {"completed", "failed"}
          /\ round' = round
     \/ \E s \in Sessions :
          /\ request[s].op \in {"send", "resume"} /\ request'[s].op = "none"
          /\ status' = "queued" /\ round' = round + 1
  /\ \/ UNCHANGED <<content, dryRun>>
     \/ \E s \in Sessions : request[s].op \in {"update", "send"}
  /\ status = "deleted" => status' = "deleted"

\* A request that adds nobody to the audience.
Asks ==
  /\ Steers
  /\ address' = address
  /\ \A e \in RowIds :
       \/ entry'[e] = entry[e]
       \/ /\ e \in Rows /\ entry'[e] = DeletedRow
          /\ "remove" \in Ops \/ status' = "deleted"
       \/ "retry" \in Ops /\ entry[e] = "failed" /\ entry'[e] = "pending"

\* Every request is one of these.
LEMMA RequestsAsk ==
  ASSUME TypeInv, OnlyOps, RequestNext
  PROVE  Steers /\ ("audience" \notin Ops => Asks)
<1> USE DEF Asks, Steers
<1>1. request \in [Sessions -> [op : AllOps \cup {"none"}, dryRun : BOOLEAN]]
  BY DEF TypeInv, TypeOK, RequestTypeOK
<1>2. ASSUME NEW s \in Sessions, NEW op, NEW dry, Begin(s, op, dry),
             op \in {"send", "resume", "delete"} => status \notin ACTIVE_STATUSES,
             op = "update" => is_editable
      PROVE  Asks
  BY <1>1, <1>2 DEF Begin
<1>3. ASSUME NEW s \in Sessions,
             SendRead(s) \/ PauseRead(s) \/ ResumeRead(s) \/ CancelRead(s)
               \/ RetryRead(s) \/ UpdateRead(s) \/ AudienceRead(s)
               \/ RemoveRead(s) \/ DeleteRead(s)
      PROVE  Asks
  BY <1>2, <1>3
  DEF SendRead, PauseRead, ResumeRead, CancelRead, RetryRead, UpdateRead,
      AudienceRead, RemoveRead, DeleteRead
<1>4. ASSUME NEW s \in Sessions, SendCommit(s) \/ ResumeCommit(s)
      PROVE  Asks
  <2>1. CASE SendCommit(s)
    BY <1>1, <2>1 DEF SendCommit, Commit, Requeue, Exists
  <2>2. CASE ResumeCommit(s)
    BY <1>1, <2>2 DEF ResumeCommit, Commit, Requeue, Exists
  <2> QED
    BY <1>4, <2>1, <2>2
<1>5. ASSUME NEW s \in Sessions, PauseCommit(s) \/ CancelCommit(s)
      PROVE  Asks
  <2>1. CASE PauseCommit(s)
    BY <1>1, <2>1 DEF PauseCommit, Commit, Halt, Exists
  <2>2. CASE CancelCommit(s)
    BY <1>1, <2>2 DEF CancelCommit, Commit, Halt, Exists
  <2> QED
    BY <1>5, <2>1, <2>2
<1>6. ASSUME NEW s \in Sessions, RetryCommit(s)
      PROVE  Asks
  <2>1. \A e \in RowIds :
          \/ entry'[e] = entry[e]
          \/ entry[e] = "failed" /\ entry'[e] = "pending"
    BY <1>6 DEF RetryCommit
  <2>2. "retry" \in Ops
    BY <1>6 DEF RetryCommit, Commit, OnlyOps
  <2> QED
    BY <1>1, <1>6, <2>1, <2>2 DEF RetryCommit, Commit
<1>12. ASSUME NEW s \in Sessions, UpdateCommit(s)
       PROVE  Asks
  BY <1>1, <1>12 DEF UpdateCommit, Commit
<1>7. ASSUME NEW s \in Sessions, RemoveCommit(s)
      PROVE  Asks
  <2>1. \A e \in RowIds :
          entry'[e] = entry[e] \/ (e \in Rows /\ entry'[e] = DeletedRow)
    BY <1>7, WorkerTyped DEF RemoveCommit
  <2>2. "remove" \in Ops
    BY <1>7 DEF RemoveCommit, Commit, OnlyOps
  <2> QED
    BY <1>1, <1>7, <2>1, <2>2 DEF RemoveCommit, Commit
<1>8. ASSUME NEW s \in Sessions, DeleteCommit(s)
      PROVE  Asks
  BY <1>1, <1>8 DEF DeleteCommit, Commit
<1>9. ASSUME NEW s \in Sessions, StaleCommit(s)
      PROVE  Asks
  BY <1>1, <1>9 DEF StaleCommit
<1>10. ASSUME RecipientNext
       PROVE  Asks
  BY <1>10, RecipientPages
<1>11. ASSUME NEW s \in Sessions, AudienceCommit(s)
       PROVE  Steers /\ "audience" \in Ops
  BY <1>1, <1>11 DEF OnlyOps, AudienceCommit, Commit
<1>13. Asks => Steers
  OBVIOUS
<1> HIDE DEF Asks, Steers
<1> QED
  BY <1>3, <1>13, <1>4, <1>5, <1>6, <1>7, <1>8, <1>9, <1>10, <1>11, <1>12
  DEF RequestNext, RequestStep

-----------------------------------------------------------------------------
(* The frame *)

\* A draft has nothing but its audience.
LEMMA FramedInit == Init => Framed
<1> SUFFICES ASSUME Init PROVE Framed
  OBVIOUS
<1>1. /\ \A w \in Workers : pc[w] = "off" /\ batch[w] = {} /\ serving[w] = 0
      /\ status = "draft" /\ claimedBy = NoWorker
      /\ \A a \in Addresses : delivered[a] = 0
      /\ \A s \in Sessions : request[s].op = "none"
  BY DEF Init, WorkerInit, StoreInit, RequestInit
<1>2. RowsAreOriginal
  <2>1. \A e \in RowIds :
          /\ entry[e] = IF e <= Len(Audience) THEN "pending" ELSE "absent"
          /\ e <= Len(Audience) => address[e] = Audience[e]
    BY DEF Init, StoreInit
  <2>2. Len(Audience) \in Nat /\ MaxRow \in Nat /\ Len(Audience) <= MaxRow
    BY StateAssumption DEF StateAssumption
  <2> QED
    BY <1>1, <2>1, <2>2 DEF RowsAreOriginal, Original
<1> QED
  BY <1>1, <1>2
  DEF Framed, IdleHasNoBatch, OwnerIsLatest, QueuedIsUnserved, OnlyOps,
      OthersGotNothing, NothingBeforeOrders, CalmIsOrderly, AtItsWork, Serves,
      Holds

\* No request breaks the frame.
LEMMA FramedByRequests ==
  ASSUME TypeInv, OneServer, Framed, Asks
  PROVE  Framed'
<1> USE WorkerTyped, ServingTyped DEF Framed
<1>1. RowsAreOriginal'
  BY DEF Asks, Steers, RowsAreOriginal, Rows, DeletedRow
<1>2. IdleHasNoBatch'
  BY DEF Asks, Steers, IdleHasNoBatch, Serves
<1>3. OwnerIsLatest'
  BY DEF Asks, Steers, OwnerIsLatest, Serves
<1>4. QueuedIsUnserved'
  <2>1. UNCHANGED <<pc, claimedBy, serving, lease>>
    BY DEF Asks, Steers
  <2>2. CASE UNCHANGED <<status, round>>
    BY <2>1, <2>2 DEF QueuedIsUnserved, Holds, Serves
  <2>3. CASE status' \notin ACTIVE_STATUSES /\ round' = round
    BY <2>1, <2>3 DEF QueuedIsUnserved, Holds, Serves
  <2>4. CASE round' = round + 1
    <3>1. round \in Nat /\ serving \in [Workers -> Nat]
      OBVIOUS
    <3>2. \A w \in Workers : serving[w] <= round
      BY DEF OneServer, RoundsAreQueued
    <3>3. \A w \in Workers : serving[w] # round'
      BY ONLY <2>4, <3>1, <3>2
    <3> QED
      BY <2>1, <3>3 DEF QueuedIsUnserved, Holds
  <2> QED
    BY <2>2, <2>3, <2>4 DEF Asks, Steers
<1>5. OnlyOps'
  <2>1. \A s \in Sessions :
          \/ request'[s] = request[s] \/ request'[s].op = "none"
          \/ request'[s].op \in Ops
    BY DEF Asks, Steers
  <2>2. \A s \in Sessions : request[s].op \in Ops \cup {"none"}
    BY DEF OnlyOps
  <2> QED
    BY ONLY <2>1, <2>2 DEF OnlyOps
<1>6. OthersGotNothing'
  BY DEF Asks, Steers, OthersGotNothing, Original
<1>7. NothingBeforeOrders'
  <2>1. \/ UNCHANGED <<pc, delivered, round>>
           /\ (status' = status \/ status' \notin ACTIVE_STATUSES)
        \/ round' = round + 1
    BY DEF Asks, Steers
  <2>2. round \in Nat
    OBVIOUS
  <2>3. round' = round + 1 => round' # 0
    BY ONLY <2>2
  <2> QED
    BY <2>1, <2>3 DEF NothingBeforeOrders, Serves
<1>8. CalmIsOrderly'
  <2> SUFFICES ASSUME Calm, ~Sqlite, overruns = 0 PROVE CalmIsOrderly'
    BY DEF CalmIsOrderly, Calm, Asks, Steers
  <2>1. \A w \in Workers : AtItsWork(w) =>
           serving[w] = round /\ status = "sending"
    BY DEF CalmIsOrderly
  <2>2. \A s \in Sessions :
          /\ request[s].op \notin {"pause", "cancel"}
          /\ request[s].op \in {"send", "resume", "delete"} =>
               status \notin ACTIVE_STATUSES
    BY DEF CalmIsOrderly
  <2>3. UNCHANGED <<pc, serving>>
    BY DEF Asks, Steers
  <2>4. \A w \in Workers : AtItsWork(w)' =>
           serving'[w] = round' /\ status' = "sending"
    BY <2>1, <2>2, <2>3 DEF Asks, Steers, AtItsWork, Serves
  <2>5. /\ \A s, t \in Sessions : s = t
        /\ \A op \in Ops : op \notin {"pause", "cancel"}
    BY DEF Calm
  <2>6. \A s \in Sessions : request'[s].op \notin {"pause", "cancel"}
    <3>1. \A s \in Sessions :
            \/ request'[s] = request[s] \/ request'[s].op = "none"
            \/ request'[s].op \in Ops
      BY DEF Asks, Steers
    <3> QED
      BY ONLY <2>2, <2>5, <3>1
  <2>7. \A s \in Sessions :
          request'[s].op \in {"send", "resume", "delete"} =>
            status' \notin ACTIVE_STATUSES
    BY <2>2, <2>5 DEF Asks, Steers
  <2> QED
    BY <2>4, <2>6, <2>7 DEF CalmIsOrderly
<1> QED
  BY <1>1, <1>2, <1>3, <1>4, <1>5, <1>6, <1>7, <1>8

\* No worker's step that claims nothing does.
LEMMA FramedByWork ==
  ASSUME TypeInv, OneServer, Framed, NEW w \in Workers, Works(w),
         UNCHANGED overruns
  PROVE  Framed'
<1> USE WorkerTyped, ServingTyped DEF Framed, Works, OthersStay
<1>1. RowsAreOriginal'
  <2>1. \A e \in RowIds : entry'[e] \in EntryStatuses => e \in Original
    BY DEF RowsAreOriginal, Rows
  <2>2. \A v \in Workers : \A r \in batch'[v] :
          /\ r.id \in Original /\ r.email = Audience[r.id]
          /\ \A q \in batch'[v] : q.id = r.id => q = r
    <3>1. \A e \in Pending : e \in Original /\ address[e] = Audience[e]
      BY DEF RowsAreOriginal, Pending
    <3>2. \A r \in batch'[w] :
            /\ r.id \in Original /\ r.email = Audience[r.id]
            /\ \A q \in batch'[w] : q.id = r.id => q = r
      <4>1. CASE batch'[w] \subseteq batch[w]
        BY <4>1 DEF RowsAreOriginal
      <4>2. CASE batch'[w] \subseteq {ItemOf(e) : e \in Pending}
        <5>1. \A r \in batch'[w] : \E e \in Pending : r = ItemOf(e)
          BY <4>2, Zenon
        <5>2. ASSUME NEW r \in batch'[w], NEW q \in batch'[w]
              PROVE  /\ r.id \in Original /\ r.email = Audience[r.id]
                     /\ q.id = r.id => q = r
          <6>1. PICK e \in Pending : r = ItemOf(e)
            BY <5>1
          <6>2. PICK f \in Pending : q = ItemOf(f)
            BY <5>1
          <6>3. r.id = e /\ r.email = address[e] /\ q.id = f
            BY <6>1, <6>2 DEF ItemOf
          <6> QED
            BY <3>1, <6>1, <6>2, <6>3
        <5> QED
          BY <5>2
      <4> QED
        BY <4>1, <4>2
    <3> QED
      BY <3>2 DEF RowsAreOriginal
  <2> QED
    BY <2>1, <2>2 DEF RowsAreOriginal
<1>2. IdleHasNoBatch'
  BY DEF IdleHasNoBatch, Serves
<1>3. OwnerIsLatest'
  BY DEF OwnerIsLatest, Serves
<1>4. QueuedIsUnserved'
  <2> SUFFICES ASSUME ~Sqlite, status' = "queued" \/ lease' = "none",
                      NEW v \in Workers, Holds(v)'
               PROVE  FALSE
    BY DEF QueuedIsUnserved
  <2>1. Holds(v)
    BY DEF Holds, Serves
  <2>2. status # "queued" /\ lease # "none"
    BY <2>1 DEF QueuedIsUnserved
  <2>3. lease' = "none" /\ claimedBy = w /\ pc'[w] = "idle"
    BY <2>2
  <2> QED
    BY <2>3 DEF Holds, Serves
<1>5. OnlyOps'
  BY DEF OnlyOps
<1>6. OthersGotNothing'
  <2> SUFFICES ASSUME NEW a \in Addresses,
                      \A e \in Original : Audience[e] # a
               PROVE  delivered'[a] = 0
    BY DEF OthersGotNothing
  <2>1. delivered[a] = 0
    BY DEF OthersGotNothing
  <2>2. CASE delivered' = delivered
    BY <2>1, <2>2
  <2>3. CASE /\ pc[w] \in {"send", "resend"}
             /\ delivered' = [delivered EXCEPT ![Current(w).email] = @ + 1]
    <3>1. Current(w) \in batch[w]
      BY <2>3, CurrentTyped
    <3>2. /\ Current(w).id \in Original
          /\ Current(w).email = Audience[Current(w).id]
      BY <3>1 DEF RowsAreOriginal
    <3> DEFINE b == Current(w).email
    <3>3. b # a
      BY <3>2
    <3>4. delivered \in [Addresses -> Nat]
      BY RowsTyped
    <3>5. delivered' = [delivered EXCEPT ![b] = @ + 1]
      BY <2>3
    <3> HIDE DEF b
    <3> QED
      BY ONLY <2>1, <3>3, <3>4, <3>5
  <2> QED
    BY <2>2, <2>3
<1>7. NothingBeforeOrders'
  BY DEF NothingBeforeOrders, Serves
<1>8. CalmIsOrderly'
  <2> SUFFICES ASSUME Calm, ~Sqlite, overruns = 0 PROVE CalmIsOrderly'
    BY DEF CalmIsOrderly, Calm
  <2>1. \A v \in Workers : AtItsWork(v) =>
           serving[v] = round /\ status = "sending"
    BY DEF CalmIsOrderly
  <2>2. \A v \in Workers : AtItsWork(v)' =>
          AtItsWork(v) /\ serving'[v] = serving[v]
    BY DEF AtItsWork, Serves
  <2>3. CASE status' = status
    BY <2>2, <2>3 DEF CalmIsOrderly
  <2>4. CASE /\ pc[w] \in {"failing", "finish"} /\ pc'[w] = "leaving"
             /\ status' \notin ACTIVE_STATUSES
    <3>1. AtItsWork(w) /\ ~AtItsWork(w)'
      BY <2>4 DEF AtItsWork, Serves
    <3>2. \A v \in Workers : v # w /\ AtItsWork(v) => FALSE
      <4>1. \A v \in Workers :
              v # w /\ Serves(v) /\ Serves(w) => serving[v] # serving[w]
        BY DEF OneServer, OnePerRound
      <4> QED
        BY <2>1, <3>1, <4>1, Zenon DEF AtItsWork
    <3> QED
      BY <2>2, <2>4, <3>1, <3>2 DEF CalmIsOrderly
  <2> QED
    BY <2>3, <2>4
<1> QED
  BY <1>1, <1>2, <1>3, <1>4, <1>5, <1>6, <1>7, <1>8

\* The worker that claims the campaign becomes its owner, for the latest order.
LEMMA FramedByClaim ==
  ASSUME TypeInv, OneServer, Framed, NEW w \in Workers,
         Claim(w) \/ ClaimWrite(w)
  PROVE  Framed'
<1> USE WorkerTyped, ServingTyped DEF Framed
<1>1. /\ pc' = [pc EXCEPT ![w] = "load"]
      /\ pc[w] \in {"polling", "claiming"}
      /\ serving' = [serving EXCEPT ![w] = round]
      /\ claimedBy' = w /\ lease' = "live"
      /\ UNCHANGED <<round, entry, address, delivered, batch, request, overruns>>
  BY DEF Claim, ClaimWrite, Goto, TakeOver
<1>2. ~Sqlite => Claimable /\ status' = "sending"
  BY DEF Claim, ClaimWrite, Goto, TakeOver, Claimable, OneServer,
         ClaimsAreLocked
<1>3. round # 0
  BY DEF NothingBeforeOrders, Claim, ClaimWrite, Claimable, Goto
<1>4. RowsAreOriginal' /\ OnlyOps' /\ OthersGotNothing'
  BY <1>1 DEF RowsAreOriginal, OnlyOps, OthersGotNothing, Original
<1>5. IdleHasNoBatch' /\ OwnerIsLatest' /\ QueuedIsUnserved'
  BY <1>1, <1>2
  DEF IdleHasNoBatch, OwnerIsLatest, QueuedIsUnserved, Holds, Serves
<1>6. NothingBeforeOrders'
  BY <1>1, <1>3 DEF NothingBeforeOrders
<1>7. CalmIsOrderly'
  BY <1>1, <1>2 DEF CalmIsOrderly, Calm, AtItsWork, Serves, Claimable
<1> QED
  BY <1>4, <1>5, <1>6, <1>7

\* A process that starts has nothing in hand.
LEMMA FramedByStart ==
  ASSUME TypeInv, OneServer, Framed, NEW w \in Workers, Start(w)
  PROVE  Framed'
<1> USE WorkerTyped, ServingTyped DEF Framed
<1>1. /\ pc' = [pc EXCEPT ![w] = "idle"] /\ pc[w] = "off"
      /\ status' = IF Sqlite /\ status = "sending" THEN "queued" ELSE status
      /\ UNCHANGED <<round, entry, address, delivered, batch, request, overruns,
                     serving, claimedBy, lease>>
  BY DEF Start, Goto, RequeuesAtStart
<1>2. RowsAreOriginal' /\ OnlyOps' /\ OthersGotNothing'
  BY <1>1 DEF RowsAreOriginal, OnlyOps, OthersGotNothing, Original
<1>3. IdleHasNoBatch' /\ OwnerIsLatest' /\ QueuedIsUnserved'
  BY <1>1 DEF IdleHasNoBatch, OwnerIsLatest, QueuedIsUnserved, Holds, Serves
<1>4. NothingBeforeOrders' /\ CalmIsOrderly'
  BY <1>1 DEF NothingBeforeOrders, CalmIsOrderly, Calm, AtItsWork, Serves
<1> QED
  BY <1>2, <1>3, <1>4

\* A lease that lapses changes nothing but itself.
LEMMA FramedByLapse ==
  ASSUME TypeInv, OneServer, Framed, Lapse
  PROVE  Framed'
<1> USE WorkerTyped, ServingTyped DEF Framed
<1>1. /\ lease' = "lapsed"
      /\ overruns' = overruns \/ overruns' # 0
      /\ UNCHANGED <<pc, status, round, entry, address, delivered, batch,
                     request, serving, claimedBy>>
  <2>1. overruns' = overruns + 1 => overruns' # 0
    <3>1. overruns \in Nat
      OBVIOUS
    <3> QED
      BY ONLY <3>1
  <2> QED
    BY <2>1 DEF Lapse
<1>2. RowsAreOriginal' /\ OnlyOps' /\ OthersGotNothing'
  BY <1>1 DEF RowsAreOriginal, OnlyOps, OthersGotNothing, Original
<1>3. IdleHasNoBatch' /\ OwnerIsLatest' /\ QueuedIsUnserved'
  BY <1>1 DEF IdleHasNoBatch, OwnerIsLatest, QueuedIsUnserved, Holds, Serves
<1>4. NothingBeforeOrders' /\ CalmIsOrderly'
  BY <1>1 DEF NothingBeforeOrders, CalmIsOrderly, Calm, AtItsWork, Serves
<1> QED
  BY <1>2, <1>3, <1>4

-----------------------------------------------------------------------------
(* What the steps of a worker cost *)

\* The row of the worker's message is done with: its outcome is written, or it
\* has been deleted.
Settles(w) ==
  /\ pc[w] = "record" /\ batch'[w] \subseteq batch[w] \ {Current(w)}
  /\ \/ entry'[Current(w).id] = outcome[w]
     \/ Current(w).id \notin Rows /\ entry' = entry

\* A step of a worker that claims nothing, and the mishap it may be.
Costs(w) ==
  /\ pc[w] # "crashed" /\ overruns' = overruns
  /\ dbErrors' = dbErrors \/ dbErrors' = dbErrors + 1
  /\ lostReplies' = lostReplies \/ lostReplies' = lostReplies + 1
  /\ Handles(w)' => batch'[w] = batch[w] /\ (Handles(w) \/ Mine(w))
  /\ \A e \in RowIds :
       \/ entry'[e] = entry[e] \/ entry'[e] = "skipped"
       \/ Settles(w) /\ e = Current(w).id
  /\ \/ delivered' = delivered
     \/ lostReplies' = lostReplies + 1
     \/ /\ pc'[w] = "record" /\ outcome'[w] = "sent"
        /\ batch'[w] = batch[w]
  /\ \/ delivered' = delivered
     \/ dbErrors' = dbErrors /\ pc'[w] \in {"resend", "record"}
  /\ pc[w] = "record" =>
       \/ UNCHANGED <<pc, outcome, batch, entry>>
       \/ pc'[w] = "crashed" \/ dbErrors' = dbErrors + 1
       \/ Settles(w)

\* Every step of a worker that is not a claim is such a step.
LEMMA WorkersCost ==
  ASSUME TypeInv, NEW w \in Workers, WorkerStep(w) \/ WorkerFault(w),
         ~Claim(w), ~ClaimWrite(w)
  PROVE  Costs(w)
<1> USE WorkerTyped DEF Costs, Handles
<1>1. Stop(w) \/ Exit(w) \/ Poll(w) \/ ClaimNothing(w) => Costs(w)
  BY DEF Stop, Exit, Poll, ClaimNothing, Goto, Alive
<1>2. ClaimRead(w) => Costs(w)
  BY DEF ClaimRead, Goto
<1>3. ClaimStale(w) \/ LoadNothing(w) => Costs(w)
  BY DEF ClaimStale, LoadNothing, Goto, Forget
<1>4. StaleFlush(w) \/ Crash(w) => Costs(w)
  BY DEF StaleFlush, Crash, Goto, Forget, Alive
<1>5. Leave(w) => Costs(w)
  BY DEF Leave, HandsBack, Goto, Forget
<1>6. Load(w) \/ Connect(w) \/ CheckStatus(w) => Costs(w)
  BY DEF Load, Connect, CheckStatus, Goto
<1>7. Fail(w) \/ Finish(w) => Costs(w)
  BY DEF Fail, Finish, Goto
<1>8. Fetch(w) => Costs(w)
  BY DEF Fetch, Goto
<1>9. EndBatch(w) \/ Renew(w) => Costs(w)
  BY DEF EndBatch, Renew, Goto, Flush
<1>10. CheckRecipient(w) \/ Skip(w) => Costs(w)
  BY DEF CheckRecipient, Skip, Goto
<1>11. DryRun(w) \/ Refused(w) => Costs(w)
  BY DEF DryRun, Refused, Conclude
<1>12. Accepted(w) => Costs(w)
  BY DEF Accepted, Conclude
<1>13. ReplyLost(w) => Costs(w)
  BY DEF ReplyLost, Conclude, Goto
<1>14. Record(w) => Costs(w)
  <2> SUFFICES ASSUME Record(w) PROVE Costs(w)
    OBVIOUS
  <2>1. Settles(w)
    BY DEF Record, Goto, Settles, Rows
  <2> QED
    BY <2>1 DEF Record, Goto
<1>15. RecordStale(w) => Costs(w)
  <2> SUFFICES ASSUME RecordStale(w) PROVE Costs(w)
    OBVIOUS
  <2>1. Settles(w)
    BY DEF RecordStale, Goto, Forget, Settles
  <2> QED
    BY <2>1 DEF RecordStale, Goto, Forget
<1>16. DbError(w) => Costs(w)
  <2> SUFFICES ASSUME DbError(w) PROVE Costs(w)
    OBVIOUS
  <2>1. /\ \E to \in {"idle", "leaving"} : pc' = [pc EXCEPT ![w] = to]
        /\ pc[w] # "crashed"
    BY DEF DbError, Goto
  <2> QED
    BY <2>1 DEF DbError, Forget
<1> HIDE DEF Costs
<1> QED
  BY <1>1, <1>2, <1>3, <1>4, <1>5, <1>6, <1>7, <1>8, <1>9, <1>10, <1>11,
     <1>12, <1>13, <1>14, <1>15, <1>16
  DEF WorkerStep, WorkerFault

-----------------------------------------------------------------------------
(* Counting *)

\* There are so many strays, and so many mishaps.
LEMMA Countable ==
  ASSUME NEW e
  PROVE  /\ IsFiniteSet(Strays(e)) /\ Cardinality(Strays(e)) \in Nat
         /\ IsFiniteSet(Strays(e)') /\ Cardinality(Strays(e)') \in Nat
         /\ One(Due(e)) \in {0, 1} /\ One(Due(e))' \in {0, 1}
         /\ One(Spare) \in {0, 1} /\ One(Spare)' \in {0, 1}
<1>1. Strays(e) \subseteq Workers /\ Strays(e)' \subseteq Workers
  BY DEF Strays
<1>2. IsFiniteSet(Strays(e)) /\ IsFiniteSet(Strays(e)')
  BY <1>1, FS_Subset, WorkersAssumption DEF WorkersAssumption
<1> QED
  BY <1>2, FS_CardinalityType DEF One

\* What was delivered is a number, whatever the row.
LEMMA DeliveredIsNat ==
  ASSUME TypeInv, NEW e \in Original
  PROVE  e \in RowIds /\ address[e] \in Addresses /\ delivered[address[e]] \in Nat
<1>1. Len(Audience) \in Nat /\ MaxRow \in Nat /\ Len(Audience) <= MaxRow
  BY StateAssumption DEF StateAssumption
<1>2. e \in RowIds
  BY <1>1 DEF Original
<1> QED
  BY <1>2, RowsTyped

Crashed == {w \in Workers : pc[w] = "crashed"}

\* The mishaps are a number, and none is forgotten.
LEMMA MishapsGrow ==
  ASSUME TypeInv, TypeInv', \A w \in Workers : pc[w] = "crashed" => pc'[w] = "crashed",
         dbErrors' >= dbErrors, lostReplies' >= lostReplies, overruns' >= overruns
  PROVE  /\ Mishaps \in Nat /\ Mishaps' \in Nat /\ Mishaps' >= Mishaps
         /\ \/ dbErrors' = dbErrors + 1 \/ lostReplies' = lostReplies + 1
            \/ overruns' = overruns + 1
            \/ \E w \in Workers : pc[w] # "crashed" /\ pc'[w] = "crashed"
            => Mishaps' >= Mishaps + 1
<1>1. IsFiniteSet(Crashed') /\ Crashed \subseteq Crashed'
  <2>1. Crashed' \subseteq Workers /\ Crashed \subseteq Crashed'
    BY DEF Crashed
  <2> QED
    BY <2>1, FS_Subset, WorkersAssumption DEF WorkersAssumption
<1>2. /\ Cardinality(Crashed) \in Nat /\ Cardinality(Crashed') \in Nat
      /\ Cardinality(Crashed) <= Cardinality(Crashed')
      /\ Cardinality(Crashed) = Cardinality(Crashed') => Crashed = Crashed'
  BY <1>1, FS_Subset, FS_CardinalityType
<1>3. (\E w \in Workers : pc[w] # "crashed" /\ pc'[w] = "crashed") =>
        Crashed # Crashed'
  BY DEF Crashed
<1>4. /\ dbErrors \in Nat /\ lostReplies \in Nat /\ overruns \in Nat
      /\ dbErrors' \in Nat /\ lostReplies' \in Nat /\ overruns' \in Nat
  BY DEF TypeInv, TypeOK, WorkerTypeOK
<1>5. /\ Mishaps = Cardinality(Crashed) + dbErrors + lostReplies + overruns
      /\ Mishaps' = Cardinality(Crashed') + dbErrors' + lostReplies' + overruns'
  BY DEF Mishaps, Crashed
<1> QED
  BY ONLY <1>2, <1>3, <1>4, <1>5, dbErrors' >= dbErrors,
     lostReplies' >= lostReplies, overruns' >= overruns

\* One worker holds the campaign.  (the claim, and one process on SQLite)
LEMMA OneHolds ==
  ASSUME OneServer, NEW v \in Workers, NEW w \in Workers, Holds(v), Holds(w)
  PROVE  v = w
<1>1. CASE Sqlite
  BY <1>1 DEF OneServer, OneProcess, Holds, Serves, Alive
<1>2. CASE ~Sqlite
  BY <1>2 DEF Holds
<1> QED
  BY <1>1, <1>2

\* The worker that owns a campaign being sent holds it.
LEMMA MineHolds ==
  ASSUME OwnerIsLatest, NEW w \in Workers, Serves(w), Mine(w)
  PROVE  Holds(w)
  BY DEF OwnerIsLatest, Holds, Mine

\* The messages at hand are for the rows of the draft.
LEMMA CurrentIsOriginal ==
  ASSUME TypeInv, RowsAreOriginal, NEW w \in Workers,
         pc[w] \in {"check", "send", "resend", "record"}
  PROVE  /\ Current(w).id \in Original /\ Current(w).id \in Ids(w)
         /\ Current(w).email = address[Current(w).id]
         /\ \A e \in Original : address[e] = Current(w).email => e = Current(w).id
<1>1. Current(w) \in batch[w]
  BY CurrentTyped
<1>2. /\ Current(w).id \in Original
      /\ Current(w).email = Audience[Current(w).id]
  BY <1>1 DEF RowsAreOriginal
<1>3. \A e \in Original : Audience[e] = Audience[Current(w).id] => e = Current(w).id
  BY <1>2, AudienceAssumption, StateAssumption
  DEF AudienceAssumption, StateAssumption, IsInjective, Original
<1> QED
  BY <1>1, <1>2, <1>3 DEF RowsAreOriginal, Ids

\* Two rows of a batch have different keys.
LEMMA KeysTellRows ==
  ASSUME TypeInv, RowsAreOriginal, NEW w \in Workers, NEW q \in batch[w],
         NEW r \in batch[w], q.id = r.id
  PROVE  q = r
  BY DEF RowsAreOriginal

\* Who holds the campaign after a step of a worker that claims nothing held it.
LEMMA WorkKeepsHolder ==
  ASSUME TypeInv, NEW w \in Workers, Works(w)
  PROVE  /\ \A v \in Workers : Holds(v)' => Holds(v)
         /\ \A v \in Workers : Holds(v) /\ Serves(v)' => Holds(v)'
         /\ \A v \in Workers : v # w => (Holds(v) <=> Holds(v)')
         /\ Spare' => Spare
<1> USE DEF Works, OthersStay, Holds, Serves
<1>1. \A v \in Workers : Holds(v)' => Holds(v)
  OBVIOUS
<1>2. \A v \in Workers : Holds(v) /\ Serves(v)' => Holds(v)'
  OBVIOUS
<1>3. \A v \in Workers : v # w => (Holds(v) <=> Holds(v)')
  OBVIOUS
<1> HIDE DEF Holds, Serves
<1> QED
  BY <1>1, <1>2, <1>3 DEF Spare

\* Nobody strays with a message he had not begun as the holder.
LEMMA WorkKeepsStrays ==
  ASSUME TypeInv, Framed, NEW w \in Workers, Works(w), Costs(w), NEW e
  PROVE  Strays(e)' \subseteq Strays(e)
<1> SUFFICES ASSUME NEW v \in Workers, InFlight(v, e)', ~Holds(v)'
             PROVE  InFlight(v, e) /\ ~Holds(v)
  BY DEF Strays
<1>1. CASE v # w
  <2>1. InFlight(v, e)
    BY <1>1 DEF Works, OthersStay, InFlight, Handles, Current
  <2> QED
    BY <1>1, <2>1, WorkKeepsHolder
<1>2. CASE v = w
  <2>1. Serves(w)'
    BY <1>2 DEF InFlight, Handles, Serves
  <2>2. ~Holds(w)
    BY <1>2, <2>1, WorkKeepsHolder
  <2>3. Serves(w)
    BY <2>1 DEF Works
  <2>4. ~Mine(w)
    BY <2>2, <2>3, MineHolds DEF Framed
  <2>5. Handles(w) /\ batch'[w] = batch[w]
    BY <1>2, <2>4 DEF Costs, InFlight
  <2> QED
    BY <1>2, <2>2, <2>5 DEF InFlight, Current
<1> QED
  BY <1>1, <1>2

\* A message may still begin for a row only if it might before, but for a
\* mishap and a failure that a stray worker writes.
LEMMA WorkKeepsDue ==
  ASSUME TypeInv, OneServer, Framed, NEW w \in Workers, Works(w), Costs(w),
         pc'[w] # "crashed", dbErrors' # dbErrors + 1, NEW e \in Original,
         Due(e)',
         pc[w] = "record" /\ outcome[w] = "failed" /\ Current(w).id = e =>
           Holds(w) \/ ~Settles(w)
  PROVE  Due(e)
<1>0. e \in RowIds
  BY DeliveredIsNat
<1>1. ASSUME NEW v \in Workers, Holds(v)
      PROVE  ~Concludes(v, e)
  <2>1. CASE v # w
    <3>1. Holds(v)'
      BY <1>1, <2>1, WorkKeepsHolder
    <3>2. ~Concludes(v, e)'
      BY <3>1 DEF Due
    <3> QED
      BY <2>1, <3>2 DEF Works, OthersStay, Concludes, Current
  <2>2. CASE v = w
    <3> SUFFICES ASSUME Concludes(w, e) PROVE FALSE
      BY <2>2
    <3>1. CASE UNCHANGED <<pc, outcome, batch>>
      <4>1. Concludes(w, e)' /\ Serves(w)'
        BY <3>1 DEF Concludes, Current, Serves
      <4> QED
        BY <1>1, <2>2, <4>1, WorkKeepsHolder DEF Due
    <3>2. CASE Settles(w)
      <4>1. /\ Current(w).id = e /\ outcome[w] = "sent"
            /\ Current(w) \in batch[w]
        BY CurrentTyped DEF Concludes
      <4>2. ~IsOpen(e)'
        BY <3>2, <4>1, <1>0 DEF Settles, IsOpen, Rows
      <4>3. e \notin Ids(w)'
        <5> SUFFICES ASSUME NEW r \in batch'[w], r.id = e PROVE FALSE
          BY DEF Ids
        <5>1. r \in batch[w] /\ r # Current(w)
          BY <3>2 DEF Settles
        <5> QED
          BY <4>1, <5>1, KeysTellRows DEF Framed
      <4>4. PICK u \in Workers : Holds(u)' /\ e \in Ids(u)'
        BY <4>2 DEF Due
      <4>5. u = w
        BY <1>1, <2>2, <4>4, WorkKeepsHolder, OneHolds
      <4> QED
        BY <4>3, <4>4, <4>5
    <3> QED
      BY <3>1, <3>2 DEF Costs, Concludes
  <2> QED
    BY <2>1, <2>2
<1>2. IsOpen(e) \/ \E v \in Workers : Holds(v) /\ e \in Ids(v)
  <2>1. CASE IsOpen(e)'
    <3>1. CASE entry'[e] = entry[e]
      BY <2>1, <3>1 DEF IsOpen
    <3>2. CASE Settles(w) /\ e = Current(w).id
      <4>1. CASE entry'[e] = outcome[w]
        <5>1. outcome[w] = "failed"
          BY <2>1, <3>2, <4>1, WorkerTyped DEF IsOpen
        <5>2. Holds(w)
          BY <3>2, <5>1 DEF Settles
        <5> QED
          BY <3>2, <5>2, CurrentIsOriginal DEF Settles, Framed
      <4>2. CASE entry' = entry
        BY <2>1, <4>2 DEF IsOpen
      <4> QED
        BY <3>2, <4>1, <4>2 DEF Settles
    <3> QED
      BY <1>0, <2>1, <3>1, <3>2 DEF Costs, IsOpen
  <2>2. ASSUME NEW v \in Workers, Holds(v)', e \in Ids(v)'
        PROVE  IsOpen(e) \/ (Holds(v) /\ e \in Ids(v))
    <3>1. Holds(v)
      BY <2>2, WorkKeepsHolder
    <3>2. PICK r \in batch'[v] : r.id = e
      BY <2>2 DEF Ids
    <3>3. CASE r \in batch[v]
      BY <3>1, <3>2, <3>3 DEF Ids
    <3>4. CASE r \notin batch[v]
      <4>1. v = w
        BY <3>4 DEF Works, OthersStay
      <4>2. PICK k \in Pending : r = ItemOf(k)
        BY <3>4, <4>1 DEF Works
      <4> QED
        BY <3>2, <4>2 DEF Pending, IsOpen, ItemOf
    <3> QED
      BY <3>3, <3>4
  <2> QED
    BY <2>1, <2>2 DEF Due
<1> QED
  BY <1>1, <1>2 DEF Due

\* The parts of a count, before and after a step.
LEMMA CopiesAdd ==
  ASSUME TypeInv, TypeInv', NEW e \in Original
  PROVE  /\ Copies(e) = delivered[address[e]] + Cardinality(Strays(e))
                          + One(Due(e)) + One(Spare)
         /\ Copies(e)' = delivered'[address'[e]] + Cardinality(Strays(e)')
                           + One(Due(e))' + One(Spare)'
         /\ delivered[address[e]] \in Nat /\ delivered'[address'[e]] \in Nat
<1>1. address'[e] \in Addresses /\ delivered'[address'[e]] \in Nat
  <2>1. address' \in [RowIds -> Addresses] /\ delivered' \in [Addresses -> Nat]
    BY DEF TypeInv, TypeOK, StoreTypeOK
  <2> QED
    BY <2>1, DeliveredIsNat
<1> QED
  BY <1>1, DeliveredIsNat DEF Copies

\* There is at least one order to go by, and a new one adds at most itself.
LEMMA OrdersGrow ==
  ASSUME TypeInv, TypeInv',
         round' = round \/ round' = round + 1,
         overruns' = overruns \/ overruns' = overruns + 1
  PROVE  /\ Orders \in Nat /\ Orders' \in Nat
         /\ Orders <= Orders'
<1>1. round \in Nat /\ round' \in Nat /\ overruns \in Nat
  BY ServingTyped DEF TypeInv, TypeOK, StoreTypeOK
<1>2. /\ Orders = IF Sqlite \/ round = 0 \/ (Calm /\ overruns = 0) THEN 1
                  ELSE round
      /\ Orders' = IF Sqlite \/ round' = 0 \/ (Calm /\ overruns' = 0) THEN 1
                   ELSE round'
  BY DEF Orders, Calm
<1> DEFINE calm == Calm
<1> HIDE DEF calm
<1>3. /\ Orders = IF Sqlite \/ round = 0 \/ (calm /\ overruns = 0) THEN 1
                  ELSE round
      /\ Orders' = IF Sqlite \/ round' = 0 \/ (calm /\ overruns' = 0) THEN 1
                   ELSE round'
  BY <1>2 DEF calm
<1> QED
  BY ONLY <1>1, <1>3, round' = round \/ round' = round + 1,
     overruns' = overruns \/ overruns' = overruns + 1

\* A stray worker that is done with its message is one less.
LEMMA StrayIsDone ==
  ASSUME NEW e, Strays(e)' \subseteq Strays(e)
  PROVE  /\ Cardinality(Strays(e)') <= Cardinality(Strays(e))
         /\ (\E w \in Strays(e) : w \notin Strays(e)') =>
              Cardinality(Strays(e)') <= Cardinality(Strays(e)) - 1
<1>1. /\ Cardinality(Strays(e)') \in Nat /\ Cardinality(Strays(e)) \in Nat
      /\ IsFiniteSet(Strays(e))
  BY Countable
<1>2. /\ Cardinality(Strays(e)') <= Cardinality(Strays(e))
      /\ Cardinality(Strays(e)) = Cardinality(Strays(e)') =>
           Strays(e) = Strays(e)'
  BY <1>1, FS_Subset
<1> QED
  BY <1>1, <1>2

\* A worker that hands a message over, and knows it, begins no other.
LEMMA HandOverCounts ==
  ASSUME TypeInv, OneServer, Framed, NEW w \in Workers, Works(w), Costs(w),
         pc[w] \in {"send", "resend"}, pc'[w] = "record", outcome'[w] = "sent",
         batch'[w] = batch[w], NEW e \in Original, e = Current(w).id
  PROVE  IF Holds(w) THEN Due(e) /\ ~Due(e)'
         ELSE w \in Strays(e) /\ w \notin Strays(e)'
<1>1. Current(w)' = Current(w)
  BY DEF Current
<1>2. CASE Holds(w)
  <2>1. \A v \in Workers : Holds(v) => ~Concludes(v, e)
    BY <1>2, OneHolds DEF Concludes
  <2>2. e \in Ids(w)
    BY CurrentIsOriginal DEF Framed
  <2>3. Due(e)
    BY <1>2, <2>1, <2>2 DEF Due
  <2>4. Holds(w)'
    BY <1>2, WorkKeepsHolder DEF Serves
  <2>5. Concludes(w, e)'
    BY <1>1 DEF Concludes
  <2>6. ~Due(e)'
    BY <2>4, <2>5 DEF Due
  <2> QED
    BY <1>2, <2>3, <2>6
<1>3. CASE ~Holds(w)
  BY <1>3 DEF Strays, InFlight, Handles
<1> QED
  BY <1>2, <1>3

\* The copies stay counted when a worker goes on with what it has claimed.
LEMMA CopiesByWork ==
  ASSUME TypeInv, TypeInv', OneServer, Framed, CopiesAreCounted,
         NEW w \in Workers, Works(w), Costs(w)
  PROVE  CopiesAreCounted'
<1> SUFFICES ASSUME NEW e \in Original PROVE Copies(e)' <= Orders' + Mishaps'
  BY DEF CopiesAreCounted, Original
<1> DEFINE d == delivered[address[e]]   dd == delivered'[address'[e]]
           k == Cardinality(Strays(e))  kk == Cardinality(Strays(e)')
           u == One(Due(e))             uu == One(Due(e))'
           s == One(Spare)              ss == One(Spare)'
           slip == pc'[w] = "crashed" \/ dbErrors' = dbErrors + 1
           lost == lostReplies' = lostReplies + 1
<1>1. /\ Copies(e) = d + k + u + s /\ Copies(e)' = dd + kk + uu + ss
      /\ d \in Nat /\ dd \in Nat /\ k \in Nat /\ kk \in Nat
      /\ u \in {0, 1} /\ uu \in {0, 1} /\ s \in {0, 1} /\ ss \in {0, 1}
  BY CopiesAdd, Countable
<1>2. /\ Mishaps \in Nat /\ Mishaps' \in Nat /\ Mishaps' >= Mishaps
      /\ slip \/ lost => Mishaps' >= Mishaps + 1
  <2>1. /\ dbErrors \in Nat /\ lostReplies \in Nat /\ overruns \in Nat
        /\ \A v \in Workers : pc[v] = "crashed" => pc'[v] = "crashed"
    BY DEF TypeInv, TypeOK, WorkerTypeOK, Works, OthersStay, Costs
  <2>2. /\ dbErrors' >= dbErrors /\ lostReplies' >= lostReplies
        /\ overruns' >= overruns
    BY <2>1 DEF Costs
  <2> QED
    BY <2>1, <2>2, MishapsGrow DEF Costs
<1>3. Orders \in Nat /\ Orders' \in Nat /\ Orders <= Orders'
  BY OrdersGrow DEF Works, Costs
<1>4. kk <= k /\ ((\E v \in Strays(e) : v \notin Strays(e)') => kk <= k - 1)
  BY WorkKeepsStrays, StrayIsDone
<1>5. ss <= s
  BY WorkKeepsHolder DEF One
<1>6. Copies(e) <= Orders + Mishaps
  BY DEF CopiesAreCounted
<1>7. dd + kk + uu + ss <= d + k + u + s \/
        (dd + kk + uu + ss <= d + k + u + s + 1 /\ (slip \/ lost))
  <2>1. CASE slip
    <3>0. dbErrors' = dbErrors + 1 => dbErrors' # dbErrors
      <4>1. dbErrors \in Nat
        BY DEF TypeInv, TypeOK, WorkerTypeOK
      <4> QED
        BY ONLY <4>1
    <3>1. dd = d
      BY <2>1, <3>0 DEF Works, Costs
    <3> HIDE DEF d, dd, k, kk, u, uu, s, ss, slip, lost
    <3> QED
      BY <1>1, <1>4, <1>5, <2>1, <3>1
  <2>2. CASE ~slip /\ dd # d
    <3>1. /\ pc[w] \in {"send", "resend"} /\ address' = address
          /\ delivered' = [delivered EXCEPT ![Current(w).email] = @ + 1]
      BY <2>2 DEF Works
    <3>2. address[e] = Current(w).email /\ dd = d + 1
      <4> DEFINE a == address[e]  b == Current(w).email
      <4>1. a \in Addresses /\ delivered \in [Addresses -> Nat]
        BY DeliveredIsNat, RowsTyped
      <4>2. delivered' = [delivered EXCEPT ![b] = @ + 1] /\ d = delivered[a]
            /\ dd = delivered'[a] /\ dd # d
        BY <2>2, <3>1
      <4> HIDE DEF a, b, d, dd
      <4>3. a = b /\ dd = d + 1
        BY ONLY <4>1, <4>2
      <4> QED
        BY <4>3 DEF a, b
    <3>3. e = Current(w).id
      BY <3>1, <3>2, CurrentIsOriginal DEF Framed
    <3>4. uu <= u
      BY <2>2, <3>1, WorkKeepsDue DEF One
    <3>5. CASE lost
      <4> HIDE DEF d, dd, k, kk, u, uu, s, ss, slip, lost
      <4> QED
        BY <1>1, <1>4, <1>5, <3>2, <3>4, <3>5
    <3>6. CASE ~lost
      <4>1. /\ pc'[w] = "record" /\ outcome'[w] = "sent"
            /\ batch'[w] = batch[w]
        BY <2>2, <3>1, <3>6 DEF Costs
      <4>2. IF Holds(w) THEN Due(e) /\ ~Due(e)'
            ELSE w \in Strays(e) /\ w \notin Strays(e)'
        BY <3>1, <3>3, <4>1, HandOverCounts
      <4>3. (u = 1 /\ uu = 0) \/ kk <= k - 1
        BY <1>4, <4>2 DEF One
      <4> HIDE DEF d, dd, k, kk, u, uu, s, ss, slip, lost
      <4> QED
        BY <1>1, <1>4, <1>5, <3>2, <3>4, <4>3
    <3> QED
      BY <3>5, <3>6
  <2>3. CASE ~slip /\ dd = d
    <3>1. CASE /\ pc[w] = "record" /\ outcome[w] = "failed"
               /\ Current(w).id = e /\ ~Holds(w) /\ Settles(w)
      <4>1. w \in Strays(e)
        BY <3>1 DEF Strays, InFlight, Handles
      <4>2. Current(w) \in batch[w]
        BY <3>1, CurrentTyped
      <4>3. ~Handles(w)'
        BY <3>1, <4>2 DEF Costs, Settles
      <4>4. kk <= k - 1
        BY <1>4, <4>1, <4>3 DEF Strays, InFlight
      <4> HIDE DEF d, dd, k, kk, u, uu, s, ss, slip, lost
      <4> QED
        BY <1>1, <1>5, <2>3, <4>4
    <3>2. CASE ~ (/\ pc[w] = "record" /\ outcome[w] = "failed"
                  /\ Current(w).id = e /\ ~Holds(w) /\ Settles(w))
      <4>1. uu <= u
        BY <2>3, <3>2, WorkKeepsDue DEF One
      <4> HIDE DEF d, dd, k, kk, u, uu, s, ss, slip, lost
      <4> QED
        BY <1>1, <1>4, <1>5, <2>3, <4>1
    <3> QED
      BY <3>1, <3>2
  <2> QED
    BY <2>1, <2>2, <2>3
<1> HIDE DEF d, dd, k, kk, u, uu, s, ss, slip, lost
<1>8. dd + kk + uu + ss <= Orders' + Mishaps'
  <2> DEFINE c == d + k + u + s  cc == dd + kk + uu + ss
             o == Orders         oo == Orders'
             m == Mishaps        mm == Mishaps'
             more == slip \/ lost
  <2>1. /\ o \in Nat /\ oo \in Nat /\ o <= oo
        /\ m \in Nat /\ mm \in Nat /\ m <= mm /\ (more => m + 1 <= mm)
    BY <1>2, <1>3
  <2>2. c \in Nat /\ cc \in Nat
    BY ONLY <1>1
  <2>3. c <= o + m /\ (cc <= c \/ (cc <= c + 1 /\ more))
    BY <1>1, <1>6, <1>7
  <2> HIDE DEF c, cc, o, oo, m, mm, more
  <2>4. cc <= oo + mm
    <3>1. CASE more
      BY ONLY <2>1, <2>2, <2>3, <3>1
    <3>2. CASE ~more
      BY ONLY <2>1, <2>2, <2>3, <3>2
    <3> QED
      BY <3>1, <3>2
  <2> QED
    BY <2>4 DEF cc, oo, mm
<1> QED
  BY <1>1, <1>8

\* One more copy takes one more order or one more mishap.
LEMMA StillCounted ==
  ASSUME TypeInv, TypeInv', CopiesAreCounted, NEW e \in Original,
         NEW more \in {0, 1},
         delivered'[address'[e]] = delivered[address[e]],
         Cardinality(Strays(e)') + One(Due(e))' + One(Spare)' <=
           Cardinality(Strays(e)) + One(Due(e)) + One(Spare) + more,
         Orders \in Nat /\ Orders' \in Nat /\ Mishaps \in Nat /\ Mishaps' \in Nat,
         Orders <= Orders' /\ Mishaps <= Mishaps',
         more = 1 => Orders' >= Orders + 1 \/ Mishaps' >= Mishaps + 1
  PROVE  Copies(e)' <= Orders' + Mishaps'
<1> DEFINE d == delivered[address[e]]   dd == delivered'[address'[e]]
           k == Cardinality(Strays(e))  kk == Cardinality(Strays(e)')
           u == One(Due(e))             uu == One(Due(e))'
           s == One(Spare)              ss == One(Spare)'
           o == Orders                  oo == Orders'
           m == Mishaps                 mm == Mishaps'
<1>1. /\ Copies(e) = d + k + u + s /\ Copies(e)' = dd + kk + uu + ss
      /\ d \in Nat /\ dd \in Nat /\ k \in Nat /\ kk \in Nat
      /\ u \in {0, 1} /\ uu \in {0, 1} /\ s \in {0, 1} /\ ss \in {0, 1}
  BY CopiesAdd, Countable
<1>2. /\ o \in Nat /\ oo \in Nat /\ m \in Nat /\ mm \in Nat
      /\ o <= oo /\ m <= mm /\ (more = 1 => oo >= o + 1 \/ mm >= m + 1)
      /\ dd = d /\ kk + uu + ss <= k + u + s + more /\ more \in {0, 1}
  OBVIOUS
<1>3. d + k + u + s <= o + m
  BY <1>1 DEF CopiesAreCounted
<1> HIDE DEF d, dd, k, kk, u, uu, s, ss, o, oo, m, mm
<1>4. dd + kk + uu + ss <= oo + mm
  <2> DEFINE c == k + u + s  cc == kk + uu + ss
  <2>1. c \in Nat /\ cc \in Nat /\ cc <= c + more /\ d + c <= o + m
    BY ONLY <1>1, <1>2, <1>3
  <2> HIDE DEF c, cc
  <2>2. dd + cc <= oo + mm
    BY ONLY <1>1, <1>2, <2>1
  <2> QED
    BY ONLY <1>1, <2>2 DEF cc
<1> QED
  BY <1>1, <1>4 DEF oo, mm

\* A step that leaves whoever holds the campaign at its work, and reopens no
\* row, lets nobody begin another message.
LEMMA SameHolder ==
  ASSUME NEW e \in Original,
         \A v \in Workers : InFlight(v, e)' => InFlight(v, e),
         \A v \in Workers : Holds(v)' <=> Holds(v),
         \A v \in Workers :
           Holds(v) => Ids(v)' = Ids(v) /\ (Concludes(v, e) => Concludes(v, e)'),
         IsOpen(e)' => IsOpen(e)
  PROVE  /\ Cardinality(Strays(e)') <= Cardinality(Strays(e))
         /\ One(Due(e))' <= One(Due(e))
<1>1. Strays(e)' \subseteq Strays(e)
  BY DEF Strays
<1>2. Due(e)' => Due(e)
  BY DEF Due
<1> QED
  BY <1>1, <1>2, StrayIsDone DEF One

\* When a claim or an order takes the campaign from a worker at its work, that
\* is good for one more copy at most.
LEMMA HolderLeaves ==
  ASSUME TypeInv, OneServer, Framed, NEW e \in Original,
         \A v \in Workers : InFlight(v, e)' => InFlight(v, e),
         \A v \in Workers : Holds(v)' => e \notin Ids(v)',
         IsOpen(e)' => IsOpen(e)
  PROVE  Cardinality(Strays(e)') + One(Due(e))' <=
           Cardinality(Strays(e)) + One(Due(e))
             + One(\E u \in Workers : Holds(u) /\ AtItsWork(u))
<1> DEFINE k == Cardinality(Strays(e))  kk == Cardinality(Strays(e)')
           u == One(Due(e))             uu == One(Due(e))'
           b == One(\E v \in Workers : Holds(v) /\ AtItsWork(v))
<1>1. k \in Nat /\ kk \in Nat /\ u \in {0, 1} /\ uu \in {0, 1} /\ b \in {0, 1}
  BY Countable DEF One
<1>2. CASE \E v \in Workers : Holds(v) /\ InFlight(v, e)
  <2>1. PICK v \in Workers : Holds(v) /\ InFlight(v, e)
    BY <1>2
  <2>2. e \in Ids(v) /\ AtItsWork(v)
    BY <2>1, CurrentIsOriginal DEF InFlight, Handles, AtItsWork, Serves, Framed
  <2>3. \A x \in Workers : Holds(x) => ~Concludes(x, e)
    BY <2>1, OneHolds DEF Concludes, InFlight, Handles
  <2>4. u = 1 /\ b = 1
    BY <2>1, <2>2, <2>3 DEF One, Due
  <2>5. kk <= k + 1
    <3>1. Strays(e)' \subseteq Strays(e) \cup {v}
      BY <2>1, OneHolds DEF Strays
    <3>2. /\ IsFiniteSet(Strays(e) \cup {v})
          /\ Cardinality(Strays(e) \cup {v}) \in {k, k + 1}
      BY Countable, FS_AddElement
    <3>3. kk <= Cardinality(Strays(e) \cup {v})
      BY <3>1, <3>2, FS_Subset
    <3> HIDE DEF k, kk
    <3> QED
      BY <1>1, <3>2, <3>3
  <2> HIDE DEF k, kk, u, uu, b
  <2>6. kk + uu <= k + u + b
    BY ONLY <1>1, <2>4, <2>5
  <2> QED
    BY <2>6 DEF k, kk, u, uu, b
<1>3. CASE \A v \in Workers : ~ (Holds(v) /\ InFlight(v, e))
  <2>1. kk <= k
    <3>1. Strays(e)' \subseteq Strays(e)
      BY <1>3 DEF Strays
    <3> QED
      BY <3>1, StrayIsDone
  <2>2. uu <= u \/ b = 1
    <3> SUFFICES ASSUME Due(e)', ~Due(e)
                 PROVE  \E v \in Workers : Holds(v) /\ AtItsWork(v)
      BY DEF One
    <3>1. IsOpen(e)
      BY DEF Due
    <3>2. PICK v \in Workers : Holds(v) /\ Concludes(v, e)
      BY <3>1 DEF Due
    <3> QED
      BY <3>2 DEF Concludes, AtItsWork, Serves
  <2> HIDE DEF k, kk, u, uu, b
  <2>3. kk + uu <= k + u + b
    BY ONLY <1>1, <2>1, <2>2
  <2> QED
    BY <2>3 DEF k, kk, u, uu, b
<1> QED
  BY <1>2, <1>3

\* The copies stay counted when a worker claims the campaign: a worker that had
\* it in hand has let its lease lapse, which has been counted.
LEMMA CopiesByClaim ==
  ASSUME TypeInv, TypeInv', OneServer, Framed, CopiesAreCounted,
         NEW w \in Workers, Claim(w) \/ ClaimWrite(w)
  PROVE  CopiesAreCounted'
<1> SUFFICES ASSUME NEW e \in Original PROVE Copies(e)' <= Orders' + Mishaps'
  BY DEF CopiesAreCounted, Original
<1>1. /\ pc' = [pc EXCEPT ![w] = "load"]
      /\ pc[w] \in {"polling", "claiming"}
      /\ claimedBy' = w /\ lease' = "live"
      /\ UNCHANGED <<round, entry, address, delivered, batch, outcome,
                     dbErrors, lostReplies, overruns>>
  BY DEF Claim, ClaimWrite, Goto, TakeOver
<1>2. /\ \A v \in Workers : v # w => pc'[v] = pc[v]
      /\ pc'[w] = "load"
  BY <1>1, WorkerTyped
<1>3. batch[w] = {}
  BY <1>1 DEF Framed, IdleHasNoBatch, Serves
<1>4. ASSUME NEW v \in Workers, Holds(v)'
      PROVE  v = w
  BY <1>1, <1>2, <1>4 DEF Holds, Serves, OneServer, OneProcess, Alive
<1>5. \A v \in Workers : InFlight(v, e)' => InFlight(v, e)
  BY <1>1, <1>2 DEF InFlight, Handles, Current
<1>6. Cardinality(Strays(e)') + One(Due(e))' <=
        Cardinality(Strays(e)) + One(Due(e))
          + One(\E u \in Workers : Holds(u) /\ AtItsWork(u))
  <2>1. \A v \in Workers : Holds(v)' => e \notin Ids(v)'
    BY <1>1, <1>3, <1>4 DEF Ids
  <2>2. IsOpen(e)' => IsOpen(e)
    BY <1>1 DEF IsOpen
  <2> QED
    BY <1>5, <2>1, <2>2, HolderLeaves
<1>7. (\E u \in Workers : Holds(u) /\ AtItsWork(u)) => Spare
  <2> SUFFICES ASSUME NEW u \in Workers, Holds(u) PROVE Spare
    OBVIOUS
  <2>1. ~Sqlite
    BY <1>1 DEF OneServer, OneProcess, Holds, Serves, Alive
  <2>2. Claim(w)
    BY <2>1, <1>1 DEF ClaimWrite, Goto, OneServer, ClaimsAreLocked
  <2>3. lease = "lapsed"
    BY <2>1, <2>2 DEF Claim, Claimable, Framed, QueuedIsUnserved, TypeInv,
                      TypeOK, StoreTypeOK
  <2> QED
    BY <2>1, <2>3 DEF Spare
<1>8. /\ One(Spare)' = 0
      /\ One(\E u \in Workers : Holds(u) /\ AtItsWork(u)) <= One(Spare)
  BY <1>1, <1>7 DEF One, Spare
<1>9. Cardinality(Strays(e)') + One(Due(e))' + One(Spare)' <=
        Cardinality(Strays(e)) + One(Due(e)) + One(Spare) + 0
  <2> DEFINE k == Cardinality(Strays(e))  kk == Cardinality(Strays(e)')
             u == One(Due(e))             uu == One(Due(e))'
             s == One(Spare)              ss == One(Spare)'
             b == One(\E v \in Workers : Holds(v) /\ AtItsWork(v))
  <2>1. /\ k \in Nat /\ kk \in Nat /\ u \in {0, 1} /\ uu \in {0, 1}
        /\ s \in {0, 1} /\ b \in {0, 1}
    BY Countable DEF One
  <2>2. kk + uu <= k + u + b /\ ss = 0 /\ b <= s
    BY <1>6, <1>8
  <2> HIDE DEF k, kk, u, uu, s, ss, b
  <2>3. kk + uu + ss <= k + u + s + 0
    BY ONLY <2>1, <2>2
  <2> QED
    BY <2>3 DEF k, kk, u, uu, s, ss
<1>10. Mishaps \in Nat /\ Mishaps' \in Nat /\ Mishaps <= Mishaps'
  <2>1. dbErrors \in Nat /\ lostReplies \in Nat /\ overruns \in Nat
    BY DEF TypeInv, TypeOK, WorkerTypeOK
  <2>2. \A v \in Workers : pc[v] = "crashed" => pc'[v] = "crashed"
    BY <1>1, <1>2
  <2> QED
    BY <1>1, <2>1, <2>2, MishapsGrow
<1>11. Orders \in Nat /\ Orders' \in Nat /\ Orders <= Orders'
  BY <1>1, OrdersGrow
<1> QED
  BY <1>1, <1>9, <1>10, <1>11, StillCounted

\* They stay counted when a process starts.
LEMMA CopiesByStart ==
  ASSUME TypeInv, TypeInv', CopiesAreCounted, NEW w \in Workers, Start(w)
  PROVE  CopiesAreCounted'
<1> SUFFICES ASSUME NEW e \in Original PROVE Copies(e)' <= Orders' + Mishaps'
  BY DEF CopiesAreCounted, Original
<1>1. /\ pc' = [pc EXCEPT ![w] = "idle"] /\ pc[w] = "off"
      /\ UNCHANGED <<round, entry, address, delivered, batch, outcome, serving,
                     claimedBy, lease, dbErrors, lostReplies, overruns>>
  BY DEF Start, Goto
<1>2. /\ \A v \in Workers : v # w => pc'[v] = pc[v]
      /\ pc'[w] = "idle"
  BY <1>1, WorkerTyped
<1>3. \A v \in Workers : Holds(v)' <=> Holds(v)
  BY <1>1, <1>2 DEF Holds, Serves
<1>4. /\ Cardinality(Strays(e)') <= Cardinality(Strays(e))
      /\ One(Due(e))' <= One(Due(e))
  <2>1. \A v \in Workers : InFlight(v, e)' => InFlight(v, e)
    BY <1>1, <1>2 DEF InFlight, Handles, Current
  <2>2. \A v \in Workers :
          Holds(v) => Ids(v)' = Ids(v) /\ (Concludes(v, e) => Concludes(v, e)')
    BY <1>1, <1>2 DEF Ids, Concludes, Current
  <2>3. IsOpen(e)' => IsOpen(e)
    BY <1>1 DEF IsOpen
  <2> QED
    BY <1>3, <2>1, <2>2, <2>3, SameHolder
<1>5. One(Spare)' = One(Spare)
  BY <1>1, <1>3 DEF One, Spare
<1>6. Cardinality(Strays(e)') + One(Due(e))' + One(Spare)' <=
        Cardinality(Strays(e)) + One(Due(e)) + One(Spare) + 0
  <2> DEFINE k == Cardinality(Strays(e))  kk == Cardinality(Strays(e)')
             u == One(Due(e))             uu == One(Due(e))'
             s == One(Spare)              ss == One(Spare)'
  <2>1. /\ k \in Nat /\ kk \in Nat /\ u \in {0, 1} /\ uu \in {0, 1}
        /\ s \in {0, 1}
    BY Countable
  <2>2. kk <= k /\ uu <= u /\ ss = s
    BY <1>4, <1>5
  <2> HIDE DEF k, kk, u, uu, s, ss
  <2>3. kk + uu + ss <= k + u + s + 0
    BY ONLY <2>1, <2>2
  <2> QED
    BY <2>3 DEF k, kk, u, uu, s, ss
<1>7. Mishaps \in Nat /\ Mishaps' \in Nat /\ Mishaps <= Mishaps'
  <2>1. dbErrors \in Nat /\ lostReplies \in Nat /\ overruns \in Nat
    BY DEF TypeInv, TypeOK, WorkerTypeOK
  <2>2. \A v \in Workers : pc[v] = "crashed" => pc'[v] = "crashed"
    BY <1>1, <1>2
  <2> QED
    BY <1>1, <2>1, <2>2, MishapsGrow
<1>8. Orders \in Nat /\ Orders' \in Nat /\ Orders <= Orders'
  BY <1>1, OrdersGrow
<1> QED
  BY <1>1, <1>6, <1>7, <1>8, StillCounted

\* They stay counted when the lease of a worker lapses that still sends.
LEMMA CopiesByLapse ==
  ASSUME TypeInv, TypeInv', CopiesAreCounted, Lapse
  PROVE  CopiesAreCounted'
<1> SUFFICES ASSUME NEW e \in Original PROVE Copies(e)' <= Orders' + Mishaps'
  BY DEF CopiesAreCounted, Original
<1>1. /\ lease = "live" /\ lease' = "lapsed"
      /\ UNCHANGED <<pc, round, entry, address, delivered, batch, outcome,
                     serving, claimedBy, dbErrors, lostReplies>>
      /\ \/ pc[claimedBy] \notin Sending /\ overruns' = overruns
         \/ overruns' = overruns + 1
  BY DEF Lapse
<1>2. \A v \in Workers : Holds(v)' <=> Holds(v)
  BY <1>1 DEF Holds, Serves
<1>3. /\ Cardinality(Strays(e)') <= Cardinality(Strays(e))
      /\ One(Due(e))' <= One(Due(e))
  <2>1. \A v \in Workers : InFlight(v, e)' => InFlight(v, e)
    BY <1>1 DEF InFlight, Handles, Current
  <2>2. \A v \in Workers :
          Holds(v) => Ids(v)' = Ids(v) /\ (Concludes(v, e) => Concludes(v, e)')
    BY <1>1 DEF Ids, Concludes, Current
  <2>3. IsOpen(e)' => IsOpen(e)
    BY <1>1 DEF IsOpen
  <2> QED
    BY <1>2, <2>1, <2>2, <2>3, SameHolder
<1> DEFINE more == One(overruns' = overruns + 1)
<1>4. more \in {0, 1} /\ (more = 1 => overruns' = overruns + 1)
  BY DEF One
<1>5. One(Spare) = 0 /\ One(Spare)' <= more
  <2>1. overruns' = overruns => ~Spare'
    <3>1. overruns \in Nat
      BY ServingTyped
    <3>2. overruns' = overruns => overruns' # overruns + 1
      BY ONLY <3>1
    <3> QED
      BY <1>1, <3>2 DEF Spare, Holds, Serves
  <2> QED
    BY <1>1, <2>1 DEF One, Spare
<1>6. Cardinality(Strays(e)') + One(Due(e))' + One(Spare)' <=
        Cardinality(Strays(e)) + One(Due(e)) + One(Spare) + more
  <2> DEFINE k == Cardinality(Strays(e))  kk == Cardinality(Strays(e)')
             u == One(Due(e))             uu == One(Due(e))'
             s == One(Spare)              ss == One(Spare)'
  <2>1. /\ k \in Nat /\ kk \in Nat /\ u \in {0, 1} /\ uu \in {0, 1}
        /\ ss \in {0, 1}
    BY Countable
  <2>2. kk <= k /\ uu <= u /\ s = 0 /\ ss <= more
    BY <1>3, <1>5
  <2> HIDE DEF k, kk, u, uu, s, ss, more
  <2>3. kk + uu + ss <= k + u + s + more
    BY ONLY <1>4, <2>1, <2>2
  <2> QED
    BY <2>3 DEF k, kk, u, uu, s, ss, more
<1>7. /\ Mishaps \in Nat /\ Mishaps' \in Nat /\ Mishaps <= Mishaps'
      /\ more = 1 => Mishaps' >= Mishaps + 1
  <2>1. /\ dbErrors \in Nat /\ lostReplies \in Nat /\ overruns \in Nat
        /\ overruns' \in Nat
    BY DEF TypeInv, TypeOK, WorkerTypeOK
  <2>2. \A v \in Workers : pc[v] = "crashed" => pc'[v] = "crashed"
    BY <1>1
  <2>3. overruns' >= overruns
    BY <1>1, <2>1
  <2> HIDE DEF more
  <2> QED
    BY <1>1, <1>4, <2>1, <2>2, <2>3, MishapsGrow
<1>8. Orders \in Nat /\ Orders' \in Nat /\ Orders <= Orders'
  BY <1>1, OrdersGrow
<1> HIDE DEF more
<1> QED
  BY <1>1, <1>4, <1>6, <1>7, <1>8, StillCounted

\* They stay counted when a request leaves the campaign with its holder.
LEMMA CopiesByRequests ==
  ASSUME TypeInv, TypeInv', OneServer, Framed, CopiesAreCounted, Asks
  PROVE  CopiesAreCounted'
<1> SUFFICES ASSUME NEW e \in Original PROVE Copies(e)' <= Orders' + Mishaps'
  BY DEF CopiesAreCounted, Original
<1>1. UNCHANGED <<workerVars, delivered, address, claimedBy, lease>>
  BY DEF Asks, Steers
<1>2. \A v \in Workers :
        /\ InFlight(v, e)' => InFlight(v, e)
        /\ Ids(v)' = Ids(v)
        /\ Concludes(v, e)' <=> Concludes(v, e)
  BY <1>1 DEF InFlight, Handles, Current, Ids, Concludes
<1>3. IsOpen(e)' => IsOpen(e)
  BY DeliveredIsNat DEF Asks, Steers, IsOpen, DeletedRow
<1>4. Mishaps \in Nat /\ Mishaps' = Mishaps
  <2>1. /\ dbErrors \in Nat /\ lostReplies \in Nat /\ overruns \in Nat
        /\ dbErrors' = dbErrors /\ lostReplies' = lostReplies
        /\ overruns' = overruns /\ pc' = pc
    BY <1>1 DEF TypeInv, TypeOK, WorkerTypeOK
  <2>2. \A v \in Workers : pc[v] = "crashed" => pc'[v] = "crashed"
    BY <2>1
  <2>3. Mishaps \in Nat
    BY <2>1, <2>2, MishapsGrow
  <2> QED
    BY <2>1, <2>3 DEF Mishaps
<1>5. Orders \in Nat /\ Orders' \in Nat /\ Orders <= Orders'
  BY <1>1, OrdersGrow DEF Asks, Steers
<1>6. CASE \A v \in Workers : Holds(v)' <=> Holds(v)
  <2>1. /\ Cardinality(Strays(e)') <= Cardinality(Strays(e))
        /\ One(Due(e))' <= One(Due(e))
    BY <1>2, <1>3, <1>6, SameHolder
  <2>2. One(Spare)' = One(Spare)
    BY <1>1, <1>6 DEF One, Spare
  <2>3. Cardinality(Strays(e)') + One(Due(e))' + One(Spare)' <=
          Cardinality(Strays(e)) + One(Due(e)) + One(Spare) + 0
    <3> DEFINE k == Cardinality(Strays(e))  kk == Cardinality(Strays(e)')
               u == One(Due(e))             uu == One(Due(e))'
               s == One(Spare)              ss == One(Spare)'
    <3>1. /\ k \in Nat /\ kk \in Nat /\ u \in {0, 1} /\ uu \in {0, 1}
          /\ s \in {0, 1}
      BY Countable
    <3>2. kk <= k /\ uu <= u /\ ss = s
      BY <2>1, <2>2
    <3> HIDE DEF k, kk, u, uu, s, ss
    <3>3. kk + uu + ss <= k + u + s + 0
      BY ONLY <3>1, <3>2
    <3> QED
      BY <3>3 DEF k, kk, u, uu, s, ss
  <2> QED
    BY <1>1, <1>4, <1>5, <2>3, StillCounted
<1>7. CASE ~ \A v \in Workers : Holds(v)' <=> Holds(v)
  <2>1. /\ ~Sqlite /\ round' = round + 1
        /\ \E s \in Sessions : request[s].op \in {"send", "resume"}
    <3>1. ~Sqlite
      BY <1>1, <1>7 DEF Holds, Serves
    <3>2. round' # round
      BY <1>1, <1>7 DEF Holds, Serves
    <3> QED
      BY <3>1, <3>2 DEF Asks, Steers
  <2>2. \A v \in Workers : ~Holds(v)'
    <3>1. \A v \in Workers : serving[v] <= round
      BY DEF OneServer, RoundsAreQueued
    <3>2. round \in Nat /\ serving \in [Workers -> Nat]
      BY ServingTyped
    <3>3. \A v \in Workers : serving[v] # round'
      BY ONLY <2>1, <3>1, <3>2
    <3> QED
      BY <1>1, <2>1, <3>3 DEF Holds
  <2>3. Cardinality(Strays(e)') + One(Due(e))' <=
          Cardinality(Strays(e)) + One(Due(e))
            + One(\E u \in Workers : Holds(u) /\ AtItsWork(u))
    BY <1>2, <1>3, <2>2, HolderLeaves
  <2> DEFINE more == One(\E u \in Workers : Holds(u) /\ AtItsWork(u))
  <2>4. more \in {0, 1}
        /\ (more = 1 => \E u \in Workers : Holds(u) /\ AtItsWork(u))
    BY DEF One
  <2>5. One(Spare)' = 0 /\ One(Spare) \in {0, 1}
    BY <2>2 DEF One, Spare
  <2>6. Cardinality(Strays(e)') + One(Due(e))' + One(Spare)' <=
          Cardinality(Strays(e)) + One(Due(e)) + One(Spare) + more
    <3> DEFINE k == Cardinality(Strays(e))  kk == Cardinality(Strays(e)')
               u == One(Due(e))             uu == One(Due(e))'
               s == One(Spare)              ss == One(Spare)'
    <3>1. /\ k \in Nat /\ kk \in Nat /\ u \in {0, 1} /\ uu \in {0, 1}
      BY Countable
    <3>2. kk + uu <= k + u + more /\ ss = 0 /\ s \in {0, 1}
      BY <2>3, <2>5
    <3> HIDE DEF k, kk, u, uu, s, ss, more
    <3>3. kk + uu + ss <= k + u + s + more
      BY ONLY <2>4, <3>1, <3>2
    <3> QED
      BY <3>3 DEF k, kk, u, uu, s, ss
  <2>7. more = 1 => Orders' >= Orders + 1
    <3> SUFFICES ASSUME NEW u \in Workers, AtItsWork(u)
                 PROVE  Orders' >= Orders + 1
      BY <2>4
    <3>1. round # 0
      BY DEF Framed, NothingBeforeOrders, AtItsWork
    <3>2. ~ (Calm /\ overruns = 0)
      BY <2>1 DEF Framed, CalmIsOrderly
    <3>3. ~ (Calm /\ overruns = 0)'
      BY <1>1, <3>2 DEF Calm
    <3>4. Orders = round /\ (round' = 0 \/ Orders' = round')
      BY <2>1, <3>1, <3>2, <3>3 DEF Orders
    <3>5. round \in Nat
      BY ServingTyped
    <3> DEFINE o == Orders  oo == Orders'
    <3>6. o = round /\ (round' = 0 \/ oo = round')
      BY <3>4
    <3> HIDE DEF o, oo
    <3>7. oo >= o + 1
      BY ONLY <2>1, <3>5, <3>6
    <3> QED
      BY <3>7 DEF o, oo
  <2>8. Mishaps' \in Nat /\ Mishaps <= Mishaps'
    BY <1>4
  <2> HIDE DEF more
  <2> QED
    BY <1>1, <1>4, <1>5, <2>4, <2>6, <2>7, <2>8, StillCounted
<1> QED
  BY <1>6, <1>7

\* A draft owes everybody in it one copy.
LEMMA CopyInit == Init => CopyInv
<1> SUFFICES ASSUME Init PROVE CopyInv
  OBVIOUS
<1>1. TypeInv /\ OneServer /\ Framed
  BY TypeInit, OneServerInit, FramedInit
<1>2. \A w \in Workers : pc[w] = "off"
  BY DEF Init, WorkerInit
<1>3. Orders = 1 /\ Mishaps = 0
  <2>1. {w \in Workers : pc[w] = "crashed"} = {}
    BY <1>2
  <2>2. Cardinality({}) = 0
    BY FS_EmptySet
  <2>3. dbErrors = 0 /\ lostReplies = 0 /\ overruns = 0 /\ round = 0
    BY DEF Init, WorkerInit, StoreInit
  <2> QED
    BY <2>1, <2>2, <2>3 DEF Orders, Mishaps
<1>4. ASSUME NEW e \in Original
      PROVE  Copies(e) <= 1
  <2>1. Strays(e) = {} /\ ~Spare
    BY <1>2 DEF Strays, InFlight, Handles, Spare, Holds, Serves
  <2>2. Cardinality(Strays(e)) = 0 /\ One(Spare) = 0
    BY <2>1, FS_EmptySet DEF One
  <2>3. delivered[address[e]] = 0
    BY <1>1, DeliveredIsNat DEF Init, StoreInit
  <2>4. One(Due(e)) \in {0, 1}
    BY DEF One
  <2> QED
    BY <2>2, <2>3, <2>4 DEF Copies
<1>5. CopiesAreCounted
  <2> SUFFICES ASSUME NEW e \in Original PROVE Copies(e) <= Orders + Mishaps
    BY DEF CopiesAreCounted
  <2>1. Copies(e) <= 1 /\ Orders + Mishaps = 1
    BY <1>3, <1>4
  <2> QED
    BY <2>1
<1> QED
  BY <1>1, <1>5 DEF CopyInv

\* Every step keeps the count.
LEMMA CopyStep ==
  ASSUME "audience" \notin Ops, CopyInv, [Next]_vars
  PROVE  CopyInv'
<1> USE DEF CopyInv
<1>1. TypeInv' /\ OneServer'
  BY TypeStep, OneServerStep
<1>2. CASE Asks
  BY <1>1, <1>2, FramedByRequests, CopiesByRequests
<1>3. CASE RequestNext
  BY <1>2, <1>3, RequestsAsk DEF Framed
<1>4. CASE UNCHANGED vars
  BY <1>2, <1>4 DEF Asks, Steers
<1>5. ASSUME NEW w \in Workers, WorkerStep(w) \/ WorkerFault(w)
      PROVE  CopyInv'
  <2>1. CASE Claim(w) \/ ClaimWrite(w)
    BY <1>1, <2>1, FramedByClaim, CopiesByClaim
  <2>2. CASE ~Claim(w) /\ ~ClaimWrite(w)
    <3>1. Works(w) /\ Costs(w)
      BY <1>5, <2>2, WorkersWork, WorkersCost
    <3>2. Framed'
      BY <3>1, FramedByWork DEF Costs
    <3> QED
      BY <1>1, <3>1, <3>2, CopiesByWork
  <2> QED
    BY <2>1, <2>2
<1>6. ASSUME NEW w \in Workers, Start(w)
      PROVE  CopyInv'
  BY <1>1, <1>6, FramedByStart, CopiesByStart
<1>7. CASE Lapse
  BY <1>1, <1>7, FramedByLapse, CopiesByLapse
<1> QED
  BY <1>3, <1>4, <1>5, <1>6, <1>7 DEF Next, WorkerNext

\* What an address was handed is at most what its row counts.
LEMMA DeliveredIsCounted ==
  ASSUME CopyInv, NEW a \in Addresses
  PROVE  /\ Orders \in Nat /\ Mishaps \in Nat /\ round \in Nat
         /\ delivered[a] <= Orders + Mishaps
         /\ round = 0 => delivered[a] = 0
<1> USE DEF CopyInv
<1>1. delivered[a] \in Nat /\ round \in Nat
  BY RowsTyped, ServingTyped
<1>2. Mishaps \in Nat
  <2>1. IsFiniteSet(Crashed)
    BY FS_Subset, WorkersAssumption DEF WorkersAssumption, Crashed
  <2>2. Cardinality(Crashed) \in Nat
    BY <2>1, FS_CardinalityType
  <2>3. dbErrors \in Nat /\ lostReplies \in Nat /\ overruns \in Nat
    BY DEF TypeInv, TypeOK, WorkerTypeOK
  <2>4. Mishaps = Cardinality(Crashed) + dbErrors + lostReplies + overruns
    BY DEF Mishaps, Crashed
  <2> QED
    BY ONLY <2>2, <2>3, <2>4
<1>3. Orders \in Nat
  BY <1>1 DEF Orders
<1>4. delivered[a] <= Orders + Mishaps
  <2>1. CASE \E e \in Original : Audience[e] = a
    <3>1. PICK e \in Original : Audience[e] = a
      BY <2>1
    <3>2. address[e] = a
      BY <3>1 DEF Framed, RowsAreOriginal
    <3> DEFINE d == delivered[address[e]]  k == Cardinality(Strays(e))
               u == One(Due(e))            s == One(Spare)
               n == Orders + Mishaps
    <3>3. /\ d \in Nat /\ k \in Nat /\ u \in {0, 1} /\ s \in {0, 1}
          /\ n \in Nat
      BY <1>2, <1>3, DeliveredIsNat, Countable
    <3>4. d + k + u + s <= n
      BY DEF CopiesAreCounted, Copies
    <3> HIDE DEF d, k, u, s, n
    <3>5. d <= n
      BY ONLY <3>3, <3>4
    <3> QED
      BY <3>2, <3>5 DEF d, n
  <2>2. CASE ~ \E e \in Original : Audience[e] = a
    <3>1. delivered[a] = 0
      BY <2>2 DEF Framed, OthersGotNothing
    <3> QED
      BY <1>2, <1>3, <3>1
  <2> QED
    BY <2>1, <2>2
<1>5. round = 0 => delivered[a] = 0
  BY DEF Framed, NothingBeforeOrders
<1> QED
  BY <1>1, <1>2, <1>3, <1>4, <1>5

\* Each time the campaign was put in the queue, and each mishap, is good for one
\* copy to an address, whatever operators do at the same time but change the
\* list of people, and however many workers that leaves with a message.
\* (_claim_campaign, _renew_lease, _finish_campaign, bootstrap)
THEOREM CopiesAreOrdered ==
  ASSUME "audience" \notin Ops
  PROVE  Spec => []CopiesPerOrder
<1>1. Init => CopyInv
  BY CopyInit
<1>2. CopyInv /\ [Next]_vars => CopyInv'
  BY CopyStep
<1>3. CopyInv => CopiesPerOrder
  <2> SUFFICES ASSUME CopyInv, NEW a \in Addresses
               PROVE  delivered[a] <= round + Mishaps
    BY DEF CopiesPerOrder
  <2>1. CASE round = 0
    BY <2>1, DeliveredIsCounted
  <2>2. CASE round # 0
    <3>1. Orders <= round
      BY <2>2, DeliveredIsCounted DEF Orders
    <3> DEFINE o == Orders  m == Mishaps  d == delivered[a]
    <3>2. /\ o \in Nat /\ m \in Nat /\ d <= o + m /\ o <= round
          /\ round \in Nat /\ d \in Nat
      BY <3>1, DeliveredIsCounted, RowsTyped DEF CopyInv
    <3> HIDE DEF o, m, d
    <3>3. d <= round + m
      BY ONLY <3>2
    <3> QED
      BY <3>3 DEF m, d
  <2> QED
    BY <2>1, <2>2
<1> QED
  BY <1>1, <1>2, <1>3, PTL DEF Spec

\* Nobody gets a campaign twice, but for one more copy for each process that
\* died, commit that failed or reply that was lost: on SQLite whatever operators
\* do, and on PostgreSQL when they do one thing after the other and let a
\* campaign finish.  (_renew_lease before and the commit after each message)
THEOREM ResendsAreAccountedFor ==
  ASSUME "audience" \notin Ops, Sqlite \/ Calm
  PROVE  Spec => []ResendsAccountedFor
<1>1. Init => CopyInv
  BY CopyInit
<1>2. CopyInv /\ [Next]_vars => CopyInv'
  BY CopyStep
<1>3. CopyInv => ResendsAccountedFor
  <2> SUFFICES ASSUME CopyInv, overruns = 0, NEW a \in Addresses
               PROVE  delivered[a] <= 1 + Mishaps
    BY DEF ResendsAccountedFor
  <2>1. Orders = 1
    BY DEF Orders
  <2> QED
    BY <2>1, DeliveredIsCounted
<1> QED
  BY <1>1, <1>2, <1>3, PTL DEF Spec

-----------------------------------------------------------------------------
(* A stop, a cancel and an unsubscribe take effect between messages *)

\* While a pause or a cancel stands there are no more messages in hand than may
\* still go out, and none is begun.
StopIsSeen ==
  halt = "stands" =>
    status \notin ACTIVE_STATUSES /\ Cardinality(InHand) <= leeway

\* Likewise for a recipient that has unsubscribed.
UnsubscribeIsSeen == \A r \in suppressed : Cardinality(OnTheWay(r)) <= grace[r]

\* A step that sets off no message a standing stop or unsubscribe forbids.
SetsOff ==
  /\ UNCHANGED <<suppressed, leeway, grace>>
  /\ InHand' \subseteq InHand \/ status = "sending"
  /\ \A r \in suppressed : OnTheWay(r)' \subseteq OnTheWay(r)

\* A worker hands over the message it has in hand.
HandsOver(w) ==
  /\ w \in InHand /\ InHand' \subseteq InHand \ {w}
  /\ w \in OnTheWay(Current(w).recipient)
  /\ \A r \in RecipientIds :
       /\ OnTheWay(r)' \subseteq OnTheWay(r)
       /\ r = Current(w).recipient => w \notin OnTheWay(r)'
  /\ HandOver(w, FALSE)
  /\ UNCHANGED suppressed

\* A stop that stands has stood, and nobody sends in spite of it.
KeepsHalt ==
  halt' = "stands" =>
    halt = "stands" /\ (status' \in ACTIVE_STATUSES => status \in ACTIVE_STATUSES)

\* What a worker has in hand depends on where it is, what it has loaded and
\* which row comes next.
LEMMA OthersInHand ==
  ASSUME NEW w \in Workers, WorkerTypeOK,
         \A v \in Workers : v # w =>
           pc'[v] = pc[v] /\ batch'[v] = batch[v] /\ loaded'[v] = loaded[v]
  PROVE  /\ InHand' \ {w} = InHand \ {w}
         /\ \A r : OnTheWay(r)' \ {w} = OnTheWay(r) \ {w}
<1>1. \A v \in Workers : batch'[v] = batch[v] => Current(v)' = Current(v)
  BY DEF Current
<1>2. InHand' \ {w} = InHand \ {w}
  BY DEF InHand
<1>3. ASSUME NEW r PROVE OnTheWay(r)' \ {w} = OnTheWay(r) \ {w}
  <2>1. ASSUME NEW v \in Workers, v # w
        PROVE  v \in OnTheWay(r)' <=> v \in OnTheWay(r)
    <3>1. (v \in InHand' <=> v \in InHand) /\ pc'[v] = pc[v]
      BY <1>2, <2>1
    <3>2. Current(v)' = Current(v)
      BY <1>1, <2>1
    <3> QED
      BY <3>1, <3>2 DEF OnTheWay
  <2> QED
    BY <2>1 DEF OnTheWay, InHand
<1> QED
  BY <1>2, <1>3

\* What a step of worker w means for its message.
Carries(w) ==
  /\ \A v \in Workers : v # w =>
       pc'[v] = pc[v] /\ batch'[v] = batch[v] /\ loaded'[v] = loaded[v]
  /\ suppressed' = suppressed
  /\ KeepsHalt
  /\ \/ /\ UNCHANGED <<leeway, grace>>
        /\ \/ pc'[w] \notin {"check", "send", "resend"}
           \/ pc'[w] = "check" /\ status = "sending"
           \/ pc'[w] = "check" /\ UNCHANGED <<pc, batch, loaded>>
           \/ /\ pc'[w] = "send" /\ pc[w] = "check"
              /\ UNCHANGED <<batch, loaded>> /\ ~IsSuppressed(w)
           \/ /\ pc'[w] \in {"send", "resend"} /\ pc[w] \in {"send", "resend"}
              /\ UNCHANGED <<batch, loaded>>
     \/ /\ pc[w] \in {"send", "resend"} /\ pc'[w] = "record"
        /\ UNCHANGED <<batch, loaded>>
        /\ ~loaded[w].dryRun /\ HandOver(w, FALSE)

\* Every step of a worker is such a step.
LEMMA WorkersCarry ==
  ASSUME TypeInv, StopIsSeen, NEW w \in Workers,
         Start(w) \/ WorkerStep(w) \/ WorkerFault(w)
  PROVE  Carries(w)
<1>0. /\ pc \in [Workers -> Locations] /\ batch \in [Workers -> SUBSET Items]
      /\ loaded \in [Workers -> [content : Nat, dryRun : BOOLEAN]]
      /\ leeway \in Int /\ grace \in [RecipientIds -> Int]
  BY DEF TypeInv, TypeOK, WorkerTypeOK, StoreTypeOK
<1> USE <1>0 DEF Carries, KeepsHalt
<1>19. Start(w) => Carries(w)
  BY DEF Start, Goto
<1>1. Stop(w) \/ Exit(w) \/ Poll(w) \/ ClaimNothing(w) => Carries(w)
  BY DEF Stop, Exit, Poll, ClaimNothing, Goto
<1>2. ClaimRead(w) => Carries(w)
  BY DEF ClaimRead, Goto
<1>18. Claim(w) => Carries(w)
  BY DEF Claim, Claimable, Goto, TakeOver, StopIsSeen
<1>3. ClaimWrite(w) => Carries(w)
  BY DEF ClaimWrite, Goto, TakeOver
<1>4. ClaimStale(w) \/ LoadNothing(w) => Carries(w)
  BY DEF ClaimStale, LoadNothing, Goto, Forget
<1>5. StaleFlush(w) \/ RecordStale(w) \/ Crash(w) => Carries(w)
  BY DEF StaleFlush, RecordStale, Crash, Goto, Forget
<1>6. Leave(w) => Carries(w)
  BY DEF Leave, Goto, Forget
<1>7. Load(w) \/ Connect(w) \/ CheckStatus(w) => Carries(w)
  BY DEF Load, Connect, CheckStatus, Goto
<1>8. Fail(w) \/ Finish(w) => Carries(w)
  BY DEF Fail, Finish, Goto
<1>9. Fetch(w) => Carries(w)
  BY DEF Fetch, Goto
<1>10. EndBatch(w) => Carries(w)
  BY DEF EndBatch, Goto
<1>11. Renew(w) => Carries(w)
  BY DEF Renew, Goto, Mine
<1>12. CheckRecipient(w) \/ Skip(w) => Carries(w)
  BY DEF CheckRecipient, Skip, Goto
<1>13. DryRun(w) \/ Refused(w) => Carries(w)
  BY DEF DryRun, Refused, Conclude
<1>14. Accepted(w) => Carries(w)
  <2> SUFFICES ASSUME Accepted(w) PROVE Carries(w)
    OBVIOUS
  <2>1. /\ pc[w] \in {"send", "resend"} /\ pc' = [pc EXCEPT ![w] = "record"]
        /\ UNCHANGED <<batch, loaded, suppressed, status>> /\ ~loaded[w].dryRun
        /\ HandOver(w, FALSE)
    BY DEF Accepted, Conclude
  <2>2. halt' = halt
    BY <2>1 DEF HandOver
  <2> QED
    BY <2>1, <2>2
<1>15. ReplyLost(w) => Carries(w)
  <2> SUFFICES ASSUME ReplyLost(w) PROVE Carries(w)
    OBVIOUS
  <2>1. UNCHANGED <<batch, loaded, suppressed, status>> /\ ~loaded[w].dryRun
    BY DEF ReplyLost
  <2>2. CASE pc[w] = "send" /\ pc' = [pc EXCEPT ![w] = "resend"]
    <3>1. HandOver(w, TRUE)
      BY <2>2 DEF ReplyLost
    <3>2. UNCHANGED <<leeway, halt>>
      BY <3>1 DEF HandOver
    <3>3. grace' = grace
      <4>1. \/ grace' = grace
            \/ \E r : grace' = [grace EXCEPT ![r] = @ - 0]
        BY <3>1 DEF HandOver
      <4> QED
        BY ONLY <4>1, <1>0
    <3> QED
      BY <2>1, <2>2, <3>2, <3>3
  <2>3. CASE pc[w] = "resend" /\ pc' = [pc EXCEPT ![w] = "record"]
    <3>1. HandOver(w, FALSE)
      BY <2>3 DEF ReplyLost
    <3>2. halt' = halt
      BY <3>1 DEF HandOver
    <3> QED
      BY <2>1, <2>3, <3>1, <3>2
  <2> QED
    BY <2>2, <2>3 DEF ReplyLost, Conclude, Goto
<1>16. Record(w) => Carries(w)
  BY DEF Record, Goto
<1>17. DbError(w) => Carries(w)
  <2> SUFFICES ASSUME DbError(w) PROVE Carries(w)
    OBVIOUS
  <2>1. \E to \in {"idle", "leaving"} : pc' = [pc EXCEPT ![w] = to]
    BY DEF DbError, Goto
  <2> QED
    BY <2>1 DEF DbError, Forget
<1> HIDE DEF Carries
<1> QED
  BY <1>1, <1>2, <1>3, <1>4, <1>5, <1>6, <1>7, <1>8, <1>9, <1>10, <1>11,
     <1>12, <1>13, <1>14, <1>15, <1>16, <1>17, <1>18, <1>19
  DEF WorkerStep, WorkerFault

\* And that is no more than a stop and an unsubscribe allow.
LEMMA CarriedIsSeen ==
  ASSUME TypeInv, NEW w \in Workers, Carries(w)
  PROVE  SetsOff \/ HandsOver(w)
<1>0. WorkerTypeOK /\ suppressed \subseteq RecipientIds
  BY DEF TypeInv, TypeOK, StoreTypeOK, Recipients
<1>1. /\ InHand' \ {w} = InHand \ {w}
      /\ \A r : OnTheWay(r)' \ {w} = OnTheWay(r) \ {w}
  BY <1>0, OthersInHand DEF Carries
<1>2. batch' = batch => Current(w)' = Current(w)
  BY DEF Current
<1>3. CASE /\ UNCHANGED <<leeway, grace>>
           /\ \/ pc'[w] \notin {"check", "send", "resend"}
              \/ pc'[w] = "check" /\ status = "sending"
              \/ pc'[w] = "check" /\ UNCHANGED <<pc, batch, loaded>>
              \/ /\ pc'[w] = "send" /\ pc[w] = "check"
                 /\ UNCHANGED <<batch, loaded>> /\ ~IsSuppressed(w)
              \/ /\ pc'[w] \in {"send", "resend"} /\ pc[w] \in {"send", "resend"}
                 /\ UNCHANGED <<batch, loaded>>
  <2>1. (w \in InHand' => w \in InHand) \/ status = "sending"
    BY <1>3 DEF InHand
  <2>2. ASSUME NEW r \in suppressed, w \in OnTheWay(r)'
        PROVE  w \in OnTheWay(r)
    BY <1>2, <1>3, <2>2 DEF OnTheWay, InHand, IsSuppressed
  <2>3. InHand' \subseteq InHand \/ status = "sending"
    BY <1>1, <2>1
  <2>4. \A r \in suppressed : OnTheWay(r)' \subseteq OnTheWay(r)
    BY <1>1, <2>2
  <2> QED
    BY <1>3, <2>3, <2>4 DEF SetsOff, Carries
<1>4. CASE /\ pc[w] \in {"send", "resend"} /\ pc'[w] = "record"
           /\ UNCHANGED <<batch, loaded>>
           /\ ~loaded[w].dryRun /\ HandOver(w, FALSE)
  <2>1. w \in InHand /\ w \notin InHand'
    BY <1>4 DEF InHand
  <2>2. w \in OnTheWay(Current(w).recipient) /\ \A r : w \notin OnTheWay(r)'
    BY <1>4, <2>1 DEF OnTheWay
  <2> QED
    BY <1>1, <1>4, <2>1, <2>2 DEF HandsOver, Carries
<1> QED
  BY <1>3, <1>4 DEF Carries

\* Workers are counted as they are added and taken away.
LEMMA FewerWorkers ==
  ASSUME NEW S \in SUBSET Workers, NEW T \in SUBSET S
  PROVE  /\ Cardinality(S) \in Nat /\ Cardinality(T) \in Nat
         /\ Cardinality(T) <= Cardinality(S)
         /\ \A w \in S \ T : Cardinality(T) <= Cardinality(S) - 1
<1>1. /\ IsFiniteSet(S) /\ Cardinality(S) \in Nat /\ Cardinality(T) \in Nat
      /\ Cardinality(T) <= Cardinality(S)
  BY WorkersCounted, FS_Subset
<1>2. ASSUME NEW w \in S \ T
      PROVE  Cardinality(T) <= Cardinality(S) - 1
  <2>1. Cardinality(S \ {w}) = Cardinality(S) - 1 /\ IsFiniteSet(S \ {w})
    BY <1>1, FS_RemoveElement
  <2>2. Cardinality(T) <= Cardinality(S \ {w})
    BY <2>1, FS_Subset
  <2> QED
    BY <2>1, <2>2
<1> QED
  BY <1>1, <1>2

\* A worker sees a stop before the next message.
LEMMA WorkSeesStop ==
  ASSUME TypeInv, StopIsSeen, NEW w \in Workers, KeepsHalt,
         SetsOff \/ HandsOver(w)
  PROVE  StopIsSeen'
<1> SUFFICES ASSUME halt' = "stands"
             PROVE  /\ status' \notin ACTIVE_STATUSES
                    /\ Cardinality(InHand') <= leeway'
  BY DEF StopIsSeen, InHand
<1>1. /\ halt = "stands" /\ status \notin ACTIVE_STATUSES
      /\ status' \notin ACTIVE_STATUSES
      /\ Cardinality(InHand) <= leeway /\ leeway \in Int
  BY DEF KeepsHalt, StopIsSeen, TypeInv, TypeOK, StoreTypeOK
<1>2. InHand \in SUBSET Workers
  BY DEF InHand
<1>3. CASE SetsOff
  <2>1. InHand' \in SUBSET InHand /\ leeway' = leeway
    BY <1>1, <1>3 DEF SetsOff
  <2>2. Cardinality(InHand') <= Cardinality(InHand)
        /\ Cardinality(InHand') \in Nat /\ Cardinality(InHand) \in Nat
    BY <1>2, <2>1, FewerWorkers
  <2> QED
    BY <1>1, <2>1, <2>2
<1>4. CASE HandsOver(w)
  <2>1. InHand' \in SUBSET InHand /\ w \in InHand \ InHand'
        /\ leeway' = leeway - 1
    BY <1>1, <1>4 DEF HandsOver, HandOver
  <2>2. Cardinality(InHand') <= Cardinality(InHand) - 1
        /\ Cardinality(InHand') \in Nat /\ Cardinality(InHand) \in Nat
    BY <1>2, <2>1, FewerWorkers
  <2> QED
    BY <1>1, <2>1, <2>2
<1> QED
  BY <1>3, <1>4

\* A worker sees an unsubscribe before the next message.
LEMMA WorkSeesUnsubscribe ==
  ASSUME TypeInv, UnsubscribeIsSeen, NEW w \in Workers, SetsOff \/ HandsOver(w)
  PROVE  UnsubscribeIsSeen'
<1>0. /\ suppressed' = suppressed /\ suppressed \subseteq RecipientIds
      /\ grace \in [RecipientIds -> Int]
  BY DEF SetsOff, HandsOver, TypeInv, TypeOK, StoreTypeOK, Recipients
<1> SUFFICES ASSUME NEW r \in suppressed
             PROVE  Cardinality(OnTheWay(r)') <= grace'[r]
  BY <1>0 DEF UnsubscribeIsSeen
<1>1. Cardinality(OnTheWay(r)) <= grace[r] /\ grace[r] \in Int
  BY <1>0 DEF UnsubscribeIsSeen
<1>2. OnTheWay(r) \in SUBSET Workers /\ OnTheWay(r)' \in SUBSET OnTheWay(r)
  BY <1>0 DEF OnTheWay, InHand, SetsOff, HandsOver
<1>3. /\ Cardinality(OnTheWay(r)') <= Cardinality(OnTheWay(r))
      /\ Cardinality(OnTheWay(r)') \in Nat /\ Cardinality(OnTheWay(r)) \in Nat
      /\ \A v \in OnTheWay(r) \ OnTheWay(r)' :
           Cardinality(OnTheWay(r)') <= Cardinality(OnTheWay(r)) - 1
  BY <1>2, FewerWorkers
<1>4. CASE grace'[r] = grace[r]
  BY <1>1, <1>3, <1>4
<1>5. CASE HandsOver(w) /\ grace'[r] # grace[r]
  <2> DEFINE q == Current(w).recipient
  <2>1. grace' = [grace EXCEPT ![q] = @ - 1] \/ grace' = grace
    BY <1>5 DEF HandsOver, HandOver
  <2>2. q = r /\ grace'[r] = grace[r] - 1
    <3> HIDE DEF q
    <3> QED
      BY <1>0, <1>5, <2>1
  <2>3. w \in OnTheWay(r) \ OnTheWay(r)'
    BY <1>0, <1>5, <2>2 DEF HandsOver
  <2>4. Cardinality(OnTheWay(r)') <= Cardinality(OnTheWay(r)) - 1
    BY <1>3, <2>3
  <2> QED
    BY <1>1, <1>3, <2>2, <2>4
<1> QED
  BY <1>4, <1>5 DEF SetsOff

\* A request leaves the workers alone.  One that does not halt the campaign does
\* not put it in the queue under a stop either.
LEMMA RequestsKeepHistory ==
  ASSUME TypeInv, RequestNext
  PROVE  /\ UNCHANGED workerVars
         /\ UNCHANGED <<suppressed, grace>> \/ RecipientNext
         /\ \/ KeepsHalt /\ leeway' = leeway
            \/ /\ status' \in {"paused", "cancelled"}
               /\ leeway' = IF halt = "stands" THEN leeway
                            ELSE Cardinality(InHand)
<1> USE DEF KeepsHalt
<1>1. ASSUME NEW s \in Sessions, NEW op, NEW dry, Begin(s, op, dry)
      PROVE  UNCHANGED <<storeVars, workerVars>>
  BY <1>1 DEF Begin
<1>2. ASSUME NEW s \in Sessions,
             SendRead(s) \/ PauseRead(s) \/ ResumeRead(s) \/ CancelRead(s)
               \/ RetryRead(s) \/ UpdateRead(s) \/ AudienceRead(s)
               \/ RemoveRead(s) \/ DeleteRead(s)
      PROVE  UNCHANGED <<storeVars, workerVars>>
  BY <1>1, <1>2
  DEF SendRead, PauseRead, ResumeRead, CancelRead, RetryRead, UpdateRead,
      AudienceRead, RemoveRead, DeleteRead
<1>3. ASSUME NEW s \in Sessions,
             RetryCommit(s) \/ UpdateCommit(s) \/ AudienceCommit(s)
               \/ RemoveCommit(s) \/ DeleteCommit(s) \/ StaleCommit(s)
      PROVE  /\ UNCHANGED <<workerVars, historyVars, suppressed>>
             /\ status' = status \/ status' = "deleted"
  BY <1>3
  DEF RetryCommit, UpdateCommit, AudienceCommit, RemoveCommit, DeleteCommit,
      StaleCommit, Commit
<1>4. ASSUME NEW s \in Sessions, PauseCommit(s) \/ CancelCommit(s)
      PROVE  /\ UNCHANGED <<workerVars, suppressed, grace>>
             /\ status' \in {"paused", "cancelled"}
             /\ leeway' = IF halt = "stands" THEN leeway ELSE Cardinality(InHand)
  BY <1>4 DEF PauseCommit, CancelCommit, Commit, Halt
<1>5. ASSUME NEW s \in Sessions, SendCommit(s) \/ ResumeCommit(s)
      PROVE  UNCHANGED <<workerVars, suppressed, grace, leeway>> /\ halt' = "none"
  BY <1>5 DEF SendCommit, ResumeCommit, Commit, Requeue
<1>6. ASSUME RecipientNext
      PROVE  UNCHANGED <<workerVars, status, halt, leeway>>
  BY <1>6, RecipientPages
<1> QED
  BY <1>2, <1>3, <1>4, <1>5, <1>6 DEF RequestNext, RequestStep

\* Nobody sends in spite of a stop, whatever the next step is.
LEMMA StopStaysSeen ==
  TypeInv /\ StopIsSeen /\ [Next]_vars => (TypeInv /\ StopIsSeen)'
<1> SUFFICES ASSUME TypeInv, StopIsSeen, [Next]_vars PROVE StopIsSeen'
  BY TypeStep
<1>1. ASSUME UNCHANGED <<pc, loaded, leeway>>, KeepsHalt
      PROVE  StopIsSeen'
  BY <1>1 DEF StopIsSeen, InHand, KeepsHalt
<1>2. CASE RequestNext
  <2>1. UNCHANGED <<pc, loaded>>
    BY <1>2, RequestsKeepHistory
  <2>2. InHand' = InHand
    BY <2>1 DEF InHand
  <2>3. CASE /\ status' \in {"paused", "cancelled"}
             /\ leeway' = IF halt = "stands" THEN leeway
                          ELSE Cardinality(InHand)
    <3>1. Cardinality(InHand) \in Nat
      BY WorkersCounted DEF InHand
    <3>2. Cardinality(InHand) <= leeway'
      BY <2>3, <3>1 DEF StopIsSeen
    <3> QED
      BY <2>2, <2>3, <3>2 DEF StopIsSeen
  <2> QED
    BY <1>1, <1>2, <2>1, <2>3, RequestsKeepHistory
<1>3. ASSUME NEW w \in Workers, Start(w) \/ WorkerStep(w) \/ WorkerFault(w)
      PROVE  StopIsSeen'
  BY <1>3, WorkersCarry, CarriedIsSeen, WorkSeesStop DEF Carries
<1>4. CASE Lapse \/ UNCHANGED vars
  BY <1>1, <1>4 DEF Lapse, KeepsHalt
<1> QED
  BY <1>2, <1>3, <1>4 DEF Next, WorkerNext

\* From a pause or a cancel on, until the campaign is put in the queue again,
\* nothing goes out but what the workers had in hand - on either database, unless
\* a claim on SQLite has written over the operator's status.
\* (_renew_lease in the loop of _send_campaign, _claim_campaign, bootstrap)
THEOREM StopsAreSeen == Spec => []StopsBetweenMessages
<1>1. Init => TypeInv /\ StopIsSeen
  BY TypeInit DEF Init, StoreInit, StopIsSeen
<1>2. TypeInv /\ StopIsSeen /\ [Next]_vars => (TypeInv /\ StopIsSeen)'
  BY StopStaysSeen
<1>3. TypeInv /\ StopIsSeen => StopsBetweenMessages
  <2> SUFFICES ASSUME TypeInv, StopIsSeen, halt = "stands" PROVE leeway >= 0
    BY DEF StopsBetweenMessages
  <2>1. Cardinality(InHand) \in Nat /\ leeway \in Int
    BY WorkersCounted DEF InHand, TypeInv, TypeOK, StoreTypeOK
  <2> QED
    BY <2>1 DEF StopIsSeen
<1> QED
  BY <1>1, <1>2, <1>3, PTL DEF Spec

\* A recipient that has unsubscribed gets nothing through a row that names it but
\* what was past the check already, also when the campaign is retried, resumed or
\* taken over later, and whatever becomes of the audience.
\* (_send_campaign, unsubscribe)
THEOREM UnsubscribesAreSeen == Spec => []UnsubscribeHolds
<1>0. Init => StopIsSeen
  BY DEF Init, StoreInit, StopIsSeen
<1>1. Init => TypeInv /\ UnsubscribeIsSeen
  <2> SUFFICES ASSUME Init, NEW r \in suppressed
               PROVE  Cardinality(OnTheWay(r)) <= grace[r]
    BY TypeInit DEF UnsubscribeIsSeen
  <2>1. OnTheWay(r) = {} /\ r \in RecipientIds
    BY DEF Init, StoreInit, WorkerInit, OnTheWay, InHand, Recipients
  <2>2. grace[r] = 0
    BY <2>1 DEF Init, StoreInit
  <2> QED
    BY <2>1, <2>2, FS_EmptySet
<1>2. TypeInv /\ UnsubscribeIsSeen /\ StopIsSeen /\ [Next]_vars =>
        UnsubscribeIsSeen'
  <2> SUFFICES ASSUME TypeInv, UnsubscribeIsSeen, StopIsSeen, [Next]_vars
               PROVE  UnsubscribeIsSeen'
    OBVIOUS
  <2>1. ASSUME UNCHANGED <<pc, batch, loaded>>
        PROVE  /\ \A r : OnTheWay(r)' = OnTheWay(r)
               /\ UNCHANGED <<suppressed, grace>> => UnsubscribeIsSeen'
    BY <2>1 DEF UnsubscribeIsSeen, OnTheWay, InHand, Current
  <2>2. CASE RequestNext
    <3>1. UNCHANGED <<pc, batch, loaded>>
      BY <2>2, RequestsKeepHistory
    <3>2. CASE UNCHANGED <<suppressed, grace>>
      BY <2>1, <3>1, <3>2
    <3>3. ASSUME NEW r \in RecipientIds, Unsubscribe(r)
          PROVE  UnsubscribeIsSeen'
      <4> SUFFICES ASSUME NEW q \in suppressed'
                   PROVE  Cardinality(OnTheWay(q)) <= grace'[q]
        BY <2>1, <3>1 DEF UnsubscribeIsSeen
      <4>1. /\ suppressed' = suppressed \cup {r}
            /\ grace' = [grace EXCEPT ![r] = Cardinality(OnTheWay(r))]
            /\ grace \in [RecipientIds -> Int]
            /\ suppressed \subseteq RecipientIds
        BY <3>3 DEF Unsubscribe, TypeInv, TypeOK, StoreTypeOK, Recipients
      <4>2. CASE q = r
        <5>1. Cardinality(OnTheWay(r)) \in Nat
          BY WorkersCounted DEF OnTheWay, InHand
        <5> QED
          BY <4>1, <4>2, <5>1
      <4>3. CASE q # r
        <5>1. q \in suppressed /\ grace'[q] = grace[q]
          BY <4>1, <4>3
        <5> QED
          BY <5>1 DEF UnsubscribeIsSeen
      <4> QED
        BY <4>2, <4>3
    <3>4. ASSUME grace' = grace, suppressed' \subseteq suppressed
          PROVE  UnsubscribeIsSeen'
      BY <2>1, <3>1, <3>4 DEF UnsubscribeIsSeen
    <3>5. CASE RecipientNext
      BY <3>3, <3>4, <3>5
      DEF RecipientNext, ImportRecipient, DeleteRecipient
    <3> QED
      BY <2>2, <3>2, <3>5, RequestsKeepHistory
  <2>3. ASSUME NEW w \in Workers, Start(w) \/ WorkerStep(w) \/ WorkerFault(w)
        PROVE  UnsubscribeIsSeen'
    BY <2>3, WorkersCarry, CarriedIsSeen, WorkSeesUnsubscribe
  <2>4. CASE Lapse \/ UNCHANGED vars
    BY <2>1, <2>4 DEF Lapse
  <2> QED
    BY <2>2, <2>3, <2>4 DEF Next, WorkerNext
<1>3. TypeInv /\ UnsubscribeIsSeen => UnsubscribeHolds
  <2> SUFFICES ASSUME TypeInv, UnsubscribeIsSeen, NEW r \in suppressed
               PROVE  grace[r] >= 0
    BY DEF UnsubscribeHolds
  <2>1. Cardinality(OnTheWay(r)) \in Nat
    BY WorkersCounted DEF OnTheWay, InHand
  <2>2. grace[r] \in Int /\ Cardinality(OnTheWay(r)) <= grace[r]
    BY DEF TypeInv, TypeOK, StoreTypeOK, Recipients, UnsubscribeIsSeen
  <2> QED
    BY <2>1, <2>2
<1> QED
  BY <1>0, <1>1, <1>2, <1>3, StopStaysSeen, PTL DEF Spec

-----------------------------------------------------------------------------
(* Edits that reach the sender, claims that are served, and the last row *)

\* Past the read of the campaign, and not on the way out.
Informed == Sending \ {"load", "failing", "leaving"}

\* How a step of a worker moves on, and on what it goes by.
MovesOn(w) ==
  /\ \A v \in Workers : v # w =>
       /\ pc'[v] = pc[v] /\ batch'[v] = batch[v]
       /\ skips'[v] = skips[v] /\ loaded'[v] = loaded[v]
  /\ UNCHANGED <<request, content, dryRun, overruns>>
  /\ stopping \subseteq stopping' /\ pc[w] # "crashed"
  /\ dbErrors' = dbErrors \/ dbErrors' = dbErrors + 1
  /\ pc'[w] \in Informed =>
       \/ pc[w] \in Informed /\ loaded'[w] = loaded[w]
       \/ loaded'[w] = [content |-> content, dryRun |-> dryRun]
  /\ pc[w] = "entry" /\ pc'[w] = "check" => Mine(w) /\ loaded'[w] = loaded[w]
  /\ pc'[w] = "finish" => pc[w] = "finish" \/ FirstPending = {}
  /\ \/ status' = status
     \/ status' = "completed" /\ pc[w] = "finish"
     \/ status' = "failed"
     \/ status' = "sending" /\ claimedBy' = w /\ pc'[w] = "load"
  /\ status = "deleted" => status' = "deleted"
  /\ claimedBy' = claimedBy \/ (claimedBy' = w /\ pc'[w] = "load")
  /\ lease' = "live" => lease = "live" \/ (claimedBy' = w /\ Serves(w)')
  /\ \A r \in batch'[w] : r \in batch[w] \/ r.id \in Rows
  /\ skips'[w] \subseteq skips[w] \cup Ids(w)
  /\ \A e \in RowIds : entry'[e] = entry[e] \/
       (e \in Rows /\ entry'[e] \in EntryStatuses \ {"pending"})
  /\ pc'[w] = "leaving" /\ pc[w] # "leaving" =>
       \/ dbErrors' = dbErrors + 1 \/ w \in stopping
       \/ status' # "sending" \/ claimedBy # w
       \/ ~ (skips[w] \subseteq Rows) \/ ~ (Ids(w) \subseteq Rows)
  /\ Serves(w) /\ ~Serves(w)' =>
       \/ dbErrors' = dbErrors + 1 \/ pc'[w] = "crashed" \/ status' = "deleted"
       \/ pc[w] = "leaving" /\ (w \in stopping /\ claimedBy = w => lease' = "none")

\* Every step of a worker moves on like this.
LEMMA WorkersMoveOn ==
  ASSUME TypeInv, NEW w \in Workers, WorkerStep(w) \/ WorkerFault(w)
  PROVE  MovesOn(w)
<1> USE WorkerTyped DEF MovesOn, Informed, Serves
<1>0. loaded \in [Workers -> [content : Nat, dryRun : BOOLEAN]]
  BY DEF TypeInv, TypeOK, WorkerTypeOK
<1>1. Stop(w) \/ Exit(w) \/ Poll(w) \/ ClaimNothing(w) => MovesOn(w)
  BY DEF Stop, Exit, Poll, ClaimNothing, Goto, Alive
<1>2. ClaimRead(w) \/ Claim(w) => MovesOn(w)
  BY DEF ClaimRead, Claim, Goto, TakeOver, Claimable
<1>3. ClaimWrite(w) => MovesOn(w)
  BY DEF ClaimWrite, Goto, TakeOver, Exists
<1>4. ClaimStale(w) \/ LoadNothing(w) => MovesOn(w)
  BY <1>0 DEF ClaimStale, LoadNothing, Goto, Forget, Exists
<1>5. StaleFlush(w) \/ Crash(w) => MovesOn(w)
  BY <1>0 DEF StaleFlush, Flushable, Crash, Goto, Forget, Alive
<1>6. Leave(w) => MovesOn(w)
  BY <1>0 DEF Leave, HandsBack, Goto, Forget
<1>7. Load(w) \/ Connect(w) => MovesOn(w)
  BY <1>0 DEF Load, Connect, Goto
<1>8. CheckStatus(w) => MovesOn(w)
  BY DEF CheckStatus, Goto
<1>9. Fail(w) \/ Finish(w) => MovesOn(w)
  BY DEF Fail, Finish, Goto, Exists
<1>10. Fetch(w) => MovesOn(w)
  <2> SUFFICES ASSUME Fetch(w) PROVE MovesOn(w)
    OBVIOUS
  <2>1. \A r \in batch'[w] : r.id \in Rows
    <3>1. batch'[w] = {ItemOf(e) : e \in FirstPending}
      BY DEF Fetch, ItemOf
    <3>2. FirstPending \subseteq Rows
      BY DEF FirstPending, Pending, Rows
    <3> HIDE DEF FirstPending
    <3>3. ASSUME NEW r \in batch'[w]
          PROVE  r.id \in Rows
      <4>1. PICK e \in FirstPending : r = ItemOf(e)
        BY <3>1, <3>3
      <4>2. r.id = e
        BY <4>1 DEF ItemOf
      <4> QED
        BY <3>2, <4>1, <4>2
    <3> QED
      BY <3>3
  <2>2. \A v \in Workers : v # w => batch'[v] = batch[v]
    BY DEF Fetch
  <2>3. pc'[w] = "finish" => FirstPending = {}
    BY DEF Fetch, Goto
  <2>4. /\ UNCHANGED <<requestVars, stopping, seen, serving, loaded, skips,
                       outcome, faultVars, storeVars>>
        /\ \E to \in {"finish", "entry"} : pc' = [pc EXCEPT ![w] = to]
        /\ pc[w] = "fetch"
    BY DEF Fetch, Goto
  <2> HIDE DEF FirstPending
  <2> QED
    BY <2>1, <2>2, <2>3, <2>4
<1>11. EndBatch(w) => MovesOn(w)
  BY DEF EndBatch, Goto, Flush, Flushable
<1>12. Renew(w) => MovesOn(w)
  BY DEF Renew, Goto, Flush, Flushable, Mine
<1>13. CheckRecipient(w) => MovesOn(w)
  BY DEF CheckRecipient, Goto
<1>14. Skip(w) => MovesOn(w)
  <2> SUFFICES ASSUME Skip(w) PROVE MovesOn(w)
    OBVIOUS
  <2>1. Current(w).id \in Ids(w)
    BY CurrentTyped DEF Skip, Ids
  <2> QED
    BY <2>1 DEF Skip, Goto
<1>15. DryRun(w) \/ Refused(w) => MovesOn(w)
  BY DEF DryRun, Refused, Conclude
<1>16. Accepted(w) => MovesOn(w)
  BY DEF Accepted, Conclude
<1>17. ReplyLost(w) => MovesOn(w)
  BY DEF ReplyLost, Conclude, Goto
<1>18. Record(w) => MovesOn(w)
  <2> SUFFICES ASSUME Record(w) PROVE MovesOn(w)
    OBVIOUS
  <2>1. outcome[w] \in EntryStatuses \ {"pending"}
    BY DEF Record, Goto, TypeInv, AtWork
  <2> QED
    BY <2>1 DEF Record, Goto
<1>19. RecordStale(w) => MovesOn(w)
  <2> SUFFICES ASSUME RecordStale(w) PROVE MovesOn(w)
    OBVIOUS
  <2>1. Current(w).id \in Ids(w)
    BY CurrentTyped DEF RecordStale, Goto, Ids
  <2> QED
    BY <1>0, <2>1 DEF RecordStale, Goto, Forget
<1>20. DbError(w) => MovesOn(w)
  <2> SUFFICES ASSUME DbError(w) PROVE MovesOn(w)
    OBVIOUS
  <2>1. /\ \E to \in {"idle", "leaving"} : pc' = [pc EXCEPT ![w] = to]
        /\ pc[w] # "crashed"
    BY DEF DbError, Goto
  <2> QED
    BY <1>0, <2>1 DEF DbError, Forget
<1> HIDE DEF MovesOn
<1> QED
  BY <1>1, <1>2, <1>3, <1>4, <1>5, <1>6, <1>7, <1>8, <1>9, <1>10, <1>11,
     <1>12, <1>13, <1>14, <1>15, <1>16, <1>17, <1>18, <1>19, <1>20
  DEF WorkerStep, WorkerFault

\* Operators do no more than what is in Ops.
LEMMA OnlyOpsKept ==
  ASSUME TypeInv, OnlyOps, [Next]_vars
  PROVE  OnlyOps'
<1>1. CASE RequestNext
  BY <1>1, RequestsAsk DEF OnlyOps, Steers
<1>2. ASSUME NEW w \in Workers, WorkerStep(w) \/ WorkerFault(w)
      PROVE  OnlyOps'
  BY <1>2, WorkersMoveOn DEF OnlyOps, MovesOn
<1>3. CASE Lapse \/ (\E w \in Workers : Start(w)) \/ UNCHANGED vars
  BY <1>3 DEF Lapse, Start, OnlyOps
<1> QED
  BY <1>1, <1>2, <1>3 DEF Next, WorkerNext

\* When the query for the next batch finds nobody, nobody is left.
LEMMA LastBatch ==
  ASSUME FirstPending = {}
  PROVE  Pending = {}
<1> SUFFICES ASSUME Pending # {} PROVE FALSE
  OBVIOUS
<1>1. Pending \in SUBSET Nat
  BY StateAssumption DEF StateAssumption, Pending
<1>2. PICK m \in Pending : \A n \in Pending : m <= n
  BY <1>1, SmallestKey
<1>3. {f \in Pending : f < m} = {}
  <2>1. ASSUME NEW f \in Pending, f < m
        PROVE  FALSE
    <3>1. f \in Nat /\ m \in Nat /\ m <= f
      BY <1>1, <1>2
    <3> QED
      BY ONLY <2>1, <3>1
  <2> QED
    BY <2>1
<1>4. Cardinality({f \in Pending : f < m}) = 0
  BY <1>3, FS_EmptySet
<1>5. m \in FirstPending
  BY <1>4, WorkerAssumption DEF FirstPending, WorkerAssumption
<1> QED
  BY <1>5

\* A worker that is about to finish the campaign has seen everybody in it.
FinishIsLast == \A w \in Workers : pc[w] = "finish" => Pending = {}

\* A campaign is completed when everybody in it has been handled, if nobody
\* retries it or adds to its audience: nothing keeps a request for that, begun
\* while the campaign was paused, from its commit between a worker's last query
\* and its _finish_campaign.  (_send_campaign)
THEOREM CompletedIsHandled ==
  ASSUME "retry" \notin Ops, "audience" \notin Ops
  PROVE  Spec => CompletedLeavesNobody
<1>1. Init => TypeInv /\ OnlyOps /\ FinishIsLast
  BY TypeInit, FramedInit DEF Framed, FinishIsLast, Init, WorkerInit
<1>2. TypeInv /\ OnlyOps /\ FinishIsLast /\ [Next]_vars =>
        /\ (TypeInv /\ OnlyOps /\ FinishIsLast)'
        /\ [status' = "completed" /\ status # "completed" =>
              Pending = {}]_status
  <2> SUFFICES ASSUME TypeInv, OnlyOps, FinishIsLast, [Next]_vars
               PROVE  /\ FinishIsLast'
                      /\ status' = "completed" /\ status # "completed" =>
                           Pending = {}
    BY TypeStep, OnlyOpsKept
  <2> USE DEF FinishIsLast
  <2>1. CASE RequestNext
    <3>1. Asks
      BY <2>1, RequestsAsk
    <3>2. Pending' \subseteq Pending /\ pc' = pc
      BY <3>1 DEF Asks, Steers, Pending, DeletedRow
    <3>3. status' = "completed" => status = "completed"
      BY <3>1 DEF Asks, Steers
    <3> QED
      BY <3>2, <3>3
  <2>2. ASSUME NEW w \in Workers, WorkerStep(w) \/ WorkerFault(w)
        PROVE  /\ FinishIsLast'
               /\ status' = "completed" /\ status # "completed" =>
                    Pending = {}
    <3>1. MovesOn(w)
      BY <2>2, WorkersMoveOn
    <3>2. Pending' \subseteq Pending
      BY <3>1 DEF MovesOn, Pending
    <3>3. \A v \in Workers : pc'[v] = "finish" => Pending = {}
      BY <3>1, LastBatch DEF MovesOn
    <3>4. status' = "completed" /\ status # "completed" => pc[w] = "finish"
      BY <3>1 DEF MovesOn
    <3> QED
      BY <3>2, <3>3, <3>4
  <2>3. ASSUME NEW w \in Workers, Start(w)
        PROVE  FinishIsLast' /\ (status' = "completed" => status = "completed")
    <3>1. \A v \in Workers : pc'[v] = pc[v] \/ pc'[v] = "idle"
      BY <2>3, WorkerTyped DEF Start, Goto
    <3>2. Pending' = Pending
      BY <2>3 DEF Start, Pending
    <3> QED
      BY <2>3, <3>1, <3>2 DEF Start
  <2>4. CASE Lapse \/ UNCHANGED vars
    BY <2>4 DEF Lapse, Pending
  <2> QED
    BY <2>1, <2>2, <2>3, <2>4 DEF Next, WorkerNext
<1> QED
  BY <1>1, <1>2, PTL DEF Spec, CompletedLeavesNobody

\* The rows of a batch are there as long as the campaign is.
RowsStay ==
  status # "deleted" =>
    \A w \in Workers : skips[w] \subseteq Rows /\ Ids(w) \subseteq Rows

\* A worker that is on its way out with the claim of a campaign being sent was
\* asked to stop, and hands the claim back.
ClaimIsKept ==
  /\ status = "sending" => claimedBy \in Workers
  /\ dbErrors = 0 =>
       /\ status = "sending" /\ lease = "live" =>
            pc[claimedBy] \in Sending \cup {"crashed"}
       /\ \A w \in Workers :
            claimedBy = w /\ pc[w] = "leaving" /\ w \notin stopping =>
              status # "sending"

\* The claim of a worker that is neither stopped nor dead is being worked on.
\* That takes an audience nobody removes rows from: a row that is deleted while
\* it is in a batch ends the call with the claim still held.
\* (run, the finally block of _send_campaign)
THEOREM ClaimsAreServed ==
  ASSUME "audience" \notin Ops, "remove" \notin Ops
  PROVE  Spec => []ClaimIsServed
<1>1. Init => TypeInv /\ OnlyOps /\ RowsStay /\ ClaimIsKept
  <2> SUFFICES ASSUME Init PROVE RowsStay /\ ClaimIsKept
    BY TypeInit, FramedInit DEF Framed
  <2>1. /\ status = "draft" /\ \A w \in Workers : pc[w] = "off"
        /\ \A w \in Workers : skips[w] = {} /\ batch[w] = {}
    BY DEF Init, StoreInit, WorkerInit
  <2> QED
    BY <2>1 DEF RowsStay, ClaimIsKept, Ids
<1>2. TypeInv /\ OnlyOps /\ RowsStay /\ ClaimIsKept /\ [Next]_vars =>
        (TypeInv /\ OnlyOps /\ RowsStay /\ ClaimIsKept)'
  <2> SUFFICES ASSUME TypeInv, OnlyOps, RowsStay, ClaimIsKept, [Next]_vars
               PROVE  RowsStay' /\ ClaimIsKept'
    BY TypeStep, OnlyOpsKept
  <2>1. ASSUME Asks
        PROVE  RowsStay' /\ ClaimIsKept'
    <3>1. UNCHANGED <<workerVars, claimedBy, lease>>
          /\ (status' = status \/ status' # "sending")
          /\ (status = "deleted" => status' = "deleted")
      BY <2>1 DEF Asks, Steers
    <3>2. status' # "deleted" => Rows \subseteq Rows'
      BY <2>1 DEF Asks, Rows
    <3>3. \A w \in Workers : Ids(w)' = Ids(w)
      BY <3>1 DEF Ids
    <3>4. RowsStay'
      BY <3>1, <3>2, <3>3 DEF RowsStay
    <3>5. ClaimIsKept'
      BY <3>1 DEF ClaimIsKept
    <3> QED
      BY <3>4, <3>5
  <2>2. CASE RequestNext
    BY <2>1, <2>2, RequestsAsk
  <2>3. CASE UNCHANGED vars
    BY <2>1, <2>3 DEF Asks, Steers
  <2>4. ASSUME NEW w \in Workers, WorkerStep(w) \/ WorkerFault(w)
        PROVE  RowsStay' /\ ClaimIsKept'
    <3>1. MovesOn(w)
      BY <2>4, WorkersMoveOn
    <3>2. Rows \subseteq Rows'
      BY <3>1 DEF MovesOn, Rows
    <3>3. ASSUME NEW v \in Workers, status' # "deleted"
          PROVE  skips'[v] \subseteq Rows' /\ Ids(v)' \subseteq Rows'
      <4>1. /\ status # "deleted"
            /\ skips[v] \subseteq Rows /\ Ids(v) \subseteq Rows
        BY <3>1, <3>3 DEF MovesOn, RowsStay
      <4>2. \A r \in batch'[v] : r.id \in Rows
        BY <3>1, <4>1 DEF MovesOn, Ids
      <4>3. skips'[v] \subseteq Rows
        BY <3>1, <4>1 DEF MovesOn
      <4> QED
        BY <3>2, <4>2, <4>3 DEF Ids
    <3>4. RowsStay'
      BY <3>3 DEF RowsStay
    <3>5. status' = "sending" => claimedBy' \in Workers
      BY <3>1 DEF MovesOn, ClaimIsKept
    <3>6. dbErrors' = 0 => dbErrors = 0 /\ dbErrors' # dbErrors + 1
      <4>1. dbErrors' = dbErrors \/ dbErrors' = dbErrors + 1
        BY <3>1 DEF MovesOn
      <4>2. dbErrors \in Nat
        BY DEF TypeInv, TypeOK, WorkerTypeOK
      <4> QED
        BY ONLY <4>1, <4>2
    <3>7. ASSUME dbErrors' = 0, status' = "sending", NEW v \in Workers,
                 claimedBy' = v, pc'[v] = "leaving", v \notin stopping'
          PROVE  FALSE
      <4>1. status = "sending" /\ claimedBy = v /\ v \notin stopping
        BY <3>1, <3>7 DEF MovesOn
      <4>2. pc[v] # "leaving" /\ v = w
        BY <3>1, <3>6, <3>7, <4>1 DEF MovesOn, ClaimIsKept
      <4>3. skips[w] \subseteq Rows /\ Ids(w) \subseteq Rows
        BY <4>1 DEF RowsStay
      <4> QED
        BY <3>1, <3>6, <3>7, <4>1, <4>2, <4>3 DEF MovesOn
    <3>8. ASSUME dbErrors' = 0, status' = "sending", lease' = "live"
          PROVE  pc'[claimedBy'] \in Sending \cup {"crashed"}
      <4>1. CASE claimedBy' = w /\ Serves(w)'
        BY <4>1 DEF Serves
      <4>2. CASE ~(claimedBy' = w /\ Serves(w)')
        <5>1. status = "sending" /\ lease = "live" /\ claimedBy' = claimedBy
          BY <3>1, <3>8, <4>2 DEF MovesOn, Serves
        <5>2. pc[claimedBy] \in Sending \cup {"crashed"}
              /\ claimedBy \in Workers
          BY <3>6, <3>8, <5>1 DEF ClaimIsKept
        <5>3. CASE claimedBy # w
          BY <3>1, <5>1, <5>2, <5>3 DEF MovesOn
        <5>4. CASE claimedBy = w
          <6>1. Serves(w) /\ ~Serves(w)'
            BY <3>1, <4>2, <5>1, <5>2, <5>4 DEF MovesOn, Serves
          <6>2. pc[w] = "leaving" => w \in stopping
            BY <3>6, <3>8, <5>1, <5>4 DEF ClaimIsKept
          <6> QED
            BY <3>1, <3>6, <3>8, <5>1, <5>4, <6>1, <6>2 DEF MovesOn
        <5> QED
          BY <5>3, <5>4
      <4> QED
        BY <4>1, <4>2
    <3> QED
      BY <3>4, <3>5, <3>6, <3>7, <3>8 DEF ClaimIsKept
  <2>5. ASSUME NEW w \in Workers, Start(w)
        PROVE  RowsStay' /\ ClaimIsKept'
    <3>1. /\ UNCHANGED <<claimedBy, lease, stopping, batch, skips, entry,
                         dbErrors>>
          /\ status' = status \/ (status' = "queued" /\ status = "sending")
      BY <2>5 DEF Start
    <3>2. /\ pc[w] = "off" /\ pc'[w] = "idle"
          /\ \A v \in Workers : v # w => pc'[v] = pc[v]
      BY <2>5, WorkerTyped DEF Start, Goto
    <3>3. RowsStay'
      BY <3>1 DEF RowsStay, Rows, Ids
    <3>4. ClaimIsKept'
      BY <3>1, <3>2 DEF ClaimIsKept
    <3> QED
      BY <3>3, <3>4
  <2>6. CASE Lapse
    BY <2>6 DEF Lapse, RowsStay, Rows, Ids, ClaimIsKept
  <2> QED
    BY <2>2, <2>3, <2>4, <2>5, <2>6 DEF Next, WorkerNext
<1>3. ClaimIsKept => ClaimIsServed
  BY DEF ClaimIsKept, ClaimIsServed
<1> QED
  BY <1>1, <1>2, <1>3, PTL DEF Spec

\* One operator edits only a campaign that nobody is sending, and what the owner
\* goes by is what the campaign has.
EditsAreApart ==
  /\ \A s \in Sessions :
       request[s].op \in {"update", "send"} => status \notin ACTIVE_STATUSES
  /\ \A w \in Workers :
       Mine(w) /\ pc[w] \in Informed =>
         loaded[w] = [content |-> content, dryRun |-> dryRun]

\* An operator's edits during a pause reach the sender before its next message,
\* on PostgreSQL, where a claim reads what a commit wrote.  With two sessions an
\* edit whose check came before a resume is committed after it.
\* (_send_campaign, is_editable)
THEOREM EditsReachTheSender ==
  ASSUME ~Sqlite, \A s, t \in Sessions : s = t
  PROVE  Spec => SendsCurrentContent
<1>1. Init => TypeInv /\ OneServer /\ OnlyOps /\ EditsAreApart
  <2> SUFFICES ASSUME Init PROVE EditsAreApart
    BY TypeInit, OneServerInit, FramedInit DEF Framed
  <2>1. /\ status = "draft" /\ \A s \in Sessions : request[s].op = "none"
    BY DEF Init, StoreInit, RequestInit
  <2> QED
    BY <2>1 DEF EditsAreApart, Mine
<1>2. TypeInv /\ OneServer /\ OnlyOps /\ EditsAreApart /\ [Next]_vars =>
        /\ (TypeInv /\ OneServer /\ OnlyOps /\ EditsAreApart)'
        /\ [\A w \in Workers : pc[w] = "entry" /\ pc'[w] = "check" =>
              loaded[w] = [content |-> content, dryRun |-> dryRun]]_vars
  <2> DEFINE Reads(w) ==
        pc[w] = "entry" /\ pc'[w] = "check" =>
          loaded[w] = [content |-> content, dryRun |-> dryRun]
  <2> SUFFICES ASSUME TypeInv, OneServer, OnlyOps, EditsAreApart, [Next]_vars
               PROVE  EditsAreApart' /\ \A w \in Workers : Reads(w)
    BY TypeStep, OneServerStep, OnlyOpsKept
  <2>1. CASE RequestNext
    <3>1. Steers
      BY <2>1, RequestsAsk
    <3>2. \A w \in Workers : Reads(w)
      BY <3>1 DEF Steers
    <3>3. ASSUME NEW s \in Sessions, request'[s].op \in {"update", "send"}
          PROVE  status' \notin ACTIVE_STATUSES
      <4>1. CASE request'[s] = request[s]
        <5>1. status \notin ACTIVE_STATUSES
          BY <3>3, <4>1 DEF EditsAreApart
        <5>2. ~ \E t \in Sessions :
                   /\ request[t].op \in {"send", "resume"}
                   /\ request'[t].op = "none"
          BY <3>3
        <5> QED
          BY <3>1, <5>1, <5>2 DEF Steers
      <4>2. CASE request'[s] # request[s]
        BY <3>1, <3>3, <4>2 DEF Steers, is_editable
      <4> QED
        BY <4>1, <4>2
    <3>4. ASSUME NEW w \in Workers, Mine(w)', pc'[w] \in Informed
          PROVE  loaded'[w] = [content |-> content', dryRun |-> dryRun']
      <4>1. Mine(w) /\ pc[w] \in Informed /\ loaded'[w] = loaded[w]
        BY <3>1, <3>4 DEF Steers, Mine
      <4>2. UNCHANGED <<content, dryRun>>
        BY <3>1, <4>1 DEF Steers, EditsAreApart, Mine
      <4> QED
        BY <4>1, <4>2 DEF EditsAreApart
    <3> QED
      BY <3>2, <3>3, <3>4 DEF EditsAreApart
  <2>2. ASSUME NEW w \in Workers, WorkerStep(w) \/ WorkerFault(w)
        PROVE  EditsAreApart' /\ \A v \in Workers : Reads(v)
    <3>1. MovesOn(w)
      BY <2>2, WorkersMoveOn
    <3>2. status' \in ACTIVE_STATUSES => status \in ACTIVE_STATUSES
      <4>1. CASE Claim(w)
        BY <4>1 DEF Claim, Claimable
      <4>2. CASE ~Claim(w)
        <5>1. ~ClaimWrite(w)
          BY DEF ClaimWrite, Goto, OneServer, ClaimsAreLocked
        <5>2. Quiet \/ Leave(w)
          BY <2>2, <4>2, <5>1, WorkersAreQuiet
        <5> QED
          BY <5>2 DEF Quiet, Leave
      <4> QED
        BY <4>1, <4>2
    <3>3. \A v \in Workers : Reads(v)
      BY <3>1 DEF MovesOn, EditsAreApart, Informed
    <3>4. ASSUME NEW v \in Workers, Mine(v)', pc'[v] \in Informed
          PROVE  loaded'[v] = [content |-> content', dryRun |-> dryRun']
      <4>1. UNCHANGED <<content, dryRun>>
        BY <3>1 DEF MovesOn
      <4>2. Mine(v)
        BY <3>1, <3>4 DEF MovesOn, Mine, Informed
      <4>3. CASE v = w
        BY <3>1, <3>4, <4>1, <4>2, <4>3 DEF MovesOn, EditsAreApart
      <4>4. CASE v # w
        BY <3>1, <3>4, <4>1, <4>2, <4>4 DEF MovesOn, EditsAreApart
      <4> QED
        BY <4>3, <4>4
    <3>5. request' = request
      BY <3>1 DEF MovesOn
    <3> QED
      BY <3>2, <3>3, <3>4, <3>5 DEF EditsAreApart
  <2>3. ASSUME NEW w \in Workers, Start(w)
        PROVE  EditsAreApart' /\ \A v \in Workers : Reads(v)
    <3>1. /\ UNCHANGED <<request, status, claimedBy, content, dryRun, loaded>>
          /\ \A v \in Workers : pc'[v] = pc[v] \/ pc'[v] = "idle"
      BY <2>3, WorkerTyped DEF Start, Goto, RequeuesAtStart
    <3> QED
      BY <3>1 DEF EditsAreApart, Mine, Informed
  <2>4. CASE Lapse \/ UNCHANGED vars
    BY <2>4 DEF Lapse, EditsAreApart, Mine
  <2> QED
    BY <2>1, <2>2, <2>3, <2>4 DEF Next, WorkerNext
<1> QED
  BY <1>1, <1>2, PTL DEF Spec, SendsCurrentContent

=============================================================================
