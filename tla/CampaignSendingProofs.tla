------------------------ MODULE CampaignSendingProofs ------------------------
(***************************************************************************)
(* What is proved of CampaignSending for any number of workers, sessions,  *)
(* rows and addresses, and for any bounds.                                 *)
(***************************************************************************)
EXTENDS CampaignSending, FiniteSetTheorems, WellFoundedInduction, TLAPS

USE DEF RowIds, Locations, Sending, AllOps, NoRequest, NotLoaded,
        Statuses, ACTIVE_STATUSES, EntryStatuses,
        campaignVars, entryVars, recipientVars, historyVars, storeVars,
        requestVars, localVars, faultVars, workerVars, vars

-----------------------------------------------------------------------------
(* Type correctness *)

\* A worker that handles a message has one, and one that is about to write an
\* outcome knows it.
AtWork ==
  \A w \in Workers :
    /\ pc[w] \in {"check", "send", "resend", "record"} => batch[w] # {}
    /\ pc[w] = "record" => outcome[w] # ""

TypeInv == TypeOK /\ AtWork

\* Every non-empty set of keys has a smallest one.
LEMMA SmallestKey ==
  ASSUME NEW S \in SUBSET Nat, S # {}
  PROVE  \E m \in S : \A n \in S : m <= n
<1>1. PICK m \in S : \A n \in S : ~ (<<n, m>> \in OpToRel(<, Nat))
  BY NatLessThanWellFounded, WFMin, Zenon
<1>2. ASSUME NEW n \in S, n < m
      PROVE  FALSE
  <2>1. n \in Nat /\ m \in Nat
    OBVIOUS
  <2>2. <<n, m>> \in OpToRel(<, Nat)
    BY <1>2, <2>1, Zenon DEF OpToRel
  <2> QED
    BY <1>1, <2>2
<1>3. \A n \in S : m <= n
  BY <1>2
<1> QED
  BY <1>3

\* The first row of a batch is one of its rows.  (the for loop over the batch)
LEMMA FirstInBatch ==
  ASSUME NEW S \in SUBSET Items, S # {}
  PROVE  (CHOOSE r \in S : \A q \in S : r.id <= q.id) \in S
<1>1. {r.id : r \in S} \in SUBSET Nat /\ {r.id : r \in S} # {}
  BY StateAssumption DEF StateAssumption, Items
<1>2. PICK m \in {r.id : r \in S} : \A n \in {r.id : r \in S} : m <= n
  BY <1>1, SmallestKey
<1>3. PICK r \in S : r.id = m
  OBVIOUS
<1>4. \A q \in S : r.id <= q.id
  BY <1>2, <1>3
<1> QED
  BY <1>4

\* An email has a recipient with a key, or none.
LEMMA RecipientOfTyped ==
  ASSUME NEW a, NEW emails
  PROVE  RecipientOf(a, emails) \in RecipientIds \cup {NoRecipient}
  BY DEF RecipientOf

\* The initial state is well typed.
LEMMA TypeInit == Init => TypeInv
<1> SUFFICES ASSUME Init PROVE TypeInv
  OBVIOUS
<1> USE StateAssumption DEF StateAssumption
<1>1. StoreTypeOK
  <2>1. \A e \in RowIds : e <= Len(Audience) => Audience[e] \in Addresses
    OBVIOUS
  <2>2. (CHOOSE a \in Addresses : TRUE) \in Addresses
    OBVIOUS
  <2>3. address \in [RowIds -> Addresses]
    BY <2>1, <2>2 DEF Init, StoreInit
  <2>4. entry \in [RowIds -> EntryStatuses \cup {"absent", "gone"}]
    BY DEF Init, StoreInit
  <2>5. recipient_id \in [RowIds -> RecipientIds \cup {NoRecipient}]
    <3>1. recipient_id = [e \in RowIds |->
             IF e <= Len(Audience) THEN RecipientOf(Audience[e], mailbox)
             ELSE NoRecipient]
      BY DEF Init, StoreInit
    <3> QED
      BY <3>1, RecipientOfTyped
  <2>6. mailbox \in [RecipientIds -> Addresses \cup {NoAddress}]
    <3>1. \A r \in RecipientIds : r <= Len(Known) => Known[r] \in Addresses
      BY DEF RecipientIds
    <3> QED
      BY <3>1 DEF Init, StoreInit
  <2>7. grace \in [RecipientIds -> Int] /\ leeway \in Int
    BY DEF Init, StoreInit
  <2> QED
    BY <2>3, <2>4, <2>5, <2>6, <2>7 DEF Init, StoreInit, StoreTypeOK
<1>2. RequestTypeOK
  BY DEF Init, RequestInit, RequestTypeOK
<1>3. WorkerTypeOK /\ AtWork
  BY DEF Init, WorkerInit, WorkerTypeOK, AtWork
<1> QED
  BY <1>1, <1>2, <1>3 DEF TypeInv, TypeOK

\* A step that leaves the workers alone keeps them well typed.
LEMMA TypeWorkersKept ==
  ASSUME WorkerTypeOK, AtWork, UNCHANGED workerVars
  PROVE  WorkerTypeOK' /\ AtWork'
  BY DEF WorkerTypeOK, AtWork

\* So does one that leaves the database alone.
LEMMA TypeStoreKept ==
  ASSUME StoreTypeOK, UNCHANGED storeVars
  PROVE  StoreTypeOK'
  BY DEF StoreTypeOK, Recipients

\* A count of workers is a number.
LEMMA WorkersCounted ==
  ASSUME NEW S \in SUBSET Workers
  PROVE  IsFiniteSet(S) /\ Cardinality(S) \in Nat
  BY WorkersAssumption, FS_Subset, FS_CardinalityType

\* The pages about recipients touch nothing else.
LEMMA RecipientPages ==
  ASSUME RecipientNext
  PROVE  UNCHANGED <<request, campaignVars, entry, address, round, delivered,
                     halt, leeway, workerVars>>
  BY DEF RecipientNext, ImportRecipient, DeleteRecipient, Unsubscribe,
         RecipientPage

\* A handler that has read an allowed state keeps the state well typed.
LEMMA TypeBegin ==
  ASSUME TypeInv, NEW s \in Sessions, NEW op \in AllOps,
         NEW dry \in BOOLEAN, Begin(s, op, dry)
  PROVE  TypeInv'
<1>1. StoreTypeOK'
  BY TypeStoreKept DEF TypeInv, TypeOK, Begin
<1>2. WorkerTypeOK' /\ AtWork'
  BY TypeWorkersKept DEF TypeInv, TypeOK, Begin
<1>3. RequestTypeOK'
  BY DEF TypeInv, TypeOK, Begin, RequestTypeOK
<1> QED
  BY <1>1, <1>2, <1>3 DEF TypeInv, TypeOK

\* A handler that commits a well-typed store does.
LEMMA TypeCommit ==
  ASSUME TypeInv, NEW s \in Sessions, NEW op, Commit(s, op), StoreTypeOK'
  PROVE  TypeInv'
<1>1. WorkerTypeOK' /\ AtWork'
  BY TypeWorkersKept DEF TypeInv, TypeOK, Commit
<1>2. RequestTypeOK'
  BY DEF TypeInv, TypeOK, Commit, RequestTypeOK
<1> QED
  BY <1>1, <1>2 DEF TypeInv, TypeOK

\* The handlers keep the state well typed.
LEMMA TypeRequests == TypeInv /\ RequestNext => TypeInv'
<1> SUFFICES ASSUME TypeInv, RequestNext
             PROVE  TypeInv'
  OBVIOUS
<1>0. Cardinality(InHand) \in Int
  BY WorkersCounted DEF InHand
<1>1. dryRun \in BOOLEAN
  BY DEF TypeInv, TypeOK, StoreTypeOK
<1>2. ASSUME NEW s \in Sessions,
             SendRead(s) \/ PauseRead(s) \/ ResumeRead(s) \/ CancelRead(s)
               \/ RetryRead(s) \/ UpdateRead(s) \/ AudienceRead(s)
               \/ RemoveRead(s) \/ DeleteRead(s)
      PROVE  TypeInv'
  <2>1. \E op \in AllOps, dry \in BOOLEAN : Begin(s, op, dry)
    BY <1>1, <1>2
    DEF SendRead, PauseRead, ResumeRead, CancelRead, RetryRead, UpdateRead,
        AudienceRead, RemoveRead, DeleteRead
  <2> QED
    BY <2>1, TypeBegin
<1>3. ASSUME NEW s \in Sessions, SendCommit(s)
      PROVE  TypeInv'
  <2>1. StoreTypeOK'
    BY <1>3 DEF TypeInv, TypeOK, StoreTypeOK, SendCommit, Requeue,
        Recipients
  <2> QED
    BY <1>3, <2>1, TypeCommit DEF SendCommit
<1>4. ASSUME NEW s \in Sessions, PauseCommit(s)
      PROVE  TypeInv'
  <2>1. StoreTypeOK'
    BY <1>4, <1>0 DEF TypeInv, TypeOK, StoreTypeOK, PauseCommit, Halt, Recipients
  <2> QED
    BY <1>4, <2>1, TypeCommit DEF PauseCommit
<1>5. ASSUME NEW s \in Sessions, ResumeCommit(s)
      PROVE  TypeInv'
  <2>1. StoreTypeOK'
    BY <1>5 DEF TypeInv, TypeOK, StoreTypeOK, ResumeCommit, Requeue,
        Recipients
  <2> QED
    BY <1>5, <2>1, TypeCommit DEF ResumeCommit
<1>6. ASSUME NEW s \in Sessions, CancelCommit(s)
      PROVE  TypeInv'
  <2>1. StoreTypeOK'
    BY <1>6, <1>0 DEF TypeInv, TypeOK, StoreTypeOK, CancelCommit, Halt, Recipients
  <2> QED
    BY <1>6, <2>1, TypeCommit DEF CancelCommit
<1>7. ASSUME NEW s \in Sessions, RetryCommit(s)
      PROVE  TypeInv'
  <2>1. StoreTypeOK'
    BY <1>7 DEF TypeInv, TypeOK, StoreTypeOK, RetryCommit,
        Recipients
  <2> QED
    BY <1>7, <2>1, TypeCommit DEF RetryCommit
<1>8. ASSUME NEW s \in Sessions, UpdateCommit(s)
      PROVE  TypeInv'
  <2>1. StoreTypeOK'
    BY <1>8 DEF TypeInv, TypeOK, StoreTypeOK, UpdateCommit,
        Recipients
  <2> QED
    BY <1>8, <2>1, TypeCommit DEF UpdateCommit
<1>9. ASSUME NEW s \in Sessions, RemoveCommit(s)
      PROVE  TypeInv'
  <2>1. StoreTypeOK'
    BY <1>9 DEF TypeInv, TypeOK, StoreTypeOK, RemoveCommit, DeletedRow, Rows,
        Recipients
  <2> QED
    BY <1>9, <2>1, TypeCommit DEF RemoveCommit
<1>10. ASSUME NEW s \in Sessions, DeleteCommit(s)
      PROVE  TypeInv'
  <2>1. StoreTypeOK'
    BY <1>10 DEF TypeInv, TypeOK, StoreTypeOK, DeleteCommit, DeletedRow,
        Recipients
  <2> QED
    BY <1>10, <2>1, TypeCommit DEF DeleteCommit
<1>11. ASSUME NEW s \in Sessions, AudienceCommit(s)
      PROVE  TypeInv'
  <2>1. StoreTypeOK'
    <3>1. PICK keep \in SUBSET Rows, keys \in SUBSET RowIds, list \in Lists :
            \E email \in Bijection(keys, Added(list, keep)) :
               /\ entry' = [e \in RowIds |->
                              IF e \in keys THEN "pending"
                              ELSE IF e \in Rows \ keep THEN DeletedRow
                              ELSE entry[e]]
               /\ address' = [e \in RowIds |->
                                IF e \in keys THEN email[e] ELSE address[e]]
               /\ recipient_id' = [e \in RowIds |->
                    IF e \in keys THEN RecipientOf(email[e], mailbox)
                    ELSE recipient_id[e]]
      BY <1>11 DEF AudienceCommit
    <3>2. PICK email \in Bijection(keys, Added(list, keep)) :
            /\ address' = [e \in RowIds |->
                             IF e \in keys THEN email[e] ELSE address[e]]
            /\ recipient_id' = [e \in RowIds |->
                 IF e \in keys THEN RecipientOf(email[e], mailbox)
                 ELSE recipient_id[e]]
      BY <3>1
    <3>3. email \in [keys -> Added(list, keep)]
      BY <3>2 DEF Bijection, Injection
    <3>4. Added(list, keep) \subseteq Addresses
      BY RequestAssumption DEF RequestAssumption, Added
    <3>5. address' \in [RowIds -> Addresses]
      BY <3>2, <3>3, <3>4 DEF TypeInv, TypeOK, StoreTypeOK
    <3>6. entry' \in [RowIds -> EntryStatuses \cup {"absent", "gone"}]
      BY <3>1 DEF TypeInv, TypeOK, StoreTypeOK, DeletedRow
    <3>7. recipient_id' \in [RowIds -> RecipientIds \cup {NoRecipient}]
      BY <3>2, RecipientOfTyped DEF TypeInv, TypeOK, StoreTypeOK
    <3> QED
      BY <1>11, <3>5, <3>6, <3>7
      DEF TypeInv, TypeOK, StoreTypeOK, AudienceCommit, Recipients
  <2> QED
    BY <1>11, <2>1, TypeCommit DEF AudienceCommit
<1>12. ASSUME NEW s \in Sessions, StaleCommit(s)
      PROVE  TypeInv'
  <2>1. WorkerTypeOK' /\ AtWork' /\ StoreTypeOK'
    BY <1>12, TypeWorkersKept, TypeStoreKept DEF TypeInv, TypeOK, StaleCommit
  <2>2. RequestTypeOK'
    BY <1>12 DEF TypeInv, TypeOK, RequestTypeOK, StaleCommit
  <2> QED
    BY <2>1, <2>2 DEF TypeInv, TypeOK
<1>13. ASSUME RecipientNext
      PROVE  TypeInv'
  <2> USE DEF TypeInv, TypeOK
  <2>1. WorkerTypeOK' /\ AtWork'
    BY <1>13, TypeWorkersKept, RecipientPages
  <2>2. RequestTypeOK'
    <3>1. requests' = requests + 1
      BY <1>13 DEF RecipientNext, ImportRecipient, DeleteRecipient, Unsubscribe,
                   RecipientPage
    <3> QED
      BY <1>13, <3>1, RecipientPages DEF RequestTypeOK
  <2>3. /\ recipient_id' \in [RowIds -> RecipientIds \cup {NoRecipient}]
        /\ mailbox' \in [RecipientIds -> Addresses \cup {NoAddress}]
        /\ suppressed' \subseteq Recipients'
        /\ grace' \in [RecipientIds -> Int]
    <3> USE DEF StoreTypeOK, Recipients
    <3>1. ASSUME NEW a \in Addresses, ImportRecipient(a)
          PROVE  <2>3!:
      <4>1. a # NoAddress
        BY StateAssumption DEF StateAssumption
      <4> QED
        BY <3>1, <4>1 DEF ImportRecipient
    <3>2. ASSUME NEW r \in RecipientIds, DeleteRecipient(r)
          PROVE  <2>3!:
      BY <3>2 DEF DeleteRecipient
    <3>3. ASSUME NEW r \in RecipientIds, Unsubscribe(r)
          PROVE  <2>3!:
      <4>1. Cardinality(OnTheWay(r)) \in Int
        BY WorkersCounted DEF OnTheWay, InHand
      <4> QED
        BY <3>3, <4>1 DEF Unsubscribe
    <3> QED
      BY <1>13, <3>1, <3>2, <3>3 DEF RecipientNext
  <2>4. StoreTypeOK'
    BY <1>13, <2>3, RecipientPages DEF StoreTypeOK
  <2> QED
    BY <2>1, <2>2, <2>4
<1> QED
  BY <1>2, <1>3, <1>4, <1>5, <1>6, <1>7, <1>8, <1>9, <1>10, <1>11, <1>12, <1>13
  DEF RequestNext, RequestStep

\* A worker that handles a message has a well-typed one.
LEMMA CurrentTyped ==
  ASSUME TypeInv, NEW w \in Workers,
         pc[w] \in {"check", "send", "resend", "record"}
  PROVE  /\ Current(w) \in batch[w]
         /\ Current(w).id \in RowIds
         /\ Current(w).email \in Addresses
         /\ Current(w).recipient \in RecipientIds \cup {NoRecipient}
<1>1. batch[w] \in SUBSET Items /\ batch[w] # {}
  BY DEF TypeInv, TypeOK, WorkerTypeOK, AtWork
<1>2. Current(w) \in batch[w]
  BY <1>1, FirstInBatch DEF Current
<1> QED
  BY <1>1, <1>2 DEF Items

\* The history of what was delivered stays well typed.
LEMMA HandOverTyped ==
  ASSUME TypeInv, NEW w \in Workers, pc[w] \in {"send", "resend"},
         NEW repeated \in BOOLEAN, HandOver(w, repeated)
  PROVE  /\ delivered' \in [Addresses -> Nat]
         /\ leeway' \in Int
         /\ grace' \in [RecipientIds -> Int]
<1> DEFINE a == Current(w).email
           r == Current(w).recipient
           spent == IF repeated THEN 0 ELSE 1
<1>1. /\ delivered \in [Addresses -> Nat]
      /\ leeway \in Int
      /\ grace \in [RecipientIds -> Int]
  BY DEF TypeInv, TypeOK, StoreTypeOK
<1>2. a \in Addresses /\ spent \in Int
  BY CurrentTyped
<1>3. /\ delivered' = [delivered EXCEPT ![a] = @ + 1]
      /\ leeway' = leeway \/ leeway' = leeway - spent
      /\ grace' = grace \/ grace' = [grace EXCEPT ![r] = @ - spent]
  BY DEF HandOver
<1> HIDE DEF a, r, spent
<1>4. delivered' \in [Addresses -> Nat]
  BY ONLY <1>1, <1>2, <1>3
<1>5. leeway' \in Int
  BY ONLY <1>1, <1>2, <1>3
<1>6. grace' \in [RecipientIds -> Int]
  BY ONLY <1>1, <1>2, <1>3
<1> QED
  BY <1>4, <1>5, <1>6

\* The workers keep the state well typed.
LEMMA TypeWorkers == TypeInv /\ WorkerNext => TypeInv'
<1> SUFFICES ASSUME TypeInv, WorkerNext
             PROVE  TypeInv'
  OBVIOUS
<1> USE DEF TypeInv, TypeOK, Recipients
<1>1. ASSUME NEW w \in Workers, Start(w)
      PROVE  TypeInv'
  BY <1>1 DEF StoreTypeOK, RequestTypeOK, WorkerTypeOK, AtWork, Start, Goto
<1>2. ASSUME NEW w \in Workers, Stop(w)
      PROVE  TypeInv'
  BY <1>2 DEF StoreTypeOK, RequestTypeOK, WorkerTypeOK, AtWork, Stop, Goto
<1>3. ASSUME NEW w \in Workers, Exit(w)
      PROVE  TypeInv'
  BY <1>3 DEF StoreTypeOK, RequestTypeOK, WorkerTypeOK, AtWork, Exit, Goto
<1>4. ASSUME NEW w \in Workers, Crash(w)
      PROVE  TypeInv'
  BY <1>4
  DEF StoreTypeOK, RequestTypeOK, WorkerTypeOK, AtWork, Crash, Goto, Forget
<1>5. ASSUME NEW w \in Workers, Poll(w)
      PROVE  TypeInv'
  BY <1>5 DEF StoreTypeOK, RequestTypeOK, WorkerTypeOK, AtWork, Poll, Goto
<1>6. ASSUME NEW w \in Workers, ClaimNothing(w)
      PROVE  TypeInv'
  BY <1>6
  DEF StoreTypeOK, RequestTypeOK, WorkerTypeOK, AtWork, ClaimNothing, Goto
<1>7. ASSUME NEW w \in Workers, Claim(w)
      PROVE  TypeInv'
  BY <1>7
  DEF StoreTypeOK, RequestTypeOK, WorkerTypeOK, AtWork, Claim, Goto, TakeOver
<1>8. ASSUME NEW w \in Workers, ClaimRead(w)
      PROVE  TypeInv'
  <2>1. status \in {"queued", "sending"}
    BY <1>8 DEF ClaimRead, Claimable
  <2>2. StoreTypeOK' /\ RequestTypeOK'
    BY <1>8, TypeStoreKept DEF RequestTypeOK, ClaimRead
  <2>3. WorkerTypeOK' /\ AtWork'
    BY <1>8, <2>1 DEF WorkerTypeOK, AtWork, ClaimRead, Goto
  <2> QED
    BY <2>2, <2>3
<1>9. ASSUME NEW w \in Workers, ClaimWrite(w)
      PROVE  TypeInv'
  BY <1>9
  DEF StoreTypeOK, RequestTypeOK, WorkerTypeOK, AtWork, ClaimWrite, Goto,
      TakeOver
<1>10. ASSUME NEW w \in Workers, ClaimStale(w)
      PROVE  TypeInv'
  BY <1>10
  DEF StoreTypeOK, RequestTypeOK, WorkerTypeOK, AtWork, ClaimStale, Goto,
      Forget
<1>11. ASSUME NEW w \in Workers, Load(w)
      PROVE  TypeInv'
  BY <1>11 DEF StoreTypeOK, RequestTypeOK, WorkerTypeOK, AtWork, Load, Goto
<1>12. ASSUME NEW w \in Workers, LoadNothing(w)
      PROVE  TypeInv'
  BY <1>12
  DEF StoreTypeOK, RequestTypeOK, WorkerTypeOK, AtWork, LoadNothing, Goto,
      Forget
<1>13. ASSUME NEW w \in Workers, Connect(w)
      PROVE  TypeInv'
  <2>1. PICK to \in {"loop", "failing"} : pc' = [pc EXCEPT ![w] = to]
    BY <1>13 DEF Connect
  <2>2. StoreTypeOK' /\ RequestTypeOK'
    BY <1>13, TypeStoreKept DEF RequestTypeOK, Connect
  <2>3. WorkerTypeOK' /\ AtWork'
    BY <1>13, <2>1 DEF WorkerTypeOK, AtWork, Connect
  <2> QED
    BY <2>2, <2>3
<1>14. ASSUME NEW w \in Workers, Fail(w)
      PROVE  TypeInv'
  BY <1>14 DEF StoreTypeOK, RequestTypeOK, WorkerTypeOK, AtWork, Fail, Goto
<1>15. ASSUME NEW w \in Workers, CheckStatus(w)
      PROVE  TypeInv'
  BY <1>15
  DEF StoreTypeOK, RequestTypeOK, WorkerTypeOK, AtWork, CheckStatus, Goto
<1>16. ASSUME NEW w \in Workers, Fetch(w)
      PROVE  TypeInv'
  <2> DEFINE rows == {[id |-> e, email |-> address[e],
                      recipient |-> recipient_id[e]] : e \in FirstPending}
  <2>1. rows \in SUBSET Items
    <3>1. FirstPending \subseteq RowIds
      BY DEF FirstPending, Pending
    <3>2. \A e \in FirstPending :
             /\ address[e] \in Addresses
             /\ recipient_id[e] \in RecipientIds \cup {NoRecipient}
      BY <3>1 DEF StoreTypeOK
    <3> QED
      BY <3>1, <3>2 DEF Items
  <2>2. FirstPending # {} => rows # {}
    OBVIOUS
  <2>3. StoreTypeOK' /\ RequestTypeOK'
    BY <1>16, TypeStoreKept DEF RequestTypeOK, Fetch
  <2>4. batch' = [batch EXCEPT ![w] = rows]
    BY <1>16 DEF Fetch
  <2>5. WorkerTypeOK' /\ AtWork'
    <3> HIDE DEF rows
    <3> QED
      BY <1>16, <2>1, <2>2, <2>4 DEF WorkerTypeOK, AtWork, Fetch, Goto
  <2> QED
    BY <2>3, <2>5
<1>17. ASSUME NEW w \in Workers, Finish(w)
      PROVE  TypeInv'
  BY <1>17 DEF StoreTypeOK, RequestTypeOK, WorkerTypeOK, AtWork, Finish, Goto
<1>18. ASSUME NEW w \in Workers, EndBatch(w)
      PROVE  TypeInv'
  <2>1. StoreTypeOK' /\ RequestTypeOK'
    BY <1>18 DEF StoreTypeOK, RequestTypeOK, EndBatch, Flush
  <2>2. WorkerTypeOK' /\ AtWork'
    BY <1>18 DEF WorkerTypeOK, AtWork, EndBatch, Goto, Flush
  <2> QED
    BY <2>1, <2>2
<1>19. ASSUME NEW w \in Workers, Renew(w)
      PROVE  TypeInv'
  <2>1. StoreTypeOK' /\ RequestTypeOK'
    BY <1>19 DEF StoreTypeOK, RequestTypeOK, Renew, Flush
  <2>2. WorkerTypeOK' /\ AtWork'
    BY <1>19 DEF WorkerTypeOK, AtWork, Renew, Goto, Flush
  <2> QED
    BY <2>1, <2>2
<1>20. ASSUME NEW w \in Workers, StaleFlush(w)
      PROVE  TypeInv'
  BY <1>20
  DEF StoreTypeOK, RequestTypeOK, WorkerTypeOK, AtWork, StaleFlush, Goto,
      Forget
<1>21. ASSUME NEW w \in Workers, CheckRecipient(w)
      PROVE  TypeInv'
  BY <1>21
  DEF StoreTypeOK, RequestTypeOK, WorkerTypeOK, AtWork, CheckRecipient, Goto
<1>22. ASSUME NEW w \in Workers, Skip(w)
      PROVE  TypeInv'
  <2>1. Current(w).id \in RowIds
    BY <1>22, CurrentTyped DEF Skip
  <2>2. StoreTypeOK' /\ RequestTypeOK'
    BY <1>22, TypeStoreKept DEF RequestTypeOK, Skip
  <2>3. WorkerTypeOK' /\ AtWork'
    BY <1>22, <2>1 DEF WorkerTypeOK, AtWork, Skip, Goto
  <2> QED
    BY <2>2, <2>3
<1>23. ASSUME NEW w \in Workers, DryRun(w)
      PROVE  TypeInv'
  BY <1>23
  DEF StoreTypeOK, RequestTypeOK, WorkerTypeOK, AtWork, DryRun, Goto,
      Conclude
<1>24. ASSUME NEW w \in Workers, Accepted(w)
      PROVE  TypeInv'
  <2>1. StoreTypeOK'
    BY <1>24, HandOverTyped DEF StoreTypeOK, Accepted, HandOver
  <2>2. RequestTypeOK' /\ WorkerTypeOK' /\ AtWork'
    BY <1>24 DEF RequestTypeOK, WorkerTypeOK, AtWork, Accepted, Conclude
  <2> QED
    BY <2>1, <2>2
<1>25. ASSUME NEW w \in Workers, Refused(w)
      PROVE  TypeInv'
  BY <1>25
  DEF StoreTypeOK, RequestTypeOK, WorkerTypeOK, AtWork, Refused, Goto,
      Conclude
<1>26. ASSUME NEW w \in Workers, ReplyLost(w)
      PROVE  TypeInv'
  <2>1. StoreTypeOK'
    BY <1>26, HandOverTyped DEF StoreTypeOK, ReplyLost, HandOver
  <2>2. RequestTypeOK'
    BY <1>26 DEF RequestTypeOK, ReplyLost
  <2>3. lostReplies' \in Nat
    <3>1. lostReplies \in Nat
      BY DEF WorkerTypeOK
    <3>2. lostReplies' = lostReplies + 1
      BY <1>26 DEF ReplyLost
    <3> QED
      BY ONLY <3>1, <3>2
  <2>4. CASE pc[w] = "send" /\ Goto(w, "send", "resend") /\ UNCHANGED outcome
    BY <1>26, <2>1, <2>2, <2>3, <2>4 DEF WorkerTypeOK, AtWork, ReplyLost, Goto
  <2>5. CASE pc[w] = "resend" /\ Conclude(w, "failed")
    BY <1>26, <2>1, <2>2, <2>3, <2>5
    DEF WorkerTypeOK, AtWork, ReplyLost, Conclude
  <2> QED
    BY <1>26, <2>1, <2>2, <2>4, <2>5 DEF ReplyLost
<1>27. ASSUME NEW w \in Workers, Record(w)
      PROVE  TypeInv'
  BY <1>27 DEF StoreTypeOK, RequestTypeOK, WorkerTypeOK, AtWork, Record, Goto
<1>28. ASSUME NEW w \in Workers, RecordStale(w)
      PROVE  TypeInv'
  BY <1>28
  DEF StoreTypeOK, RequestTypeOK, WorkerTypeOK, AtWork, RecordStale, Goto,
      Forget
<1>29. ASSUME NEW w \in Workers, Leave(w)
      PROVE  TypeInv'
  BY <1>29
  DEF StoreTypeOK, RequestTypeOK, WorkerTypeOK, AtWork, Leave, Goto, Forget
<1>30. ASSUME NEW w \in Workers, DbError(w)
      PROVE  TypeInv'
  <2>1. PICK to \in {"idle", "leaving"} : pc' = [pc EXCEPT ![w] = to]
    BY <1>30 DEF DbError, Goto
  <2>2. StoreTypeOK' /\ RequestTypeOK'
    BY <1>30, TypeStoreKept DEF RequestTypeOK, DbError
  <2>3. dbErrors' \in Nat
    <3>1. dbErrors \in Nat
      BY DEF WorkerTypeOK
    <3>2. dbErrors' = dbErrors + 1
      BY <1>30 DEF DbError
    <3> QED
      BY ONLY <3>1, <3>2
  <2>4. WorkerTypeOK' /\ AtWork'
    BY <1>30, <2>1, <2>3 DEF WorkerTypeOK, AtWork, DbError, Forget
  <2> QED
    BY <2>2, <2>4
<1>31. ASSUME Lapse
      PROVE  TypeInv'
  <2>1. overruns' \in Nat
    <3>1. overruns \in Nat
      BY DEF WorkerTypeOK
    <3>2. overruns' = overruns \/ overruns' = overruns + 1
      BY <1>31 DEF Lapse
    <3> QED
      BY ONLY <3>1, <3>2
  <2>2. StoreTypeOK' /\ RequestTypeOK'
    BY <1>31 DEF StoreTypeOK, RequestTypeOK, Lapse
  <2>3. WorkerTypeOK' /\ AtWork'
    BY <1>31, <2>1 DEF WorkerTypeOK, AtWork, Lapse
  <2> QED
    BY <2>2, <2>3
<1> QED
  BY <1>1, <1>2, <1>3, <1>4, <1>5, <1>6, <1>7, <1>8, <1>9, <1>10, <1>11,
     <1>12, <1>13, <1>14, <1>15, <1>16, <1>17, <1>18, <1>19, <1>20, <1>21,
     <1>22, <1>23, <1>24, <1>25, <1>26, <1>27, <1>28, <1>29, <1>30, <1>31
  DEF WorkerNext, WorkerStep, WorkerFault

\* Every step of the system keeps the types.
LEMMA TypeStep == TypeInv /\ [Next]_vars => TypeInv'
<1>1. TypeInv /\ UNCHANGED vars => TypeInv'
  BY TypeStoreKept, TypeWorkersKept
  DEF TypeInv, TypeOK, RequestTypeOK
<1> QED
  BY <1>1, TypeRequests, TypeWorkers DEF Next

\* Every variable holds what its column, queue or local may hold.
\* (app/models.py, the handlers and the worker)
THEOREM TypeCorrect == Spec => []TypeOK
<1>1. Init => TypeInv
  BY TypeInit
<1>2. TypeInv /\ [Next]_vars => TypeInv'
  BY TypeStep
<1>3. TypeInv => TypeOK
  BY DEF TypeInv
<1> QED
  BY <1>1, <1>2, <1>3, PTL DEF Spec

-----------------------------------------------------------------------------
(* One worker per round *)

\* Why one worker serves a round.  On PostgreSQL the worker that serves the
\* latest round is the one in claimed_by and its lease is live, so the campaign
\* is neither queued nor free to be taken over; on SQLite one process runs.
RoundsAreQueued == \A w \in Workers : serving[w] <= round

OneProcess == Sqlite => \A v, w \in Workers : Alive(v) /\ Alive(w) => v = w

ClaimsAreLocked == ~Sqlite => \A w \in Workers : pc[w] # "claiming"

Serves(w) == pc[w] \in Sending

OwnerServes ==
  ~Sqlite /\ overruns = 0 =>
    \A w \in Workers :
      Serves(w) /\ serving[w] = round =>
        claimedBy = w /\ lease = "live" /\ status # "queued"

OnePerRound ==
  ~Sqlite /\ overruns = 0 =>
    \A v, w \in Workers :
      v # w /\ Serves(v) /\ Serves(w) => serving[v] # serving[w]

OneServer ==
  /\ RoundsAreQueued
  /\ OneProcess
  /\ ClaimsAreLocked
  /\ OwnerServes
  /\ OnePerRound

\* Steps that give nobody anything to serve.
Quiet ==
  /\ UNCHANGED <<claimedBy, round, overruns>>
  /\ status' = status \/ status' \notin ACTIVE_STATUSES
  /\ lease' = lease \/ lease' = "live"
  /\ \A w \in Workers :
       /\ serving'[w] \in {serving[w], 0}
       /\ Serves(w)' => Serves(w) /\ serving'[w] = serving[w]
       /\ pc'[w] = "claiming" => pc[w] = "claiming" \/ Sqlite
       /\ Alive(w)' => Alive(w)

\* The types of what the lease argument reads.
LEMMA ServingTyped ==
  TypeInv => /\ round \in Nat
             /\ overruns \in Nat
             /\ serving \in [Workers -> Nat]
             /\ pc \in [Workers -> Locations]
  BY DEF TypeInv, TypeOK, StoreTypeOK, WorkerTypeOK

\* A step that neither claims nor queues cannot put a second worker on a round.
LEMMA QuietKeepsOneServer ==
  ASSUME TypeInv, OneServer, Quiet
  PROVE  OneServer'
<1>1. RoundsAreQueued'
  BY ServingTyped DEF OneServer, RoundsAreQueued, Quiet
<1>2. OneProcess'
  BY ServingTyped DEF OneServer, OneProcess, Alive, Quiet
<1>3. ClaimsAreLocked'
  BY ServingTyped DEF OneServer, ClaimsAreLocked, Quiet
<1>4. OwnerServes'
  BY ServingTyped DEF OneServer, OwnerServes, Serves, Quiet
<1>5. OnePerRound'
  BY ServingTyped DEF OneServer, OnePerRound, Quiet
<1> QED
  BY <1>1, <1>2, <1>3, <1>4, <1>5 DEF OneServer

\* The handlers are quiet but for those that put the campaign in the queue.
LEMMA RequestsAreQuiet ==
  ASSUME TypeInv, RequestNext
  PROVE  Quiet \/ (Requeue /\ UNCHANGED <<claimedBy, lease, workerVars>>)
<1> USE DEF Quiet, Alive, Serves
<1>1. ASSUME NEW s \in Sessions, NEW op, NEW dry, Begin(s, op, dry)
      PROVE  Quiet
  BY <1>1 DEF Begin
<1>2. ASSUME NEW s \in Sessions, PauseCommit(s)
      PROVE  Quiet
  BY <1>2 DEF PauseCommit, Commit, Halt
<1>3. ASSUME NEW s \in Sessions, CancelCommit(s)
      PROVE  Quiet
  BY <1>3 DEF CancelCommit, Commit, Halt
<1>4. ASSUME NEW s \in Sessions, RetryCommit(s)
      PROVE  Quiet
  BY <1>4 DEF RetryCommit, Commit
<1>5. ASSUME NEW s \in Sessions, UpdateCommit(s)
      PROVE  Quiet
  BY <1>5 DEF UpdateCommit, Commit
<1>6. ASSUME NEW s \in Sessions, AudienceCommit(s)
      PROVE  Quiet
  BY <1>6 DEF AudienceCommit, Commit
<1>7. ASSUME NEW s \in Sessions, RemoveCommit(s)
      PROVE  Quiet
  BY <1>7 DEF RemoveCommit, Commit
<1>8. ASSUME NEW s \in Sessions, DeleteCommit(s)
      PROVE  Quiet
  BY <1>8 DEF DeleteCommit, Commit
<1>9. ASSUME NEW s \in Sessions, StaleCommit(s)
      PROVE  Quiet
  BY <1>9 DEF StaleCommit
<1>10. ASSUME RecipientNext
      PROVE  Quiet
  BY <1>10, RecipientPages
<1>11. ASSUME NEW s \in Sessions, SendCommit(s) \/ ResumeCommit(s)
      PROVE  Requeue /\ UNCHANGED <<claimedBy, lease, workerVars>>
  BY <1>11 DEF SendCommit, ResumeCommit, Commit
<1> HIDE DEF Quiet, Alive, Serves
<1> QED
  BY RequestNext, <1>1, <1>2, <1>3, <1>4, <1>5, <1>6, <1>7, <1>8, <1>9, <1>10,
     <1>11
  DEF RequestNext, RequestStep, SendRead, PauseRead, ResumeRead, CancelRead,
      RetryRead, UpdateRead, AudienceRead, RemoveRead, DeleteRead

\* The workers' steps are quiet but for the claims, the start of a process, the
\* hand-back and the lapse of a lease.
LEMMA WorkersAreQuiet ==
  ASSUME TypeInv, NEW w \in Workers, WorkerStep(w) \/ WorkerFault(w)
  PROVE  Quiet \/ Claim(w) \/ ClaimWrite(w) \/ Leave(w)
<1> USE DEF Quiet, Alive, Serves, TypeInv, TypeOK, WorkerTypeOK
<1>1. Stop(w) => Quiet
  BY DEF Stop, Goto
<1>2. Exit(w) => Quiet
  BY DEF Exit, Goto
<1>3. Crash(w) => Quiet
  BY DEF Crash, Goto, Forget
<1>4. Poll(w) => Quiet
  BY DEF Poll, Goto
<1>5. ClaimNothing(w) => Quiet
  BY DEF ClaimNothing, Goto
<1>6. ClaimRead(w) => Quiet
  BY DEF ClaimRead, Goto, RowLocks
<1>7. ClaimStale(w) => Quiet
  BY DEF ClaimStale, Goto, Forget
<1>8. Load(w) => Quiet
  BY DEF Load, Goto
<1>9. LoadNothing(w) => Quiet
  BY DEF LoadNothing, Goto, Forget
<1>10. Connect(w) => Quiet
  BY DEF Connect, Goto
<1>11. Fail(w) => Quiet
  BY DEF Fail, Goto
<1>12. CheckStatus(w) => Quiet
  BY DEF CheckStatus, Goto
<1>13. Fetch(w) => Quiet
  BY DEF Fetch, Goto
<1>14. Finish(w) => Quiet
  BY DEF Finish, Goto
<1>15. EndBatch(w) => Quiet
  BY DEF EndBatch, Goto
<1>16. Renew(w) => Quiet
  BY DEF Renew, Goto
<1>17. StaleFlush(w) => Quiet
  BY DEF StaleFlush, Goto, Forget
<1>18. CheckRecipient(w) => Quiet
  BY DEF CheckRecipient, Goto
<1>19. Skip(w) => Quiet
  BY DEF Skip, Goto
<1>20. DryRun(w) => Quiet
  BY DEF DryRun, Goto, Conclude
<1>21. Accepted(w) => Quiet
  BY DEF Accepted, Goto, Conclude
<1>22. Refused(w) => Quiet
  BY DEF Refused, Goto, Conclude
<1>23. ReplyLost(w) => Quiet
  BY DEF ReplyLost, Goto, Conclude
<1>24. Record(w) => Quiet
  BY DEF Record, Goto
<1>25. RecordStale(w) => Quiet
  BY DEF RecordStale, Goto, Forget
<1>26. DbError(w) => Quiet
  <2> SUFFICES ASSUME DbError(w) PROVE Quiet
    OBVIOUS
  <2>1. PICK to \in {"idle", "leaving"} :
          /\ pc' = [pc EXCEPT ![w] = to]
          /\ to = "leaving" => pc[w] \in Sending
          /\ pc[w] \notin {"off", "exited", "crashed"}
    BY DEF DbError, Goto
  <2>2. \A v \in Workers \ {w} : pc'[v] = pc[v] /\ serving'[v] = serving[v]
    BY <2>1 DEF DbError, Forget
  <2> QED
    BY <2>1, <2>2 DEF DbError, Forget
<1> HIDE DEF Quiet, Alive, Serves, TypeInv, TypeOK, WorkerTypeOK
<1> QED
  BY <1>1, <1>2, <1>3, <1>4, <1>5, <1>6, <1>7, <1>8, <1>9, <1>10, <1>11,
     <1>12, <1>13, <1>14, <1>15, <1>16, <1>17, <1>18, <1>19, <1>20, <1>21,
     <1>22, <1>23, <1>24, <1>25, <1>26
  DEF WorkerStep, WorkerFault

\* A campaign put in the queue starts a round nobody serves yet.
LEMMA RequeueKeepsOneServer ==
  ASSUME TypeInv, OneServer, Requeue, UNCHANGED <<claimedBy, lease, workerVars>>
  PROVE  OneServer'
<1>1. RoundsAreQueued'
  BY ServingTyped DEF OneServer, RoundsAreQueued, Requeue
<1>2. OneProcess'
  BY ServingTyped DEF OneServer, OneProcess, Alive, Requeue
<1>3. ClaimsAreLocked'
  BY ServingTyped DEF OneServer, ClaimsAreLocked, Requeue
<1>4. OwnerServes'
  BY ServingTyped DEF OneServer, OwnerServes, Serves, RoundsAreQueued, Requeue
<1>5. OnePerRound'
  BY ServingTyped DEF OneServer, OnePerRound, Serves, Requeue
<1> QED
  BY <1>1, <1>2, <1>3, <1>4, <1>5 DEF OneServer

\* A claim needs a campaign that nobody serves in its latest round.
LEMMA ClaimKeepsOneServer ==
  ASSUME TypeInv, OneServer, NEW w \in Workers, Claim(w) \/ ClaimWrite(w)
  PROVE  OneServer'
<1>1. RoundsAreQueued'
  <2>1. serving' = [serving EXCEPT ![w] = round] /\ round' = round
    BY DEF Claim, ClaimWrite, TakeOver
  <2> QED
    BY <2>1, ServingTyped DEF OneServer, RoundsAreQueued
<1>2. OneProcess'
  BY ServingTyped DEF OneServer, OneProcess, Alive, Claim, ClaimWrite, Goto
<1>3. ClaimsAreLocked'
  BY ServingTyped DEF OneServer, ClaimsAreLocked, Claim, ClaimWrite, Goto
<1>4. OwnerServes' /\ OnePerRound'
  <2> SUFFICES ASSUME ~Sqlite, overruns = 0
               PROVE  OwnerServes' /\ OnePerRound'
    BY DEF OwnerServes, OnePerRound, Claim, ClaimWrite
  <2>1. Claim(w)
    BY DEF OneServer, ClaimsAreLocked, ClaimWrite, Goto
  <2>2. \A v \in Workers : Serves(v) => serving[v] # round
    BY <2>1 DEF Claim, Claimable, OneServer, OwnerServes
  <2>3. /\ claimedBy' = w /\ lease' = "live" /\ round' = round
        /\ serving' = [serving EXCEPT ![w] = round]
        /\ pc' = [pc EXCEPT ![w] = "load"]
        /\ status' # "queued"
    BY <2>1 DEF Claim, TakeOver, Goto
  <2>4. \A v \in Workers \ {w} :
          serving'[v] = serving[v] /\ Serves(v)' = Serves(v)
    BY <2>3 DEF TypeInv, TypeOK, WorkerTypeOK, Serves
  <2>5. OwnerServes'
    BY <2>2, <2>3, <2>4 DEF OwnerServes
  <2>6. OnePerRound'
    BY <2>2, <2>3, <2>4, ServingTyped DEF OneServer, OnePerRound
  <2> QED
    BY <2>5, <2>6
<1> QED
  BY <1>1, <1>2, <1>3, <1>4 DEF OneServer

\* Only the worker that is leaving can hand its own claim back.
LEMMA LeaveKeepsOneServer ==
  ASSUME TypeInv, OneServer, NEW w \in Workers, Leave(w)
  PROVE  OneServer'
<1>1. RoundsAreQueued'
  <2>1. \A v \in Workers : serving'[v] \in {serving[v], 0}
    BY ServingTyped DEF Leave, Forget
  <2>2. round' = round
    BY DEF Leave
  <2> QED
    BY <2>1, <2>2, ServingTyped DEF OneServer, RoundsAreQueued
<1>2. OneProcess'
  BY ServingTyped
  DEF OneServer, OneProcess, Alive, Leave, HandsBack, Goto, Forget
<1>3. ClaimsAreLocked'
  BY ServingTyped
  DEF OneServer, ClaimsAreLocked, Leave, HandsBack, Goto, Forget
<1>4. OwnerServes'
  BY ServingTyped
  DEF OneServer, OwnerServes, Serves, Leave, HandsBack, Goto, Forget
<1>5. OnePerRound'
  BY ServingTyped
  DEF OneServer, OnePerRound, Serves, Leave, HandsBack, Goto, Forget
<1> QED
  BY <1>1, <1>2, <1>3, <1>4, <1>5 DEF OneServer

\* A SQLite installation starts a process when no other runs; nothing is put in
\* the queue again on PostgreSQL.
LEMMA StartKeepsOneServer ==
  ASSUME TypeInv, OneServer, NEW w \in Workers, Start(w)
  PROVE  OneServer'
<1>1. RoundsAreQueued'
  BY ServingTyped DEF OneServer, RoundsAreQueued, Start, RequeuesAtStart, Goto
<1>2. OneProcess'
  BY ServingTyped
  DEF OneServer, OneProcess, Alive, Start, RequeuesAtStart, Goto
<1>3. ClaimsAreLocked'
  BY ServingTyped DEF OneServer, ClaimsAreLocked, Start, RequeuesAtStart, Goto
<1>4. OwnerServes'
  BY ServingTyped
  DEF OneServer, OwnerServes, Serves, Start, RequeuesAtStart, Goto
<1>5. OnePerRound'
  BY ServingTyped
  DEF OneServer, OnePerRound, Serves, Start, RequeuesAtStart, Goto
<1> QED
  BY <1>1, <1>2, <1>3, <1>4, <1>5 DEF OneServer

\* Without an overrun, the lease of a worker that is sending never lapses.
LEMMA LapseKeepsOneServer ==
  ASSUME TypeInv, OneServer, Lapse
  PROVE  OneServer'
<1>1. overruns \in Nat
  BY DEF TypeInv, TypeOK, WorkerTypeOK
<1>2. CASE pc[claimedBy] \notin Sending /\ UNCHANGED overruns
  BY <1>2
  DEF OneServer, RoundsAreQueued, OneProcess, ClaimsAreLocked, OwnerServes,
      OnePerRound, Serves, Alive, Lapse
<1>3. CASE overruns' = overruns + 1
  <2>1. overruns' # 0
    BY <1>1, <1>3
  <2> QED
    BY <2>1
    DEF OneServer, RoundsAreQueued, OneProcess, ClaimsAreLocked, OwnerServes,
        OnePerRound, Serves, Alive, Lapse
<1> QED
  BY <1>2, <1>3 DEF Lapse

\* Nobody serves the campaign while it is a draft and no process runs.
LEMMA OneServerInit == Init => OneServer
<1> SUFFICES ASSUME Init PROVE OneServer
  OBVIOUS
<1>1. round = 0 /\ status = "draft"
  BY DEF Init, StoreInit
<1>2. \A w \in Workers : pc[w] = "off" /\ serving[w] = 0
  BY DEF Init, WorkerInit
<1> QED
  BY <1>1, <1>2
  DEF OneServer, RoundsAreQueued, OneProcess, ClaimsAreLocked, OwnerServes,
      OnePerRound, Serves, Alive

\* No step puts a second worker on a round of the campaign.
LEMMA OneServerStep == TypeInv /\ OneServer /\ [Next]_vars => OneServer'
<1> SUFFICES ASSUME TypeInv, OneServer, [Next]_vars
             PROVE  OneServer'
  OBVIOUS
<1>1. CASE RequestNext
  BY <1>1, RequestsAreQuiet, QuietKeepsOneServer, RequeueKeepsOneServer
<1>2. ASSUME NEW w \in Workers, WorkerStep(w) \/ WorkerFault(w)
      PROVE  OneServer'
  BY <1>2, WorkersAreQuiet, QuietKeepsOneServer, ClaimKeepsOneServer,
     LeaveKeepsOneServer
<1>3. CASE UNCHANGED vars
  BY <1>3, QuietKeepsOneServer DEF Quiet, Alive, Serves
<1> QED
  BY <1>1, <1>2, <1>3, StartKeepsOneServer, LapseKeepsOneServer
  DEF Next, WorkerNext

\* As long as no message outlasts its lease, one worker at a time serves the
\* campaign each time it is put in the queue, whatever stops, crashes or fails
\* in any number of processes.  (_claim_campaign, _renew_lease, _release_lease)
THEOREM ServedByOne == Spec => []ExclusivePerRound
<1>1. Init => TypeInv /\ OneServer
  BY TypeInit, OneServerInit
<1>2. TypeInv /\ OneServer /\ [Next]_vars => (TypeInv /\ OneServer)'
  BY TypeStep, OneServerStep
<1>3. TypeInv /\ OneServer => ExclusivePerRound
  BY StateAssumption
  DEF StateAssumption, OneServer, OneProcess, OnePerRound, ExclusivePerRound,
      Serves, Alive
<1> QED
  BY <1>1, <1>2, <1>3, PTL DEF Spec

\* On PostgreSQL no worker takes a paused or cancelled campaign back to sending:
\* the row stays locked from the read of a claim to its commit.  (FOR UPDATE in
\* _claim_campaign)
THEOREM PauseIsKept == ASSUME ~Sqlite PROVE Spec => PauseHolds
<1>1. Init => TypeInv /\ OneServer
  BY TypeInit, OneServerInit
<1>2. TypeInv /\ OneServer /\ [Next]_vars => (TypeInv /\ OneServer)'
  BY TypeStep, OneServerStep
<1>3. TypeInv /\ OneServer /\ [Next]_vars =>
        [Stopped => status' # "sending"]_status
  <2> SUFFICES ASSUME TypeInv, OneServer, Next, Stopped, status' # status
               PROVE  status' # "sending"
    BY DEF Stopped
  <2>1. Quiet => status' # "sending"
    BY DEF Quiet
  <2>2. CASE RequestNext
    BY <2>1, <2>2, RequestsAreQuiet DEF Requeue
  <2>3. ASSUME NEW w \in Workers, WorkerStep(w) \/ WorkerFault(w)
        PROVE  status' # "sending"
    <3>1. ~Claim(w)
      BY DEF Claim, Claimable, Stopped
    <3>2. ~ClaimWrite(w)
      BY DEF ClaimWrite, Goto, OneServer, ClaimsAreLocked
    <3>3. ~Leave(w)
      BY DEF Leave
    <3> QED
      BY <2>1, <2>3, <3>1, <3>2, <3>3, WorkersAreQuiet
  <2>4. ASSUME NEW w \in Workers, Start(w)
        PROVE  status' # "sending"
    BY <2>4 DEF Start, RequeuesAtStart
  <2>5. CASE Lapse
    BY <2>5 DEF Lapse
  <2> QED
    BY <2>2, <2>3, <2>4, <2>5 DEF Next, WorkerNext
<1> QED
  BY <1>1, <1>2, <1>3, PTL DEF Spec, PauseHolds

-----------------------------------------------------------------------------
(* What a row says was delivered *)

\* The message a worker has at hand is for the address of its row.
BatchIsFromRows ==
  \A w \in Workers : \A r \in batch[w] :
    /\ entry[r.id] # "absent"
    /\ r.id \in Rows => address[r.id] = r.email

\* An outcome that is about to be written as sent was.
OutcomeIsTrue ==
  \A w \in Workers :
    pc[w] = "record" /\ outcome[w] = "sent" => delivered[Current(w).email] > 0

RowsAreTrue == BatchIsFromRows /\ OutcomeIsTrue /\ SentWasDelivered

\* Steps that give no key a second row and mark nothing as sent.
KeepsRows ==
  \A e \in RowIds :
    entry[e] # "absent" =>
      /\ entry'[e] # "absent"
      /\ entry'[e] \in EntryStatuses =>
           entry[e] \in EntryStatuses /\ address'[e] = address[e]

MarksNothing == \A e \in RowIds : entry'[e] = "sent" => entry[e] = "sent"

KeepsOutcomes ==
  \A w \in Workers :
    pc'[w] = "record" /\ outcome'[w] = "sent" =>
      pc[w] = "record" /\ outcome[w] = "sent" /\ batch'[w] = batch[w]

KeepsBatches == \A w \in Workers : batch'[w] \subseteq batch[w]

KeepsDelivered == \A a \in Addresses : delivered[a] > 0 => delivered'[a] > 0

Steady ==
  /\ KeepsRows
  /\ MarksNothing
  /\ KeepsOutcomes
  /\ KeepsBatches
  /\ KeepsDelivered

\* The keys of new rows are above those in use.  (the sequence of PostgreSQL)
LEMMA NextKeysAreNew ==
  ASSUME NEW entries, NEW n, NEW e \in RowIds, e \in NextKeys(entries, n)
  PROVE  entries[e] = "absent"
<1> DEFINE used == {0} \cup {k \in RowIds : entries[k] # "absent"}
           room == {MaxRow - k : k \in used}
<1>1. MaxRow \in Nat
  BY StateAssumption DEF StateAssumption
<1>2. used \subseteq 0..MaxRow /\ used # {}
  BY <1>1
<1>3. room \in SUBSET Nat /\ room # {}
  BY <1>1, <1>2
<1>4. PICK m \in room : \A x \in room : m <= x
  <2> HIDE DEF room
  <2> QED
    BY <1>3, SmallestKey
<1>5. PICK last \in used : m = MaxRow - last
  OBVIOUS
<1>6. \A k \in used : last >= k
  <2> SUFFICES ASSUME NEW k \in used PROVE last >= k
    OBVIOUS
  <2>1. m <= MaxRow - k
    BY <1>4
  <2>2. k \in Int /\ last \in Int
    BY <1>1, <1>2
  <2> QED
    BY <1>1, <1>5, <2>1, <2>2
<1>7. Max(used) \in used /\ \A k \in used : Max(used) >= k
  <2> HIDE DEF used
  <2> QED
    BY <1>6 DEF Max
<1>8. e >= Max(used) + 1
  BY DEF NextKeys
<1>9. e \notin used
  <2>1. e \in Int /\ Max(used) \in Int
    BY <1>1, <1>2, <1>7
  <2> QED
    BY <1>7, <1>8, <2>1
<1> QED
  BY <1>9

\* The types of what the argument about the rows reads.
LEMMA RowsTyped ==
  TypeInv => /\ entry \in [RowIds -> EntryStatuses \cup {"absent", "gone"}]
             /\ address \in [RowIds -> Addresses]
             /\ delivered \in [Addresses -> Nat]
             /\ pc \in [Workers -> Locations]
             /\ batch \in [Workers -> SUBSET Items]
             /\ skips \in [Workers -> SUBSET RowIds]
             /\ outcome \in [Workers -> {"", "sent", "failed", "skipped"}]
  BY DEF TypeInv, TypeOK, StoreTypeOK, WorkerTypeOK

\* What a step that is steady leaves alone.
LEMMA StoreIsSteady ==
  ASSUME UNCHANGED <<entry, address, delivered>>
  PROVE  KeepsRows /\ MarksNothing /\ KeepsDelivered
  BY DEF KeepsRows, MarksNothing, KeepsDelivered

\* A handler's step leaves every worker's batch and outcome alone.
LEMMA WorkersStaySteady ==
  ASSUME UNCHANGED <<pc, batch, outcome>>
  PROVE  KeepsOutcomes /\ KeepsBatches
  BY DEF KeepsOutcomes, KeepsBatches

\* A message that is handed over was delivered, and the others still were.
LEMMA HandOverDelivers ==
  ASSUME TypeInv, NEW w \in Workers, pc[w] \in {"send", "resend"},
         NEW repeated, HandOver(w, repeated)
  PROVE  KeepsDelivered /\ delivered'[Current(w).email] > 0
<1> DEFINE a == Current(w).email
<1>1. a \in Addresses
  BY CurrentTyped
<1>2. delivered \in [Addresses -> Nat]
  BY RowsTyped
<1>3. delivered' = [delivered EXCEPT ![a] = delivered[a] + 1]
  BY DEF HandOver
<1> HIDE DEF a
<1>4. delivered'[a] > 0
  BY ONLY <1>1, <1>2, <1>3
<1>5. \A b \in Addresses : b # a => delivered'[b] = delivered[b]
  BY ONLY <1>1, <1>2, <1>3
<1> QED
  BY <1>4, <1>5 DEF KeepsDelivered, a

\* The handlers are steady: a changed audience has keys of its own.
LEMMA RequestsAreSteady ==
  ASSUME ~Sqlite, TypeInv, RequestNext
  PROVE  Steady
<1>1. UNCHANGED workerVars
  BY
  DEF RequestNext, RequestStep, SendRead, PauseRead, ResumeRead, CancelRead,
      RetryRead, UpdateRead, AudienceRead, RemoveRead, DeleteRead, Begin,
      SendCommit, PauseCommit, ResumeCommit, CancelCommit, RetryCommit,
      UpdateCommit, AudienceCommit, RemoveCommit, DeleteCommit, Commit,
      StaleCommit, RecipientNext, ImportRecipient, DeleteRecipient, Unsubscribe,
      RecipientPage
<1>2. ASSUME KeepsRows, MarksNothing, UNCHANGED delivered
      PROVE  Steady
  BY <1>1, <1>2, WorkersStaySteady DEF Steady, KeepsDelivered
<1>3. ASSUME NEW s \in Sessions, NEW op, NEW dry, Begin(s, op, dry)
      PROVE  Steady
  BY <1>1, <1>3, StoreIsSteady, WorkersStaySteady DEF Begin, Steady
<1>4. ASSUME NEW s \in Sessions,
             SendCommit(s) \/ PauseCommit(s) \/ ResumeCommit(s)
               \/ CancelCommit(s) \/ UpdateCommit(s) \/ StaleCommit(s)
      PROVE  Steady
  BY <1>1, <1>4, StoreIsSteady, WorkersStaySteady
  DEF SendCommit, PauseCommit, ResumeCommit, CancelCommit, UpdateCommit,
      StaleCommit, Requeue, Halt, Steady
<1>5. ASSUME NEW s \in Sessions, RetryCommit(s)
      PROVE  Steady
  <2>1. KeepsRows /\ MarksNothing
    BY <1>5, RowsTyped DEF RetryCommit, KeepsRows, MarksNothing
  <2> QED
    BY <1>2, <1>5, <2>1 DEF RetryCommit
<1>6. ASSUME NEW s \in Sessions, RemoveCommit(s)
      PROVE  Steady
  <2>1. CASE entry' = entry
    BY <1>1, <1>6, <2>1, StoreIsSteady, WorkersStaySteady
    DEF RemoveCommit, Steady
  <2>2. ASSUME NEW k \in Rows, entry' = [entry EXCEPT ![k] = "gone"]
        PROVE  KeepsRows /\ MarksNothing
    BY <1>6, <2>2, RowsTyped DEF RemoveCommit, KeepsRows, MarksNothing
  <2> QED
    BY <1>2, <1>6, <2>1, <2>2 DEF RemoveCommit, DeletedRow
<1>7. ASSUME NEW s \in Sessions, DeleteCommit(s)
      PROVE  Steady
  <2>1. KeepsRows /\ MarksNothing
    BY <1>7, RowsTyped DEF DeleteCommit, DeletedRow, KeepsRows, MarksNothing
  <2> QED
    BY <1>2, <1>7, <2>1 DEF DeleteCommit
<1>8. ASSUME NEW s \in Sessions, AudienceCommit(s)
      PROVE  Steady
  <2>1. PICK replace \in BOOLEAN, list \in Lists :
          LET left == IF replace THEN {} ELSE Rows
              kept == [e \in RowIds |->
                         IF e \in Rows \ left THEN DeletedRow ELSE entry[e]]
              new  == Added(list, left)
              keys == NextKeys(kept, Cardinality(new))
          IN  /\ keys \subseteq RowIds
              /\ entry' = [e \in RowIds |->
                             IF e \in keys THEN "pending" ELSE kept[e]]
              /\ \E email \in Bijection(keys, new) :
                /\ address' = [e \in RowIds |->
                                 IF e \in keys THEN email[e] ELSE address[e]]
                /\ recipient_id' = [e \in RowIds |->
                     IF e \in keys THEN RecipientOf(email[e], mailbox)
                     ELSE recipient_id[e]]
    BY <1>8, Zenon DEF AudienceCommit
  <2> DEFINE left == IF replace THEN {} ELSE Rows
             kept == [e \in RowIds |->
                        IF e \in Rows \ left THEN DeletedRow ELSE entry[e]]
             keys == NextKeys(kept, Cardinality(Added(list, left)))
  <2>2. \A e \in RowIds : e \in keys => kept[e] = "absent"
    BY NextKeysAreNew
  <2>3. DeletedRow = "gone"
    BY DEF DeletedRow
  <2>4. \A e \in RowIds :
          /\ entry'[e] = IF e \in keys THEN "pending" ELSE kept[e]
          /\ e \notin keys => address'[e] = address[e]
    BY <2>1
  <2>5. KeepsRows /\ MarksNothing
    <3> HIDE DEF keys
    <3> QED
      BY <2>2, <2>3, <2>4 DEF KeepsRows, MarksNothing
  <2> QED
    BY <1>2, <1>8, <2>5 DEF AudienceCommit
<1>9. ASSUME RecipientNext
      PROVE  Steady
  BY <1>1, <1>9, StoreIsSteady, WorkersStaySteady, RecipientPages DEF Steady
<1> QED
  BY <1>3, <1>4, <1>5, <1>6, <1>7, <1>8, <1>9
  DEF RequestNext, RequestStep, SendRead, PauseRead, ResumeRead, CancelRead,
      RetryRead, UpdateRead, AudienceRead, RemoveRead, DeleteRead

\* A step of one worker that leaves it with nothing sent to record.
Local(w) ==
  /\ \A v \in Workers \ {w} :
       pc'[v] = pc[v] /\ outcome'[v] = outcome[v] /\ batch'[v] = batch[v]
  /\ pc'[w] = "record" => outcome'[w] # "sent"
  /\ batch'[w] \subseteq batch[w]

\* A step of one worker that takes no row and reports no message as sent.
LEMMA LocalIsSteady ==
  ASSUME NEW w \in Workers, Local(w)
  PROVE  KeepsOutcomes /\ KeepsBatches
  BY DEF Local, KeepsOutcomes, KeepsBatches

\* The workers are steady but for those that fetch a batch, hand a message over
\* or write its outcome.
LEMMA WorkersAreSteady ==
  ASSUME TypeInv, NEW w \in Workers,
         Start(w) \/ WorkerStep(w) \/ WorkerFault(w)
  PROVE  Steady \/ Fetch(w) \/ Accepted(w) \/ Record(w)
<1> USE RowsTyped
<1>1. Start(w) => Local(w) /\ UNCHANGED <<entry, address, delivered>>
  BY DEF Local, Start, Goto
<1>2. Exit(w) => Local(w) /\ UNCHANGED <<entry, address, delivered>>
  BY DEF Local, Exit, Goto
<1>3. Crash(w) => Local(w) /\ UNCHANGED <<entry, address, delivered>>
  BY DEF Local, Crash, Goto, Forget
<1>4. Poll(w) => Local(w) /\ UNCHANGED <<entry, address, delivered>>
  BY DEF Local, Poll, Goto
<1>5. ClaimNothing(w) => Local(w) /\ UNCHANGED <<entry, address, delivered>>
  BY DEF Local, ClaimNothing, Goto
<1>6. Claim(w) => Local(w) /\ UNCHANGED <<entry, address, delivered>>
  BY DEF Local, Claim, Goto, TakeOver
<1>7. ClaimRead(w) => Local(w) /\ UNCHANGED <<entry, address, delivered>>
  BY DEF Local, ClaimRead, Goto
<1>8. ClaimWrite(w) => Local(w) /\ UNCHANGED <<entry, address, delivered>>
  BY DEF Local, ClaimWrite, Goto, TakeOver
<1>9. ClaimStale(w) => Local(w) /\ UNCHANGED <<entry, address, delivered>>
  BY DEF Local, ClaimStale, Goto, Forget
<1>10. Load(w) => Local(w) /\ UNCHANGED <<entry, address, delivered>>
  BY DEF Local, Load, Goto
<1>11. LoadNothing(w) => Local(w) /\ UNCHANGED <<entry, address, delivered>>
  BY DEF Local, LoadNothing, Goto, Forget
<1>12. Connect(w) => Local(w) /\ UNCHANGED <<entry, address, delivered>>
  BY DEF Local, Connect, Goto
<1>13. Fail(w) => Local(w) /\ UNCHANGED <<entry, address, delivered>>
  BY DEF Local, Fail, Goto
<1>14. CheckStatus(w) => Local(w) /\ UNCHANGED <<entry, address, delivered>>
  BY DEF Local, CheckStatus, Goto
<1>15. Finish(w) => Local(w) /\ UNCHANGED <<entry, address, delivered>>
  BY DEF Local, Finish, Goto
<1>16. EndBatch(w) => Local(w)
  BY DEF Local, EndBatch, Goto, Flush
<1>17. Renew(w) => Local(w)
  BY DEF Local, Renew, Goto, Flush
<1>18. StaleFlush(w) => Local(w) /\ UNCHANGED <<entry, address, delivered>>
  BY DEF Local, StaleFlush, Goto, Forget
<1>19. CheckRecipient(w) => Local(w) /\ UNCHANGED <<entry, address, delivered>>
  BY DEF Local, CheckRecipient, Goto
<1>20. Skip(w) => Local(w) /\ UNCHANGED <<entry, address, delivered>>
  BY DEF Local, Skip, Goto
<1>21. DryRun(w) => Local(w) /\ UNCHANGED <<entry, address, delivered>>
  BY DEF Local, DryRun, Goto, Conclude
<1>22. Refused(w) => Local(w) /\ UNCHANGED <<entry, address, delivered>>
  BY DEF Local, Refused, Goto, Conclude
<1>23. ReplyLost(w) => Local(w)
  BY DEF Local, ReplyLost, Goto, Conclude
<1>24. RecordStale(w) => Local(w) /\ UNCHANGED <<entry, address, delivered>>
  BY DEF Local, RecordStale, Goto, Forget
<1>25. Leave(w) => Local(w) /\ UNCHANGED <<entry, address, delivered>>
  BY DEF Local, Leave, Goto, Forget
<1>26. DbError(w) => Local(w) /\ UNCHANGED <<entry, address, delivered>>
  <2> SUFFICES ASSUME DbError(w)
               PROVE  Local(w) /\ UNCHANGED <<entry, address, delivered>>
    OBVIOUS
  <2>1. PICK to \in {"idle", "leaving"} : pc' = [pc EXCEPT ![w] = to]
    BY DEF DbError, Goto
  <2> QED
    BY <2>1 DEF Local, DbError, Forget
<1>27. EndBatch(w) \/ Renew(w) => KeepsRows /\ MarksNothing /\ KeepsDelivered
  <2> SUFFICES ASSUME EndBatch(w) \/ Renew(w)
               PROVE  KeepsRows /\ MarksNothing /\ KeepsDelivered
    OBVIOUS
  <2>1. /\ skips[w] \subseteq Rows
        /\ entry' = [e \in RowIds |-> IF e \in skips[w] THEN "skipped"
                                      ELSE entry[e]]
        /\ UNCHANGED <<address, delivered>>
    BY DEF EndBatch, Renew, Flush, Flushable
  <2> QED
    BY <2>1 DEF KeepsRows, MarksNothing, KeepsDelivered, Rows
<1>28. ReplyLost(w) => KeepsRows /\ MarksNothing /\ KeepsDelivered
  <2> SUFFICES ASSUME ReplyLost(w)
               PROVE  KeepsRows /\ MarksNothing /\ KeepsDelivered
    OBVIOUS
  <2>1. KeepsRows /\ MarksNothing
    BY DEF ReplyLost, KeepsRows, MarksNothing
  <2>2. KeepsDelivered
    BY HandOverDelivers DEF ReplyLost
  <2> QED
    BY <2>1, <2>2
<1>29. Stop(w) => Steady
  BY StoreIsSteady, WorkersStaySteady DEF Stop, Steady
<1>30. ASSUME Local(w), UNCHANGED <<entry, address, delivered>>
      PROVE  Steady
  BY <1>30, LocalIsSteady, StoreIsSteady DEF Steady
<1>31. ASSUME Local(w), KeepsRows, MarksNothing, KeepsDelivered
      PROVE  Steady
  BY <1>31, LocalIsSteady DEF Steady
<1> QED
  BY <1>1, <1>2, <1>3, <1>4, <1>5, <1>6, <1>7, <1>8, <1>9, <1>10, <1>11,
     <1>12, <1>13, <1>14, <1>15, <1>16, <1>17, <1>18, <1>19, <1>20, <1>21,
     <1>22, <1>23, <1>24, <1>25, <1>26, <1>27, <1>28, <1>29, <1>30, <1>31
  DEF WorkerStep, WorkerFault

\* A worker's batch holds keys of campaign_recipients.
LEMMA BatchKeys ==
  ASSUME TypeInv, NEW w \in Workers, NEW r \in batch[w]
  PROVE  r.id \in RowIds
<1>1. batch[w] \in SUBSET Items
  BY RowsTyped
<1> QED
  BY <1>1 DEF Items

\* A steady step makes no row say sent and forgets no delivery.
LEMMA SteadyKeepsRowsTrue ==
  ASSUME TypeInv, TypeInv', RowsAreTrue, Steady
  PROVE  RowsAreTrue'
<1>1. BatchIsFromRows'
  <2> SUFFICES ASSUME NEW w \in Workers, NEW r \in batch[w]
               PROVE  /\ entry'[r.id] # "absent"
                      /\ r.id \in Rows' => address'[r.id] = r.email
    BY DEF BatchIsFromRows, Steady, KeepsBatches
  <2>1. r.id \in RowIds
    BY BatchKeys
  <2>2. entry[r.id] # "absent" /\ (r.id \in Rows => address[r.id] = r.email)
    BY DEF RowsAreTrue, BatchIsFromRows
  <2> QED
    BY <2>1, <2>2 DEF Steady, KeepsRows, Rows
<1>2. OutcomeIsTrue'
  <2> SUFFICES ASSUME NEW w \in Workers,
                      pc'[w] = "record", outcome'[w] = "sent"
               PROVE  delivered'[Current(w)'.email] > 0
    BY DEF OutcomeIsTrue
  <2>1. /\ pc[w] = "record" /\ outcome[w] = "sent"
        /\ Current(w)' = Current(w)
    BY DEF Steady, KeepsOutcomes, Current
  <2>2. Current(w).email \in Addresses
    BY <2>1, CurrentTyped
  <2>3. delivered[Current(w).email] > 0
    BY <2>1 DEF RowsAreTrue, OutcomeIsTrue
  <2>4. delivered'[Current(w).email] > 0
    BY <2>2, <2>3 DEF Steady, KeepsDelivered
  <2> QED
    BY <2>1, <2>4
<1>3. SentWasDelivered'
  <2> SUFFICES ASSUME NEW e \in Rows', entry'[e] = "sent"
               PROVE  delivered'[address'[e]] > 0
    BY DEF SentWasDelivered
  <2>1. e \in Rows /\ entry[e] = "sent" /\ address'[e] = address[e]
    BY DEF Rows, Steady, KeepsRows, MarksNothing
  <2>2. address[e] \in Addresses
    BY <2>1, RowsTyped DEF Rows
  <2>3. delivered[address[e]] > 0
    BY <2>1 DEF RowsAreTrue, SentWasDelivered
  <2>4. delivered'[address[e]] > 0
    BY <2>2, <2>3 DEF Steady, KeepsDelivered
  <2> QED
    BY <2>1, <2>4
<1> QED
  BY <1>1, <1>2, <1>3 DEF RowsAreTrue

\* A batch is read from the rows as they are.  (ORDER BY id LIMIT)
LEMMA FetchKeepsRowsTrue ==
  ASSUME TypeInv, RowsAreTrue, NEW w \in Workers, Fetch(w)
  PROVE  RowsAreTrue'
<1>1. /\ UNCHANGED <<entry, address, delivered, outcome>>
      /\ pc'[w] # "record"
      /\ \A v \in Workers \ {w} : pc'[v] = pc[v] /\ batch'[v] = batch[v]
      /\ batch'[w] = {[id |-> e, email |-> address[e],
                        recipient |-> recipient_id[e]] : e \in FirstPending}
  BY RowsTyped DEF Fetch, Goto
<1>2. \A r \in batch'[w] : entry[r.id] # "absent" /\ address[r.id] = r.email
  <2>1. \A e \in FirstPending : entry[e] = "pending"
    BY DEF FirstPending, Pending
  <2> HIDE DEF FirstPending
  <2> QED
    BY <1>1, <2>1
<1>3. BatchIsFromRows'
  BY <1>1, <1>2 DEF RowsAreTrue, BatchIsFromRows, Rows
<1>4. OutcomeIsTrue'
  BY <1>1 DEF RowsAreTrue, OutcomeIsTrue, Current
<1>5. SentWasDelivered'
  BY <1>1 DEF RowsAreTrue, SentWasDelivered, Rows
<1> QED
  BY <1>3, <1>4, <1>5 DEF RowsAreTrue

\* The outcome sent is decided only when the mail server has the message.
LEMMA AcceptedKeepsRowsTrue ==
  ASSUME TypeInv, RowsAreTrue, NEW w \in Workers, Accepted(w)
  PROVE  RowsAreTrue'
<1> DEFINE a == Current(w).email
<1>1. /\ UNCHANGED <<entry, address, batch>>
      /\ \A v \in Workers \ {w} : pc'[v] = pc[v] /\ outcome'[v] = outcome[v]
  BY RowsTyped DEF Accepted, Conclude
<1>2. a \in Addresses
  BY CurrentTyped DEF Accepted
<1>3. delivered'[a] > 0
  BY HandOverDelivers DEF Accepted
<1>4. \A b \in Addresses : delivered[b] > 0 => delivered'[b] > 0
  BY HandOverDelivers DEF Accepted, KeepsDelivered
<1>5. BatchIsFromRows'
  BY <1>1 DEF RowsAreTrue, BatchIsFromRows, Rows
<1>6. OutcomeIsTrue'
  <2> SUFFICES ASSUME NEW v \in Workers, pc'[v] = "record", outcome'[v] = "sent"
               PROVE  delivered'[Current(v)'.email] > 0
    BY DEF OutcomeIsTrue
  <2>1. Current(v)' = Current(v)
    BY <1>1 DEF Current
  <2>2. CASE v = w
    BY <1>3, <2>1, <2>2
  <2>3. CASE v # w
    <3>1. pc[v] = "record" /\ outcome[v] = "sent"
      BY <1>1, <2>3
    <3>2. Current(v).email \in Addresses /\ delivered[Current(v).email] > 0
      BY <3>1, CurrentTyped DEF RowsAreTrue, OutcomeIsTrue
    <3> QED
      BY <1>4, <2>1, <3>2
  <2> QED
    BY <2>2, <2>3
<1>7. SentWasDelivered'
  BY <1>1, <1>4, RowsTyped DEF RowsAreTrue, SentWasDelivered, Rows
<1> QED
  BY <1>5, <1>6, <1>7 DEF RowsAreTrue

\* The outcome is written to the row the message was addressed from.
LEMMA RecordKeepsRowsTrue ==
  ASSUME TypeInv, RowsAreTrue, NEW w \in Workers, Record(w)
  PROVE  RowsAreTrue'
<1> DEFINE r == Current(w)
<1>1. /\ UNCHANGED <<address, delivered>>
      /\ pc[w] = "record" /\ pc'[w] # "record"
      /\ \A v \in Workers \ {w} :
           pc'[v] = pc[v] /\ outcome'[v] = outcome[v] /\ batch'[v] = batch[v]
      /\ batch'[w] \subseteq batch[w]
      /\ r.id \in Rows
      /\ entry' = [entry EXCEPT ![r.id] = outcome[w]]
  BY RowsTyped DEF Record, Goto
<1>2. r \in batch[w] /\ address[r.id] = r.email
  BY <1>1, CurrentTyped DEF RowsAreTrue, BatchIsFromRows
<1>3. \A e \in RowIds \ {r.id} : entry'[e] = entry[e]
  BY <1>1, RowsTyped
<1>4. entry'[r.id] = outcome[w]
  BY <1>1, RowsTyped DEF Rows
<1>5. BatchIsFromRows'
  <2> SUFFICES ASSUME NEW v \in Workers, NEW q \in batch[v]
               PROVE  /\ entry'[q.id] # "absent"
                      /\ q.id \in Rows' => address[q.id] = q.email
    BY <1>1 DEF BatchIsFromRows
  <2>1. q.id \in RowIds
    BY BatchKeys
  <2>2. CASE q.id = r.id
    BY <1>1, <1>4, <2>2, RowsTyped DEF RowsAreTrue, BatchIsFromRows
  <2>3. CASE q.id # r.id
    BY <1>3, <2>1, <2>3 DEF RowsAreTrue, BatchIsFromRows, Rows
  <2> QED
    BY <2>2, <2>3
<1>6. OutcomeIsTrue'
  <2> SUFFICES ASSUME NEW v \in Workers, pc'[v] = "record", outcome'[v] = "sent"
               PROVE  delivered[Current(v)'.email] > 0
    BY <1>1 DEF OutcomeIsTrue
  <2>1. v # w
    BY <1>1
  <2>2. Current(v)' = Current(v) /\ pc[v] = "record" /\ outcome[v] = "sent"
    BY <1>1, <2>1 DEF Current
  <2> QED
    BY <2>2 DEF RowsAreTrue, OutcomeIsTrue
<1>7. SentWasDelivered'
  <2> SUFFICES ASSUME NEW e \in RowIds, entry'[e] = "sent"
               PROVE  delivered[address[e]] > 0
    BY <1>1 DEF SentWasDelivered, Rows
  <2>1. CASE e = r.id
    BY <1>1, <1>2, <1>4, <2>1 DEF RowsAreTrue, OutcomeIsTrue
  <2>2. CASE e # r.id
    BY <1>3, <2>2 DEF RowsAreTrue, SentWasDelivered, Rows
  <2> QED
    BY <2>1, <2>2
<1> QED
  BY <1>5, <1>6, <1>7 DEF RowsAreTrue

\* On PostgreSQL, where the key of a removed row is never used again, a row says
\* sent only if its own address was handed the message, however the audience is
\* replaced while a message is under way.  (_send_campaign, update_audience)
THEOREM SentIsTrue == ASSUME ~Sqlite PROVE Spec => []SentWasDelivered
<1>1. Init => TypeInv /\ RowsAreTrue
  <2> SUFFICES ASSUME Init PROVE RowsAreTrue
    BY TypeInit
  <2>1. \A w \in Workers : pc[w] = "off" /\ batch[w] = {}
    BY DEF Init, WorkerInit
  <2>2. \A e \in RowIds : entry[e] # "sent"
    BY DEF Init, StoreInit
  <2> QED
    BY <2>1, <2>2
    DEF RowsAreTrue, BatchIsFromRows, OutcomeIsTrue, SentWasDelivered, Rows
<1>2. TypeInv /\ RowsAreTrue /\ [Next]_vars => (TypeInv /\ RowsAreTrue)'
  <2> SUFFICES ASSUME TypeInv, RowsAreTrue, [Next]_vars
               PROVE  RowsAreTrue'
    BY TypeStep
  <2>1. TypeInv'
    BY TypeStep
  <2>2. CASE RequestNext
    BY <2>1, <2>2, RequestsAreSteady, SteadyKeepsRowsTrue
  <2>3. ASSUME NEW w \in Workers, Start(w) \/ WorkerStep(w) \/ WorkerFault(w)
        PROVE  RowsAreTrue'
    BY <2>1, <2>3, WorkersAreSteady, SteadyKeepsRowsTrue, FetchKeepsRowsTrue,
       AcceptedKeepsRowsTrue, RecordKeepsRowsTrue
  <2>4. CASE Lapse
    <3>1. Steady
      BY <2>4, StoreIsSteady, WorkersStaySteady DEF Lapse, Steady
    <3> QED
      BY <2>1, <3>1, SteadyKeepsRowsTrue
  <2>5. CASE UNCHANGED vars
    BY <2>1, <2>5, StoreIsSteady, WorkersStaySteady, SteadyKeepsRowsTrue
    DEF Steady
  <2> QED
    BY <2>2, <2>3, <2>4, <2>5 DEF Next, WorkerNext
<1>3. RowsAreTrue => SentWasDelivered
  BY DEF RowsAreTrue
<1> QED
  BY <1>1, <1>2, <1>3, PTL DEF Spec

=============================================================================
