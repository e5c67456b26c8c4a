--------------------------- MODULE DirectoryProofs ---------------------------
(***************************************************************************)
(* What is proved of Directory for any number of lists, people, instances, *)
(* requests, drafts and providers.                                         *)
(***************************************************************************)
EXTENDS Directory, TLAPS

USE DEF Ids, Idle, WorkerStates, Ended, providerVars, listVars, draftVars,
        requestVars, workerVars, vars

-----------------------------------------------------------------------------
(* Type correctness *)

\* What a request has read, by what it is about to do.
EditRead   == [op : {"edit"}, id : Ids, on : BOOLEAN, import : BOOLEAN]
DeleteRead == [op : {"delete"}, id : Ids, lists : SUBSET Lists,
               drafts : SUBSET Tokens, rows : [Lists -> ListRow]]
SearchRead == [op : {"search"}, id : Ids, stamp : 0..MaxProviders]
FinishRead == [op : {"finish"}, token : Tokens]
ClaimRead  == [op : {"claim"}, token : Tokens, found : 0..MaxProviders]
ImportRead == [op : {"import"}, token : Tokens, found : 0..MaxProviders,
               target : Lists \cup {0}, by_name : BOOLEAN,
               seen : [row : ListRow, members : SUBSET People]]
ToggleRead == [op : {"toggle"}, list : Lists, sync : BOOLEAN]
SyncRead   == [op : {"sync"}, list : Lists]

IsRead(r) ==
  \/ r = Idle
  \/ r \in EditRead \/ r \in DeleteRead \/ r \in SearchRead
  \/ r \in FinishRead \/ r \in ClaimRead \/ r \in ImportRead
  \/ r \in ToggleRead \/ r \in SyncRead

RequestTypes == \A s \in Sessions : IsRead(request[s])

RequestDomain == DOMAIN request = Sessions

\* What the worker holds is typed as long as nobody moves.
WorkersTyped ==
  /\ lock \in [Lists -> Instances \cup {Nobody}]
  /\ pc \in [Instances -> WorkerStates]
  /\ todo \in [Instances -> SUBSET Lists]
  /\ current \in [Instances -> Lists \cup {0}]
  /\ \A w \in Instances : current[w] # 0 <=> pc[w] = "searching"
  /\ \A l \in Lists : lock[l] # Nobody => current[lock[l]] = l

RowsTyped ==
  /\ list \in [Lists -> ListRow]
  /\ members \in [Lists -> SUBSET People]
  /\ draft \in [Tokens -> DraftRow]
  /\ DOMAIN imports = Tokens
  /\ crossed \subseteq Lists

ProvidersTyped ==
  /\ stamp \in [Ids -> 0..MaxProviders]
  /\ enabled \subseteq Ids
  /\ allow_import \subseteq Ids
  /\ created \in 0..MaxProviders

OpsTyped ==
  /\ requests \in 0..MaxRequests
  /\ \A s \in Sessions :
       request[s].op \in {"idle", "edit", "delete", "search", "finish", "claim",
                          "import", "toggle", "sync"}

TypeInv ==
  /\ database \in Databases
  /\ WorkersTyped
  /\ RowsTyped
  /\ ProvidersTyped
  /\ OpsTyped
  /\ RequestTypes
  /\ RequestDomain

\* These are the types, with what a request has read.
LEMMA TypeInvType == TypeInv => TypeOK
  BY DEF TypeInv, TypeOK, StateTypeOK, WorkersTyped, RowsTyped, ProvidersTyped,
         OpsTyped

\* A session that has read a list, a draft or a provider has read one of them,
\* and the other sessions what they had.
LEMMA RequestReads ==
  ASSUME TypeInv, NEW s \in Sessions, NEW r,
         request' = [request EXCEPT ![s] = r], IsRead(r)
  PROVE  /\ RequestTypes' /\ RequestDomain'
         /\ \A v \in Sessions :
              request'[v].op \in {"idle", "edit", "delete", "search", "finish",
                                  "claim", "import", "toggle", "sync"}
<1>1. /\ DOMAIN request' = Sessions
      /\ \A v \in Sessions : request'[v] = IF v = s THEN r ELSE request[v]
  BY DEF TypeInv, RequestDomain
<1>2. \A v \in Sessions : IsRead(request'[v])
  BY <1>1 DEF TypeInv, RequestTypes
<1>3. \A q : IsRead(q) => q.op \in {"idle", "edit", "delete", "search", "finish",
                                   "claim", "import", "toggle", "sync"}
  BY DEF IsRead, EditRead, DeleteRead, SearchRead, FinishRead, ClaimRead,
         ImportRead, ToggleRead, SyncRead
<1>4. RequestTypes'
  BY <1>2 DEF RequestTypes, IsRead, EditRead, DeleteRead, SearchRead,
              FinishRead, ClaimRead, ImportRead, ToggleRead, SyncRead
<1> QED
  BY <1>1, <1>2, <1>3, <1>4 DEF RequestDomain

\* A session that is done has read nothing.
LEMMA DoneTyped ==
  ASSUME TypeInv, NEW s \in Sessions, Done(s), UNCHANGED requests
  PROVE  RequestTypes' /\ RequestDomain' /\ OpsTyped'
<1>1. IsRead(Idle)
  BY DEF IsRead
<1> QED
  BY <1>1, RequestReads DEF Done, TypeInv, OpsTyped

\* What a session has read is told by its operation.
LEMMA ReadByOp ==
  ASSUME TypeInv, NEW s \in Sessions
  PROVE  LET r == request[s]
         IN  /\ r.op = "edit" => r \in EditRead
             /\ r.op = "delete" => r \in DeleteRead
             /\ r.op = "search" => r \in SearchRead
             /\ r.op = "finish" => r \in FinishRead
             /\ r.op = "claim" => r \in ClaimRead
             /\ r.op = "import" => r \in ImportRead
             /\ r.op = "toggle" => r \in ToggleRead
             /\ r.op = "sync" => r \in SyncRead
<1>1. \A q : IsRead(q) =>
        /\ q.op = "edit" => q \in EditRead
        /\ q.op = "delete" => q \in DeleteRead
        /\ q.op = "search" => q \in SearchRead
        /\ q.op = "finish" => q \in FinishRead
        /\ q.op = "claim" => q \in ClaimRead
        /\ q.op = "import" => q \in ImportRead
        /\ q.op = "toggle" => q \in ToggleRead
        /\ q.op = "sync" => q \in SyncRead
  BY DEF IsRead, EditRead, DeleteRead, SearchRead, FinishRead, ClaimRead,
         ImportRead, ToggleRead, SyncRead
<1> QED
  BY <1>1 DEF TypeInv, RequestTypes

\* Drafts that end are drafts still.
LEMMA EndingTyped ==
  ASSUME RowsTyped, NEW tokens, NEW how \in Ended
  PROVE  Ending(tokens, how) \in [Tokens -> DraftRow]
<1>1. \A t \in Tokens :
        [draft[t] EXCEPT !.row = how, !.expired = FALSE, !.people = {}] \in DraftRow
  BY DEF RowsTyped, DraftRow
<1> QED
  BY <1>1 DEF RowsTyped, Ending

\* A list keeps its type when a sync is recorded.
LEMMA RecordedTyped ==
  ASSUME RowsTyped, NEW l \in Lists, NEW status \in {"ok", "error"}
  PROVE  Recorded(list[l], status) \in ListRow
  BY DEF RowsTyped, ListRow, Recorded

\* And when its provider is deleted.
LEMMA DetachedTyped ==
  ASSUME RowsTyped, NEW r, NEW l \in Lists
  PROVE  Detached(r, l) \in ListRow
<1>1. list[l] \in ListRow /\ 0 \in 0..MaxProviders
  BY DirectoryAssumption DEF RowsTyped, DirectoryAssumption
<1>2. ASSUME NEW a \in BOOLEAN, NEW b \in {"never", "due", "fresh"},
             NEW c \in {"", "ok", "error"}
      PROVE  [list[l] EXCEPT !.profile = 0, !.sync_enabled = a, !.synced = b,
                             !.status = c] \in ListRow
  BY <1>1 DEF ListRow
<1>3. /\ list[l].sync_enabled \in BOOLEAN
      /\ list[l].synced \in {"never", "due", "fresh"}
      /\ list[l].status \in {"", "ok", "error"}
  BY <1>1 DEF ListRow
<1>4. /\ Written(FALSE, r.rows[l].sync_enabled, list[l].sync_enabled)
           \in BOOLEAN
      /\ (IF r.rows[l].status # "error" THEN "fresh" ELSE list[l].synced)
           \in {"never", "due", "fresh"}
      /\ Written("error", r.rows[l].status, list[l].status)
           \in {"", "ok", "error"}
  BY <1>3 DEF Written
<1> QED
  BY <1>2, <1>4 DEF Detached

\* So does a new one.
LEMMA NewListTyped ==
  ASSUME NEW state \in {"none", "live", "gone"}
  PROVE  NewList(state) \in ListRow
  BY DirectoryAssumption DEF DirectoryAssumption, NewList, ListRow

\* A request of the web application leaves the workers where they are.
LEMMA RequestsLeaveWorkers ==
  Requests => UNCHANGED <<database, workerVars>>
  BY
  DEF Requests, Providing, Wizard, ListsPage, NotWorkers, create_provider,
      update_provider, SaveProvider, delete_provider, DeleteProvider,
      ldap_search, SaveDraft, SearchFails, finish, CheckProvider, ReadTarget,
      ClaimAndImport, cancel, Expire, create_list, delete_list,
      toggle_list_sync, CommitToggle, edit_members, sync_list_now,
      FinishSyncNow, SyncNowFails

\* An import makes a row of a row, from the draft or as it was.
LEMMA ImportedTyped ==
  ASSUME TypeInv, NEW r, r.token \in Tokens, NEW row \in ListRow,
         NEW keep \in BOOLEAN
  PROVE  LET is == Imported(r, row, keep)
             was == Seen(r).row
             d == draft[r.token]
         IN  /\ is \in ListRow
             /\ is.row = "live"
             /\ is.profile = Written(d.id, was.profile, row.profile)
             /\ is.filter = Written(d.filter, was.filter, row.filter)
             /\ is.sync_enabled = Written(keep, was.sync_enabled,
                                         row.sync_enabled)
             /\ is.synced = row.synced /\ is.status = row.status
<1> DEFINE was == Seen(r).row
           d == draft[r.token]
           profile == Written(d.id, was.profile, row.profile)
           filter == Written(d.filter, was.filter, row.filter)
           own == filter = d.filter /\ ~(d.id = was.profile /\ d.filter = was.filter)
           query == IF own THEN d.stamp ELSE row.query
           sync == Written(keep, was.sync_enabled, row.sync_enabled)
<1>1. d \in DraftRow
  BY DEF TypeInv, RowsTyped
<1>2. /\ profile \in 0..MaxProviders /\ query \in 0..MaxProviders
      /\ filter \in Filters \cup {"none"} /\ sync \in BOOLEAN
  BY <1>1 DEF Written, ListRow, DraftRow
<1>3. ASSUME NEW a \in 0..MaxProviders, NEW b \in 0..MaxProviders,
             NEW c \in BOOLEAN, NEW f \in Filters \cup {"none"}
      PROVE  [row EXCEPT !.row = "live", !.profile = a, !.filter = f,
                         !.query = b, !.sync_enabled = c] \in ListRow
  BY DEF ListRow
<1>4. ASSUME NEW a, NEW b, NEW c, NEW f
      PROVE  LET q == [row EXCEPT !.row = "live", !.profile = a, !.filter = f,
                                  !.query = b, !.sync_enabled = c]
             IN  /\ q.row = "live" /\ q.profile = a /\ q.filter = f
                 /\ q.sync_enabled = c
                 /\ q.synced = row.synced /\ q.status = row.status
  BY DEF ListRow
<1> DEFINE is == Imported(r, row, keep)
<1>5. is = [row EXCEPT !.row = "live", !.profile = profile, !.filter = filter,
                       !.query = query, !.sync_enabled = sync]
  BY DEF Imported
<1> HIDE DEF is, profile, filter, own, query, sync
<1>6. is \in ListRow
  BY <1>2, <1>3, <1>5
<1>7. /\ is.row = "live" /\ is.profile = profile /\ is.filter = filter
      /\ is.sync_enabled = sync
      /\ is.synced = row.synced /\ is.status = row.status
  BY <1>4, <1>5
<1> QED
  BY <1>6, <1>7 DEF is, profile, filter, sync

\* A row whose columns are written as they were is the same.
LEMMA RowByColumns ==
  \A r \in ListRow :
    [r EXCEPT !.row = r.row, !.profile = r.profile, !.filter = r.filter,
              !.query = r.query, !.sync_enabled = r.sync_enabled] = r
  BY DEF ListRow

\* A request begins within the bound.
LEMMA BeginsTyped ==
  ASSUME OpsTyped, NEW op, Begins(op)
  PROVE  requests' \in 0..MaxRequests
  BY RequestsAssumption DEF RequestsAssumption, OpsTyped, Begins

\* The handlers of the providers keep the types.
LEMMA ProvidingTyped ==
  ASSUME TypeInv, Providing
  PROVE  TypeInv'
<1> USE DEF TypeInv
<1>1. database' \in Databases /\ WorkersTyped'
  BY RequestsLeaveWorkers DEF Requests, WorkersTyped
<1>2. ASSUME NEW i \in Ids, create_provider(i)
      PROVE  TypeInv'
  <2>1. ProvidersTyped'
    BY <1>2, DirectoryAssumption
    DEF create_provider, ProvidersTyped, DirectoryAssumption
  <2>2. OpsTyped'
    BY <1>2, BeginsTyped DEF create_provider, OpsTyped
  <2>3. RowsTyped' /\ RequestTypes' /\ RequestDomain'
    BY <1>2 DEF create_provider, RowsTyped, RequestTypes, RequestDomain
  <2> QED
    BY <1>1, <2>1, <2>2, <2>3
<1>3. ASSUME NEW i \in Ids, NEW s \in Sessions, update_provider(s, i)
      PROVE  TypeInv'
  <2> DEFINE r == [op |-> "edit", id |-> i, on |-> i \in enabled,
                   import |-> i \in allow_import]
  <2>1. IsRead(r)
    BY DEF IsRead, EditRead
  <2>2. request' = [request EXCEPT ![s] = r]
    BY <1>3 DEF update_provider, Reads
  <2> HIDE DEF r
  <2>3. RequestTypes' /\ RequestDomain' /\ OpsTyped'
    BY <1>3, <2>1, <2>2, RequestReads, BeginsTyped
    DEF update_provider, OpsTyped
  <2>4. RowsTyped' /\ ProvidersTyped'
    BY <1>3 DEF update_provider, RowsTyped, ProvidersTyped
  <2> QED
    BY <1>1, <2>3, <2>4
<1>4. ASSUME NEW s \in Sessions, NEW on \in BOOLEAN, NEW import \in BOOLEAN,
             SaveProvider(s, on, import)
      PROVE  TypeInv'
  <2>1. RequestTypes' /\ RequestDomain' /\ OpsTyped'
    BY <1>4, DoneTyped DEF SaveProvider
  <2>2. ProvidersTyped'
    BY <1>4 DEF SaveProvider, Ticked, Providers, ProvidersTyped
  <2>3. RowsTyped'
    BY <1>4 DEF SaveProvider, RowsTyped
  <2> QED
    BY <1>1, <2>1, <2>2, <2>3
<1>5. ASSUME NEW i \in Ids, NEW s \in Sessions, delete_provider(s, i)
      PROVE  TypeInv'
  <2> DEFINE lists == {l \in Lists : Live(l) /\ list[l].profile = i}
             rows == [l \in Lists |-> IF l \in lists THEN list[l]
                                      ELSE NewList("none")]
             r == [op |-> "delete", id |-> i, lists |-> lists,
                   drafts |-> {t \in LiveDrafts : draft[t].id = i},
                   rows |-> rows]
  <2>0. rows \in [Lists -> ListRow]
    BY NewListTyped DEF RowsTyped
  <2>1. r \in DeleteRead
    BY <2>0 DEF DeleteRead, LiveDrafts
  <2>2. request' = [request EXCEPT ![s] = r]
    BY <1>5 DEF delete_provider, Reads
  <2> HIDE DEF r
  <2>3. IsRead(r)
    BY <2>1 DEF IsRead
  <2>4. RequestTypes' /\ RequestDomain' /\ OpsTyped'
    BY <1>5, <2>2, <2>3, RequestReads, BeginsTyped
    DEF delete_provider, OpsTyped
  <2>5. RowsTyped' /\ ProvidersTyped'
    BY <1>5 DEF delete_provider, RowsTyped, ProvidersTyped
  <2> QED
    BY <1>1, <2>4, <2>5
<1>6. ASSUME NEW s \in Sessions, DeleteProvider(s)
      PROVE  TypeInv'
  <2> DEFINE r == request[s]
  <2>1. r \in DeleteRead
    BY <1>6, ReadByOp DEF DeleteProvider
  <2>2. r.id \in Ids /\ r.lists \subseteq Lists
    BY <2>1 DEF DeleteRead
  <2>3. RequestTypes' /\ RequestDomain' /\ OpsTyped'
    BY <1>6, DoneTyped DEF DeleteProvider
  <2>4. ProvidersTyped'
    BY <1>6, <2>2, DirectoryAssumption
    DEF DeleteProvider, ProvidersTyped, DirectoryAssumption
  <2>5. \A l \in Lists : Detached(r, l) \in ListRow
    BY DetachedTyped
  <2>6. RowsTyped'
    BY <1>6, <2>2, <2>5, EndingTyped DEF DeleteProvider, RowsTyped
  <2> QED
    BY <1>1, <2>3, <2>4, <2>6
<1> QED
  BY <1>2, <1>3, <1>4, <1>5, <1>6, RequestsAssumption
  DEF Providing, RequestsAssumption

\* The handlers of the wizard keep the types.
LEMMA WizardTyped ==
  ASSUME TypeInv, Wizard
  PROVE  TypeInv'
<1> USE DEF TypeInv
<1>1. database' \in Databases /\ WorkersTyped'
  BY RequestsLeaveWorkers DEF Requests, WorkersTyped
<1>2. ASSUME NEW s \in Sessions, NEW i \in Ids, ldap_search(s, i)
      PROVE  TypeInv'
  <2> DEFINE r == [op |-> "search", id |-> i, stamp |-> stamp[i]]
  <2>1. IsRead(r)
    BY DEF IsRead, SearchRead, ProvidersTyped
  <2>2. request' = [request EXCEPT ![s] = r]
    BY <1>2 DEF ldap_search, Reads
  <2> HIDE DEF r
  <2>3. RequestTypes' /\ RequestDomain' /\ OpsTyped'
    BY <1>2, <2>1, <2>2, RequestReads, BeginsTyped DEF ldap_search, OpsTyped
  <2>4. RowsTyped' /\ ProvidersTyped'
    BY <1>2 DEF ldap_search, RowsTyped, ProvidersTyped
  <2> QED
    BY <1>1, <2>3, <2>4
<1>3. ASSUME NEW s \in Sessions, NEW t \in Tokens,
             NEW filter \in Filters, NEW people \in SUBSET People,
             SaveDraft(s, t, filter, people)
      PROVE  TypeInv'
  <2>1. RequestTypes' /\ RequestDomain' /\ OpsTyped'
    BY <1>3, DoneTyped DEF SaveDraft
  <2>2. request[s].id \in Ids /\ request[s].stamp \in 0..MaxProviders
    BY <1>3, ReadByOp DEF SaveDraft, SearchRead
  <2>3. [row |-> "live", expired |-> FALSE, id |-> request[s].id,
         stamp |-> request[s].stamp, filter |-> filter,
         people |-> people] \in DraftRow
    BY <2>2, DirectoryAssumption DEF DraftRow, DirectoryAssumption
  <2>4. Swept \in [Tokens -> DraftRow]
    BY EndingTyped DEF Swept
  <2>5. RowsTyped' /\ ProvidersTyped'
    BY <1>3, <2>3, <2>4 DEF SaveDraft, RowsTyped, ProvidersTyped
  <2> QED
    BY <1>1, <2>1, <2>5
<1>4. ASSUME NEW s \in Sessions, SearchFails(s)
      PROVE  TypeInv'
  <2>1. RequestTypes' /\ RequestDomain' /\ OpsTyped'
    BY <1>4, DoneTyped DEF SearchFails
  <2>2. RowsTyped' /\ ProvidersTyped'
    BY <1>4 DEF SearchFails, RowsTyped, ProvidersTyped
  <2> QED
    BY <1>1, <2>1, <2>2
<1>5. ASSUME NEW s \in Sessions, NEW t \in Tokens, finish(s, t)
      PROVE  TypeInv'
  <2> DEFINE r == [op |-> "finish", token |-> t]
  <2>1. IsRead(r)
    BY DEF IsRead, FinishRead
  <2>2. request' = [request EXCEPT ![s] = r]
    BY <1>5 DEF finish, Reads
  <2> HIDE DEF r
  <2>3. RequestTypes' /\ RequestDomain' /\ OpsTyped'
    BY <1>5, <2>1, <2>2, RequestReads, BeginsTyped DEF finish, OpsTyped
  <2>4. RowsTyped' /\ ProvidersTyped'
    BY <1>5 DEF finish, RowsTyped, ProvidersTyped
  <2> QED
    BY <1>1, <2>3, <2>4
<1>6. ASSUME NEW s \in Sessions, CheckProvider(s)
      PROVE  TypeInv'
  <2> DEFINE t == request[s].token
             q == [op |-> "claim", token |-> t, found |-> stamp[draft[t].id]]
  <2>1. t \in Tokens
    BY <1>6, ReadByOp DEF CheckProvider, FinishRead
  <2>2. ProvidersTyped' /\ requests' = requests
    BY <1>6 DEF CheckProvider, ProvidersTyped
  <2>3. CASE IsStillOpen(t)
    <3>1. stamp[draft[t].id] \in 0..MaxProviders
      BY <2>3 DEF IsStillOpen, Providers, ProvidersTyped
    <3>2. IsRead(q)
      BY <2>1, <3>1 DEF IsRead, ClaimRead
    <3>3. request' = [request EXCEPT ![s] = q] /\ draft' = draft
      BY <1>6, <2>3 DEF CheckProvider
    <3> HIDE DEF q
    <3>4. RequestTypes' /\ RequestDomain' /\ OpsTyped'
      BY <2>2, <3>2, <3>3, RequestReads DEF OpsTyped
    <3>5. RowsTyped'
      BY <1>6, <3>3 DEF CheckProvider, RowsTyped
    <3> QED
      BY <1>1, <2>2, <3>4, <3>5
  <2>4. CASE ~IsStillOpen(t)
    <3>1. RequestTypes' /\ RequestDomain' /\ OpsTyped'
      BY <1>6, <2>2, <2>4, DoneTyped DEF CheckProvider
    <3>2. RowsTyped'
      BY <1>6, <2>4, EndingTyped DEF CheckProvider, RowsTyped
    <3> QED
      BY <1>1, <2>2, <3>1, <3>2
  <2> QED
    BY <2>3, <2>4
<1>7. ASSUME NEW s \in Sessions, NEW l \in Lists \cup {0},
             NEW by_name \in BOOLEAN, ReadTarget(s, l, by_name)
      PROVE  TypeInv'
  <2> DEFINE m == IF IS_SQLITE THEN 0 ELSE l
             q == [op |-> "import", token |-> request[s].token,
                   found |-> request[s].found, target |-> l,
                   by_name |-> by_name, seen |-> Target(m)]
  <2>1. request[s].token \in Tokens /\ request[s].found \in 0..MaxProviders
    BY <1>7, ReadByOp DEF ReadTarget, ClaimRead
  <2>2. Target(m) \in [row : ListRow, members : SUBSET People]
    BY NewListTyped DEF Target, Copy, RowsTyped
  <2>3. IsRead(q)
    BY <2>1, <2>2 DEF IsRead, ImportRead
  <2>4. request' = [request EXCEPT ![s] = q]
    BY <1>7 DEF ReadTarget
  <2> HIDE DEF q
  <2>5. RequestTypes' /\ RequestDomain' /\ OpsTyped'
    BY <1>7, <2>3, <2>4, RequestReads DEF ReadTarget, OpsTyped
  <2>6. RowsTyped' /\ ProvidersTyped'
    BY <1>7 DEF ReadTarget, RowsTyped, ProvidersTyped
  <2> QED
    BY <1>1, <2>5, <2>6
<1>10. ASSUME NEW s \in Sessions, NEW keep \in BOOLEAN, ClaimAndImport(s, keep)
      PROVE  TypeInv'
  <2> DEFINE r == request[s]
             t == r.token
             l == r.target
             row == Imported(r, list[l], keep)
  <2>1. t \in Tokens /\ l \in Lists \cup {0}
    BY <1>10, ReadByOp DEF ClaimAndImport, ImportRead
  <2>2. RequestTypes' /\ RequestDomain' /\ OpsTyped' /\ ProvidersTyped'
    BY <1>10, DoneTyped DEF ClaimAndImport, ProvidersTyped
  <2>3. draft' \in [Tokens -> DraftRow]
    BY <1>10, EndingTyped DEF ClaimAndImport, RowsTyped
  <2>4. Joining(r) \subseteq People
    BY <2>1 DEF Joining, RowsTyped, DraftRow
  <2>5. ASSUME l # 0
        PROVE  row \in ListRow
    <3>1. list[l] \in ListRow
      BY <2>1, <2>5 DEF RowsTyped
    <3> QED
      BY <2>1, <3>1, ImportedTyped
  <2>6. DOMAIN imports' = Tokens
    BY <1>10 DEF ClaimAndImport, RowsTyped
  <2>7. ASSUME UNCHANGED <<list, members, crossed>>
        PROVE  RowsTyped'
    BY <2>3, <2>7, <2>6 DEF RowsTyped
  <2>8. ASSUME /\ l # 0
               /\ members' = [members EXCEPT ![l] = @ \cup Joining(r)]
               /\ list' = [list EXCEPT ![l] = row]
               /\ crossed' \in {crossed, crossed \ {l}, crossed \cup {l}}
        PROVE  RowsTyped'
    <3>1. l \in Lists
      BY <2>1, <2>8
    <3>2. list' \in [Lists -> ListRow]
      BY <2>5, <2>8, <3>1 DEF RowsTyped
    <3>3. members' \in [Lists -> SUBSET People]
      BY <2>4, <2>8, <3>1 DEF RowsTyped
    <3>4. crossed' \subseteq Lists
      BY <2>8, <3>1 DEF RowsTyped
    <3> QED
      BY <2>3, <2>6, <3>2, <3>3, <3>4 DEF RowsTyped
  <2>9. \/ UNCHANGED <<list, members, crossed>>
        \/ /\ l # 0
           /\ members' = [members EXCEPT ![l] = @ \cup Joining(r)]
           /\ list' = [list EXCEPT ![l] = row]
           /\ crossed' \in {crossed, crossed \ {l}, crossed \cup {l}}
    BY <1>10 DEF ClaimAndImport, HasTarget
  <2>10. RowsTyped'
    BY <2>7, <2>8, <2>9
  <2> QED
    BY <1>1, <2>2, <2>10
<1>8. ASSUME NEW t \in Tokens, cancel(t)
      PROVE  TypeInv'
  <2>1. OpsTyped'
    BY <1>8, BeginsTyped DEF cancel, OpsTyped
  <2>2. RowsTyped'
    BY <1>8, EndingTyped DEF cancel, RowsTyped
  <2>3. ProvidersTyped' /\ RequestTypes' /\ RequestDomain'
    BY <1>8 DEF cancel, ProvidersTyped, RequestTypes, RequestDomain
  <2> QED
    BY <1>1, <2>1, <2>2, <2>3
<1>9. ASSUME NEW t \in Tokens, Expire(t)
      PROVE  TypeInv'
  <2>1. [draft[t] EXCEPT !.expired = TRUE] \in DraftRow
    BY DEF RowsTyped, DraftRow
  <2>2. draft' = [draft EXCEPT ![t] = [draft[t] EXCEPT !.expired = TRUE]]
    BY <1>9 DEF Expire, RowsTyped
  <2>3. RowsTyped'
    BY <1>9, <2>1, <2>2 DEF Expire, RowsTyped
  <2>4. ProvidersTyped' /\ OpsTyped' /\ RequestTypes' /\ RequestDomain'
    BY <1>9 DEF Expire, ProvidersTyped, OpsTyped, RequestTypes, RequestDomain
  <2> QED
    BY <1>1, <2>3, <2>4
<1> QED
  BY <1>2, <1>3, <1>4, <1>5, <1>6, <1>7, <1>8, <1>9, <1>10 DEF Wizard

\* The handlers of the Lists page keep the types.
LEMMA ListsPageTyped ==
  ASSUME TypeInv, ListsPage
  PROVE  TypeInv'
<1> USE DEF TypeInv
<1>1. database' \in Databases /\ WorkersTyped'
  BY RequestsLeaveWorkers DEF Requests, WorkersTyped
<1>2. ASSUME NEW l \in Lists, create_list(l) \/ delete_list(l)
      PROVE  TypeInv'
  <2>1. OpsTyped'
    BY <1>2, BeginsTyped DEF create_list, delete_list, OpsTyped
  <2>2. RowsTyped'
    BY <1>2, NewListTyped DEF create_list, delete_list, RowsTyped
  <2>3. ProvidersTyped' /\ RequestTypes' /\ RequestDomain'
    BY <1>2
    DEF create_list, delete_list, ProvidersTyped, RequestTypes, RequestDomain
  <2> QED
    BY <1>1, <2>1, <2>2, <2>3
<1>3. ASSUME NEW s \in Sessions, NEW l \in Lists, toggle_list_sync(s, l)
      PROVE  TypeInv'
  <2> DEFINE r == [op |-> "toggle", list |-> l, sync |-> list[l].sync_enabled]
  <2>1. list[l].sync_enabled \in BOOLEAN
    BY DEF RowsTyped, ListRow
  <2>2. IsRead(r)
    BY <2>1 DEF IsRead, ToggleRead
  <2>3. request' = [request EXCEPT ![s] = r]
    BY <1>3 DEF toggle_list_sync, Reads
  <2> HIDE DEF r
  <2>4. RequestTypes' /\ RequestDomain' /\ OpsTyped'
    BY <1>3, <2>2, <2>3, RequestReads, BeginsTyped
    DEF toggle_list_sync, OpsTyped
  <2>5. RowsTyped' /\ ProvidersTyped'
    BY <1>3 DEF toggle_list_sync, RowsTyped, ProvidersTyped
  <2> QED
    BY <1>1, <2>4, <2>5
<1>8. ASSUME NEW s \in Sessions, CommitToggle(s)
      PROVE  TypeInv'
  <2> DEFINE l == request[s].list
             b == ~request[s].sync
  <2>1. l \in Lists /\ b \in BOOLEAN
    BY <1>8, ReadByOp DEF CommitToggle, ToggleRead
  <2>2. list' = list \/ list' = [list EXCEPT ![l].sync_enabled = b]
    BY <1>8 DEF CommitToggle
  <2> HIDE DEF b
  <2>7. \A row \in ListRow, c \in BOOLEAN :
          [row EXCEPT !.sync_enabled = c] \in ListRow
    BY DEF ListRow
  <2>3. [list[l] EXCEPT !.sync_enabled = b] \in ListRow
    BY <2>1, <2>7 DEF RowsTyped
  <2>4. list' \in [Lists -> ListRow]
    BY <2>1, <2>2, <2>3 DEF RowsTyped
  <2>5. RowsTyped' /\ ProvidersTyped'
    BY <1>8, <2>4 DEF CommitToggle, RowsTyped, ProvidersTyped
  <2>6. RequestTypes' /\ RequestDomain' /\ OpsTyped'
    BY <1>8, DoneTyped DEF CommitToggle
  <2> QED
    BY <1>1, <2>5, <2>6
<1>4. ASSUME NEW l \in Lists, NEW p \in People, edit_members(l, p)
      PROVE  TypeInv'
  <2>1. OpsTyped'
    BY <1>4, BeginsTyped DEF edit_members, OpsTyped
  <2>2. RowsTyped'
    BY <1>4 DEF edit_members, RowsTyped
  <2>3. ProvidersTyped' /\ RequestTypes' /\ RequestDomain'
    BY <1>4 DEF edit_members, ProvidersTyped, RequestTypes, RequestDomain
  <2> QED
    BY <1>1, <2>1, <2>2, <2>3
<1>5. ASSUME NEW s \in Sessions, NEW l \in Lists, sync_list_now(s, l)
      PROVE  TypeInv'
  <2>1. ProvidersTyped' /\ requests' \in 0..MaxRequests
    BY <1>5, BeginsTyped DEF sync_list_now, ProvidersTyped
  <2>2. RowsTyped'
    BY <1>5, RecordedTyped DEF sync_list_now, RowsTyped
  <2>3. CASE request' = request
    BY <1>1, <2>1, <2>2, <2>3 DEF OpsTyped, RequestTypes, RequestDomain
  <2>4. CASE request' = [request EXCEPT ![s] = [op |-> "sync", list |-> l]]
    <3>1. IsRead([op |-> "sync", list |-> l])
      BY DEF IsRead, SyncRead
    <3>2. RequestTypes' /\ RequestDomain' /\ OpsTyped'
      BY <2>1, <2>4, <3>1, RequestReads DEF OpsTyped
    <3> QED
      BY <1>1, <2>1, <2>2, <3>2
  <2> QED
    BY <1>5, <2>3, <2>4 DEF sync_list_now, Reads
<1>6. ASSUME NEW s \in Sessions, NEW found \in SUBSET People,
             FinishSyncNow(s, found)
      PROVE  TypeInv'
  <2>1. ProvidersTyped' /\ RequestTypes' /\ RequestDomain' /\ OpsTyped'
    BY <1>6, DoneTyped DEF FinishSyncNow, ProvidersTyped
  <2>2. RowsTyped'
    BY <1>6, RecordedTyped DEF FinishSyncNow, RowsTyped
  <2> QED
    BY <1>1, <2>1, <2>2
<1>7. ASSUME NEW s \in Sessions, SyncNowFails(s)
      PROVE  TypeInv'
  <2>1. ProvidersTyped' /\ RequestTypes' /\ RequestDomain' /\ OpsTyped'
    BY <1>7, DoneTyped DEF SyncNowFails, ProvidersTyped
  <2>2. RowsTyped'
    BY <1>7, RecordedTyped DEF SyncNowFails, RowsTyped
  <2> QED
    BY <1>1, <2>1, <2>2
<1> QED
  BY <1>2, <1>3, <1>4, <1>5, <1>6, <1>7, <1>8 DEF ListsPage

\* A worker that has come to the end of a list, or of its pass, holds no row.
LEMMA EndPassTyped ==
  ASSUME WorkersTyped, NEW w \in Instances,
         EndPass(w) \/ (NextList(w) /\ UNCHANGED todo)
  PROVE  WorkersTyped'
<1>1. /\ current' = [current EXCEPT ![w] = 0]
      /\ pc' \in [Instances -> WorkerStates]
      /\ pc'[w] # "searching"
      /\ \A v \in Instances : v # w => pc'[v] = pc[v]
      /\ todo' \in [Instances -> SUBSET Lists]
  BY DEF EndPass, NextList, WorkersTyped
<1>2. \A l \in Lists : lock'[l] = IF lock[l] = w THEN Nobody ELSE lock[l]
  BY DEF EndPass, NextList, Release
<1>3. lock' \in [Lists -> Instances \cup {Nobody}]
  BY DEF EndPass, NextList, Release, WorkersTyped
<1>4. current' \in [Instances -> Lists \cup {0}]
      /\ \A v \in Instances : current'[v] # 0 <=> pc'[v] = "searching"
  BY <1>1 DEF WorkersTyped
<1>5. \A l \in Lists : lock'[l] # Nobody => current'[lock'[l]] = l
  BY <1>1, <1>2 DEF WorkersTyped
<1> QED
  BY <1>1, <1>3, <1>4, <1>5 DEF WorkersTyped

\* A sync worker keeps the types: it records one outcome for the list it is at,
\* and locks only that one.
LEMMA SyncTyped ==
  ASSUME TypeInv, Sync
  PROVE  TypeInv'
<1> USE DEF TypeInv
<1>1. PICK w \in Instances : SyncStep(w) \/ Restart(w)
  BY DEF Sync
<1>2. UNCHANGED <<database, stamp, enabled, allow_import, created, request,
                  requests, imports, crossed>>
  BY <1>1
  DEF SyncStep, Restart, StartPass, EndOfPass, SkipList, TakeList, RefuseList,
      RecordFailure, FlushFails, FinishList, Elsewhere
<1>3. database' \in Databases /\ ProvidersTyped' /\ OpsTyped' /\ RequestTypes'
        /\ RequestDomain'
  BY <1>2 DEF ProvidersTyped, OpsTyped, RequestTypes, RequestDomain
<1>4. ASSUME WorkersTyped', RowsTyped' PROVE TypeInv'
  BY <1>3, <1>4
<1>5. ASSUME StartPass(w)
      PROVE  TypeInv'
  <2>1. RowsTyped'
    BY <1>2, <1>5, EndingTyped DEF StartPass, RowsTyped, Swept
  <2>2. WorkersTyped'
    BY <1>5 DEF StartPass, WorkersTyped
  <2> QED
    BY <1>4, <2>1, <2>2
<1>6. ASSUME EndOfPass(w) \/ FlushFails(w) \/ Restart(w)
      PROVE  TypeInv'
  <2>1. RowsTyped'
    BY <1>2, <1>6 DEF EndOfPass, FlushFails, Restart, RowsTyped
  <2>2. WorkersTyped'
    BY <1>6, EndPassTyped DEF EndOfPass, FlushFails, Restart
  <2> QED
    BY <1>4, <2>1, <2>2
<1>7. ASSUME NEW l \in Lists, SkipList(w, l) \/ TakeList(w, l)
      PROVE  TypeInv'
  <2>1. RowsTyped'
    BY <1>2, <1>7 DEF SkipList, TakeList, RowsTyped
  <2>2. CASE SkipList(w, l)
    BY <1>4, <2>1, <2>2 DEF SkipList, WorkersTyped
  <2>3. CASE TakeList(w, l)
    <3>1. current[w] = 0 /\ w # Nobody /\ l # 0
      BY <2>3, DirectoryAssumption
      DEF TakeList, WorkersTyped, DirectoryAssumption
    <3>2. \A m \in Lists : lock[m] # w
      BY <3>1, DirectoryAssumption DEF WorkersTyped, DirectoryAssumption
    <3>3. current' = [current EXCEPT ![w] = l]
          /\ pc' = [pc EXCEPT ![w] = "searching"]
          /\ todo' = [todo EXCEPT ![w] = @ \ {l}]
          /\ (lock' = lock \/ lock' = [lock EXCEPT ![l] = w])
      BY <2>3 DEF TakeList
    <3>4. WorkersTyped'
      BY <3>1, <3>2, <3>3 DEF WorkersTyped
    <3> QED
      BY <1>4, <2>1, <3>4
  <2> QED
    BY <1>7, <2>2, <2>3
<1>8. ASSUME NEW l \in Lists, RefuseList(w, l)
      PROVE  TypeInv'
  <2>1. RowsTyped'
    BY <1>2, <1>8, RecordedTyped DEF RefuseList, RowsTyped
  <2>2. WorkersTyped'
    BY <1>8, EndPassTyped DEF RefuseList, WorkersTyped
  <2> QED
    BY <1>4, <2>1, <2>2
<1>9. ASSUME \/ RecordFailure(w)
             \/ \E found \in SUBSET People : FinishList(w, found)
      PROVE  TypeInv'
  <2>1. current[w] \in Lists
    BY <1>9 DEF RecordFailure, FinishList, WorkersTyped
  <2>2. RowsTyped'
    BY <1>2, <1>9, <2>1, RecordedTyped
    DEF RecordFailure, FinishList, RowsTyped
  <2>3. WorkersTyped'
    BY <1>9, EndPassTyped DEF RecordFailure, FinishList
  <2> QED
    BY <1>4, <2>2, <2>3
<1> QED
  BY <1>1, <1>5, <1>6, <1>7, <1>8, <1>9 DEF SyncStep

\* The first state is well typed.
LEMMA TypeInit == Init => TypeInv
<1> SUFFICES ASSUME Init PROVE TypeInv
  OBVIOUS
<1> USE DirectoryAssumption DEF DirectoryAssumption
<1>1. WorkersTyped
  BY DEF Init, WorkersTyped
<1>2. NewList("none") \in ListRow
  BY NewListTyped
<1>3. [row |-> "live", profile |-> 1, filter |-> CHOOSE f \in Filters : TRUE,
       query |-> 1, sync_enabled |-> TRUE, synced |-> "due",
       status |-> "ok"] \in ListRow
  BY DEF ListRow
<1>4. NoDraft \in DraftRow
  BY DEF NoDraft, DraftRow
<1>5. RowsTyped
  BY <1>2, <1>3, <1>4 DEF Init, RowsTyped
<1>6. ProvidersTyped
  BY DEF Init, ProvidersTyped
<1>7. OpsTyped /\ RequestTypes /\ RequestDomain
  BY RequestsAssumption
  DEF Init, OpsTyped, RequestTypes, RequestDomain, IsRead, RequestsAssumption
<1> QED
  BY <1>1, <1>5, <1>6, <1>7 DEF Init, TypeInv

\* Every step keeps the types.
LEMMA TypeStep == TypeInv /\ [Next]_vars => TypeInv'
<1> SUFFICES ASSUME TypeInv, [Next]_vars PROVE TypeInv'
  OBVIOUS
<1>1. CASE Requests
  BY <1>1, ProvidingTyped, WizardTyped, ListsPageTyped DEF Requests
<1>2. CASE Sync
  BY <1>2, SyncTyped
<1>3. ASSUME NEW l \in Lists, IntervalPasses(l)
      PROVE  TypeInv'
  <2>1. [list[l] EXCEPT !.synced = "due"] \in ListRow
    BY DEF TypeInv, RowsTyped, ListRow
  <2>2. list' = [list EXCEPT ![l] = [list[l] EXCEPT !.synced = "due"]]
    BY <1>3 DEF IntervalPasses, TypeInv, RowsTyped
  <2>3. RowsTyped'
    BY <1>3, <2>1, <2>2
    DEF IntervalPasses, Elsewhere, TypeInv, RowsTyped
  <2>4. UNCHANGED <<database, stamp, enabled, allow_import, created, request,
                    requests, pc, todo, current, lock>>
    BY <1>3 DEF IntervalPasses, Elsewhere
  <2> QED
    BY <2>3, <2>4
    DEF TypeInv, WorkersTyped, ProvidersTyped, OpsTyped, RequestTypes,
        RequestDomain
<1>4. CASE UNCHANGED vars
  BY <1>4
  DEF TypeInv, WorkersTyped, RowsTyped, ProvidersTyped, OpsTyped, RequestTypes,
      RequestDomain
<1> QED
  BY <1>1, <1>2, <1>3, <1>4 DEF Next

\* Every row of the lists, the drafts and the providers keeps its type, and a
\* worker holds the row of the list it is searching for, and no other.
\* (the handlers, _lock_if_still_due, sync_list)
THEOREM DirectoryTypeCorrect == Spec => []TypeOK
<1>1. Init => TypeInv
  BY TypeInit
<1>2. TypeInv /\ [Next]_vars => TypeInv'
  BY TypeStep
<1>3. TypeInv => TypeOK
  BY TypeInvType
<1> QED
  BY <1>1, <1>2, <1>3, PTL DEF Spec

-----------------------------------------------------------------------------
(* The row lock of a list being synced *)

\* On PostgreSQL, what a worker has looked at again under the lock stays so
\* while it searches: the list is there, due and switched on.
LockedIsDue ==
  ~IS_SQLITE =>
    \A w \in Instances :
      pc[w] = "searching" =>
        /\ lock[current[w]] = w
        /\ Live(current[w])
        /\ list[current[w]].synced # "fresh"
        /\ list[current[w]].sync_enabled

Inv == TypeInv /\ LockedIsDue

\* The requests that write the rows of lists.
LEMMA ListWriters ==
  ASSUME Requests
  PROVE  \/ UNCHANGED list
         \/ \E s \in Sessions : DeleteProvider(s) \/ CommitToggle(s)
         \/ \E s \in Sessions, keep \in BOOLEAN : ClaimAndImport(s, keep)
         \/ \E m \in Lists : create_list(m) \/ delete_list(m)
         \/ \E s \in Sessions, m \in Lists : sync_list_now(s, m)
         \/ \E s \in Sessions :
              SyncNowFails(s) \/ \E found \in SUBSET People :
                                   FinishSyncNow(s, found)
  BY
  DEF Requests, Providing, Wizard, ListsPage, create_provider, update_provider,
      SaveProvider, delete_provider, ldap_search, SaveDraft, SearchFails,
      finish, CheckProvider, ReadTarget, cancel, Expire, toggle_list_sync,
      edit_members

\* An import that writes nothing finds the row as it would make it, whatever it
\* has read of the rest.
LEMMA UnwrittenIsKept ==
  ASSUME TypeInv, NEW s \in Sessions, NEW keep \in BOOLEAN,
         request[s].op = "import", NEW row \in ListRow, row.row = "live",
         ~WritesTarget(request[s], keep)
  PROVE  Imported(request[s], row, keep) = row
<1> DEFINE r == request[s]
           was == Seen(r).row
           d == draft[r.token]
<1>1. r \in ImportRead
  BY ReadByOp
<1>2. was \in ListRow /\ r.token \in Tokens
  <2>1. Target(r.target) \in [row : ListRow, members : SUBSET People]
    BY <1>1, NewListTyped DEF ImportRead, Target, Copy, TypeInv, RowsTyped
  <2> QED
    BY <1>1, <2>1 DEF Seen, ImportRead
<1>3. Imported(r, was, keep) = was
  BY DEF WritesTarget
<1> HIDE DEF was
<1>4. /\ was.profile = Written(d.id, was.profile, was.profile)
      /\ was.filter = Written(d.filter, was.filter, was.filter)
      /\ was.sync_enabled = Written(keep, was.sync_enabled, was.sync_enabled)
  BY <1>2, <1>3, ImportedTyped DEF was
<1>5. /\ d.id = was.profile /\ d.filter = was.filter
      /\ Written(d.id, was.profile, row.profile) = row.profile
      /\ Written(d.filter, was.filter, row.filter) = row.filter
      /\ Written(keep, was.sync_enabled, row.sync_enabled) = row.sync_enabled
  BY <1>4 DEF Written
<1>6. Imported(r, row, keep) =
        [row EXCEPT
           !.row = "live",
           !.profile = Written(d.id, was.profile, row.profile),
           !.filter = Written(d.filter, was.filter, row.filter),
           !.query = row.query,
           !.sync_enabled = Written(keep, was.sync_enabled, row.sync_enabled)]
  BY <1>5 DEF Imported, was
<1> QED
  BY <1>5, <1>6, RowByColumns

\* Nobody writes the row of a list that is locked.
LEMMA RequestsRespectLocks ==
  ASSUME TypeInv, Requests, NEW l \in Lists, ~Writable(l), Live(l)
  PROVE  list'[l] = list[l]
<1> DEFINE Kept == list'[l] = list[l]
<1> USE DEF TypeInv, RowsTyped
<1>1. CASE UNCHANGED list
  BY <1>1
<1>2. ASSUME NEW s \in Sessions, DeleteProvider(s)
      PROVE  Kept
  BY <1>2 DEF DeleteProvider
<1>3. ASSUME NEW s \in Sessions, NEW keep \in BOOLEAN, ClaimAndImport(s, keep)
      PROVE  Kept
  <2> DEFINE r == request[s]
  <2>1. CASE UNCHANGED list
    BY <2>1
  <2>2. CASE /\ WritesTarget(r, keep) => Writable(r.target)
             /\ list' = [list EXCEPT ![r.target] =
                           Imported(r, list[r.target], keep)]
    <3>1. CASE r.target = l
      <4>1. Imported(r, list[l], keep) = list[l]
        BY <1>3, <2>2, <3>1, UnwrittenIsKept DEF ClaimAndImport, Live
      <4> QED
        BY <2>2, <3>1, <4>1
    <3>2. CASE r.target # l
      BY <2>2, <3>2
    <3> QED
      BY <3>1, <3>2
  <2> QED
    BY <1>3, <2>1, <2>2 DEF ClaimAndImport
<1>4. ASSUME NEW m \in Lists, create_list(m) \/ delete_list(m)
      PROVE  Kept
  BY <1>4 DEF create_list, delete_list, Live
<1>5. ASSUME NEW s \in Sessions, NEW m \in Lists, sync_list_now(s, m)
      PROVE  Kept
  BY <1>5 DEF sync_list_now
<1>6. ASSUME NEW s \in Sessions,
             SyncNowFails(s) \/ \E found \in SUBSET People :
                                  FinishSyncNow(s, found)
      PROVE  Kept
  BY <1>6 DEF SyncNowFails, FinishSyncNow
<1>7. ASSUME NEW s \in Sessions, CommitToggle(s)
      PROVE  Kept
  BY <1>7 DEF CommitToggle
<1> QED
  BY <1>1, <1>2, <1>3, <1>4, <1>5, <1>6, <1>7, ListWriters

\* A worker writes only the list it has locked, or has just looked at again:
\* one that is due, and switched on.
LEMMA SyncWritesItsList ==
  ASSUME Inv, ~IS_SQLITE, NEW w \in Instances, SyncStep(w) \/ Restart(w),
         NEW m \in Lists, list'[m] # list[m] \/ members'[m] # members[m]
  PROVE  /\ lock[m] \in {w, Nobody}
         /\ list[m].synced # "fresh"
         /\ list[m].sync_enabled
         /\ \E status \in {"ok", "error"} :
              list' = [list EXCEPT ![m] = Recorded(@, status)]
<1> USE DEF Inv, TypeInv, RowsTyped
<1>1. ASSUME \/ RecordFailure(w)
             \/ \E found \in SUBSET People : FinishList(w, found)
      PROVE  /\ m = current[w] /\ pc[w] = "searching"
             /\ \E status \in {"ok", "error"} :
                  list' = [list EXCEPT ![m] = Recorded(@, status)]
  BY <1>1 DEF RecordFailure, FinishList
<1>2. ASSUME NEW l \in Lists, RefuseList(w, l)
      PROVE  /\ m = l /\ lock_if_still_due(w, l)
             /\ \E status \in {"ok", "error"} :
                  list' = [list EXCEPT ![m] = Recorded(@, status)]
  BY <1>2 DEF RefuseList
<1>3. \/ RecordFailure(w) \/ \E found \in SUBSET People : FinishList(w, found)
      \/ \E l \in Lists : RefuseList(w, l)
  BY
  DEF SyncStep, Restart, StartPass, EndOfPass, SkipList, TakeList, FlushFails
<1>4. CASE RecordFailure(w) \/ \E found \in SUBSET People : FinishList(w, found)
  BY <1>1, <1>4 DEF LockedIsDue
<1>5. ASSUME NEW l \in Lists, RefuseList(w, l)
      PROVE  lock[m] = Nobody /\ list[m].synced # "fresh" /\ list[m].sync_enabled
  BY <1>2, <1>5 DEF lock_if_still_due, is_due
<1> QED
  BY <1>2, <1>3, <1>4, <1>5

\* A worker's step leaves what the other workers have locked as it is, and
\* looks at a list before it locks it.
LEMMA SyncKeepsLocked ==
  ASSUME Inv, Sync
  PROVE  LockedIsDue'
<1> USE DEF Inv, TypeInv
<1>1. PICK w \in Instances : SyncStep(w) \/ Restart(w)
  BY DEF Sync
<1>2. UNCHANGED database
  BY <1>1
  DEF SyncStep, Restart, StartPass, EndOfPass, SkipList, TakeList, RefuseList,
      RecordFailure, FlushFails, FinishList, Elsewhere
<1>3. ASSUME ~IS_SQLITE, NEW v \in Instances, v # w, pc'[v] = "searching"
      PROVE  /\ lock'[current'[v]] = v
             /\ Live(current[v])' /\ current'[v] = current[v]
             /\ list'[current[v]].synced # "fresh"
             /\ list'[current[v]].sync_enabled
  <2> DEFINE m == current[v]
  <2>1. pc[v] = "searching" /\ current'[v] = m
    BY <1>1, <1>3
    DEF SyncStep, Restart, StartPass, EndOfPass, SkipList, TakeList, RefuseList,
        RecordFailure, FlushFails, FinishList, EndPass, NextList, WorkersTyped
  <2>2. /\ m \in Lists
        /\ lock[m] = v
        /\ Live(m) /\ list[m].synced # "fresh" /\ list[m].sync_enabled
    BY <1>3, <2>1 DEF LockedIsDue, WorkersTyped
  <2>3. lock[m] \notin {w, Nobody}
    BY <1>3, <2>2, DirectoryAssumption DEF DirectoryAssumption
  <2>4. list'[m] = list[m]
    BY <1>1, <1>3, <2>2, <2>3, SyncWritesItsList
  <2>5. lock'[m] = lock[m]
    BY <1>1, <2>2, <2>3
    DEF SyncStep, Restart, StartPass, EndOfPass, SkipList, TakeList, RefuseList,
        RecordFailure, FlushFails, FinishList, EndPass, NextList, Release,
        lock_if_still_due, WorkersTyped
  <2> QED
    BY <2>1, <2>2, <2>4, <2>5 DEF Live
<1>4. ASSUME ~IS_SQLITE, pc'[w] = "searching"
      PROVE  /\ lock'[current'[w]] = w
             /\ Live(current'[w])
             /\ list'[current'[w]].synced # "fresh"
             /\ list'[current'[w]].sync_enabled
             /\ list' = list
  <2>1. PICK l \in Lists : TakeList(w, l)
    BY <1>1, <1>4
    DEF SyncStep, Restart, StartPass, EndOfPass, SkipList, RefuseList,
        RecordFailure, FlushFails, FinishList, EndPass, NextList, WorkersTyped
  <2>2. Live(l) /\ list[l].synced # "fresh" /\ list[l].sync_enabled
    BY <1>4, <2>1 DEF TakeList, lock_if_still_due, is_due
  <2>3. current'[w] = l /\ lock'[l] = w /\ list' = list
    BY <1>4, <2>1 DEF TakeList, WorkersTyped
  <2> QED
    BY <2>2, <2>3
<1> QED
  BY <1>2, <1>3, <1>4 DEF LockedIsDue, IS_SQLITE, Live

\* The lock argument is an invariant.
LEMMA LockedStep == Inv /\ [Next]_vars => LockedIsDue'
<1> SUFFICES ASSUME Inv, [Next]_vars PROVE LockedIsDue'
  OBVIOUS
<1> USE DEF Inv, TypeInv
<1>1. CASE Requests
  <2>1. UNCHANGED <<database, pc, current, lock>>
    BY <1>1, RequestsLeaveWorkers
  <2>2. ASSUME ~IS_SQLITE, NEW w \in Instances, pc[w] = "searching"
        PROVE  list'[current[w]] = list[current[w]]
    <3>1. current[w] \in Lists /\ lock[current[w]] = w /\ Live(current[w])
      BY <2>2 DEF LockedIsDue, WorkersTyped
    <3>2. ~Writable(current[w])
      BY <3>1, DirectoryAssumption DEF Writable, DirectoryAssumption
    <3> QED
      BY <1>1, <3>1, <3>2, RequestsRespectLocks
  <2> QED
    BY <2>1, <2>2 DEF LockedIsDue, IS_SQLITE, Live
<1>2. CASE Sync
  BY <1>2, SyncKeepsLocked
<1>3. ASSUME NEW l \in Lists, IntervalPasses(l)
      PROVE  LockedIsDue'
  <2>1. UNCHANGED <<database, pc, current, lock>>
    BY <1>3 DEF IntervalPasses, Elsewhere
  <2>2. \A m \in Lists : /\ list'[m].row = list[m].row
                         /\ list'[m].sync_enabled = list[m].sync_enabled
                         /\ list'[m].synced \in {list[m].synced, "due"}
    BY <1>3 DEF IntervalPasses, RowsTyped, ListRow
  <2> QED
    BY <2>1, <2>2 DEF LockedIsDue, IS_SQLITE, Live, WorkersTyped
<1>4. CASE UNCHANGED vars
  BY <1>4 DEF LockedIsDue, IS_SQLITE, Live
<1> QED
  BY <1>1, <1>2, <1>3, <1>4 DEF Next

\* No worker is searching at first.
LEMMA LockedInit == Init => LockedIsDue
<1> SUFFICES ASSUME Init PROVE LockedIsDue
  OBVIOUS
<1>1. \A w \in Instances : pc[w] # "searching"
  BY DEF Init
<1> QED
  BY <1>1 DEF LockedIsDue

\* A step of a worker is none of a request or of the clock.
LEMMA WorkerStepsAreSync ==
  ASSUME [Next]_vars, WorkerSteps
  PROVE  Sync
  BY RequestsLeaveWorkers DEF Next, WorkerSteps, IntervalPasses

\* However many instances run on PostgreSQL, no worker records a sync of a list
\* that is fresh.  (_lock_if_still_due)
THEOREM SyncedOncePerInterval == Spec => OneSyncPerInterval
<1>1. Init => Inv
  BY TypeInit, LockedInit DEF Inv
<1>2. Inv /\ [Next]_vars => Inv'
  BY TypeStep, LockedStep DEF Inv
<1>3. Inv /\ [Next]_vars =>
        [~IS_SQLITE /\ WorkerSteps =>
           \A l \in Lists : list'[l] # list[l] => list[l].synced # "fresh"]_vars
  BY WorkerStepsAreSync, SyncWritesItsList DEF Sync
<1> QED
  BY <1>1, <1>2, <1>3, PTL DEF Spec, OneSyncPerInterval

\* On PostgreSQL no worker changes the members of a list that is switched off,
\* whatever its pass had read before.  (_lock_if_still_due, toggle_list_sync)
THEOREM OffIsLeftAlone == Spec => SwitchedOffStaysOff
<1>1. Init => Inv
  BY TypeInit, LockedInit DEF Inv
<1>2. Inv /\ [Next]_vars => Inv'
  BY TypeStep, LockedStep DEF Inv
<1>3. Inv /\ [Next]_vars =>
        [~IS_SQLITE /\ WorkerSteps =>
           \A l \in Lists : ~list[l].sync_enabled =>
                            members'[l] = members[l]]_vars
  BY WorkerStepsAreSync, SyncWritesItsList DEF Sync, Inv, TypeInv, RowsTyped
<1> QED
  BY <1>1, <1>2, <1>3, PTL DEF Spec, SwitchedOffStaysOff

-----------------------------------------------------------------------------
(* The end of a draft *)

\* Ending some drafts leaves alone those that have ended.
LEMMA EndingEndsOnce ==
  ASSUME NEW tokens, NEW how, NEW t \in Tokens, draft[t].row \in Ended
  PROVE  Ending(tokens, how)[t] = draft[t]
  BY DEF Ending, LiveDrafts

\* Only the import of a live draft counts as one, and it ends that draft.
LEMMA ImportsAreClaims ==
  ASSUME TypeInv, [Next]_vars, NEW t \in Tokens, imports'[t] # imports[t]
  PROVE  draft[t].row = "live" /\ draft'[t].row = "imported"
<1>1. PICK s \in Sessions, keep \in BOOLEAN : ClaimAndImport(s, keep)
  BY
  DEF Next, Requests, Providing, Wizard, ListsPage, create_provider,
      update_provider, SaveProvider, delete_provider, DeleteProvider,
      ldap_search, SaveDraft, SearchFails, finish, CheckProvider, ReadTarget,
      cancel, Expire, create_list, delete_list, toggle_list_sync, CommitToggle,
      edit_members, sync_list_now, FinishSyncNow, SyncNowFails, Sync, SyncStep, Restart, StartPass,
      EndOfPass, SkipList, TakeList, RefuseList, RecordFailure, FlushFails,
      FinishList, IntervalPasses, Elsewhere
<1>2. t = request[s].token /\ draft[t].row = "live"
      /\ draft' = Ending({t}, "imported")
  BY <1>1 DEF ClaimAndImport, Claimed, TypeInv, RowsTyped
<1>3. draft'[t] = [draft[t] EXCEPT !.row = "imported", !.expired = FALSE,
                                   !.people = {}]
  BY <1>2 DEF Ending, LiveDrafts
<1> QED
  BY <1>2, <1>3 DEF TypeInv, RowsTyped, DraftRow

\* A draft ends once, and is imported only by ending that way.
\* (claim_draft, discard_drafts_for_profile, sweep_expired_drafts)
THEOREM DraftsEndOnce == Spec => DraftEndsOnce
<1>1. Init => TypeInv
  BY TypeInit
<1>2. TypeInv /\ [Next]_vars => TypeInv'
  BY TypeStep
<1>3. ASSUME TypeInv, [Next]_vars, NEW t \in Tokens, draft[t].row \in Ended
      PROVE  draft'[t] = draft[t]
  <2>1. CASE Requests
    <3>1. \/ draft' = draft
          \/ \E tokens, how : draft' = Ending(tokens, how)
          \/ \E s \in Sessions, u \in Tokens, filter \in Filters,
                people \in SUBSET People :
               SaveDraft(s, u, filter, people)
          \/ \E u \in Tokens : Expire(u)
      BY <2>1
      DEF Requests, Providing, Wizard, ListsPage, create_provider,
          update_provider, SaveProvider, delete_provider, DeleteProvider,
          ldap_search, SearchFails, finish, CheckProvider, ReadTarget,
          ClaimAndImport, cancel, create_list, delete_list, toggle_list_sync,
          CommitToggle, edit_members, sync_list_now, FinishSyncNow,
          SyncNowFails
    <3>2. ASSUME NEW s \in Sessions, NEW u \in Tokens,
                 NEW filter \in Filters, NEW people \in SUBSET People,
                 SaveDraft(s, u, filter, people)
          PROVE  draft'[t] = draft[t]
      BY <1>3, <3>2, EndingEndsOnce
      DEF SaveDraft, Swept, TypeInv, RowsTyped
    <3>3. ASSUME NEW u \in Tokens, Expire(u)
          PROVE  draft'[t] = draft[t]
      BY <1>3, <3>3 DEF Expire, Draft, TypeInv, RowsTyped
    <3> QED
      BY <1>3, <3>1, <3>2, <3>3, EndingEndsOnce
  <2>2. CASE ~Requests
    <3>1. draft' = draft \/ draft' = Swept
      BY <1>3, <2>2
      DEF Next, Sync, SyncStep, Restart, StartPass, EndOfPass, SkipList,
          TakeList, RefuseList, RecordFailure, FlushFails, FinishList,
          IntervalPasses
    <3> QED
      BY <1>3, <3>1, EndingEndsOnce DEF Swept
  <2> QED
    BY <2>1, <2>2
<1>4. TypeInv /\ [Next]_vars =>
        [\A t \in Tokens :
           /\ draft[t].row \in Ended => draft'[t] = draft[t]
           /\ imports'[t] # imports[t] =>
                draft[t].row = "live" /\ draft'[t].row = "imported"]_vars
  BY <1>3, ImportsAreClaims
<1> QED
  BY <1>1, <1>2, <1>4, PTL DEF Spec, DraftEndsOnce

-----------------------------------------------------------------------------
(* The answers without anybody *)

\* A sync that gets an empty answer finds the list as it was, or as its session
\* knows it, empty, and removes nobody.  (sync_list)
THEOREM EmptyAnswersAreHarmless == Spec => EmptyAnswersChangeNobody
<1> DEFINE Empties ==
             \A l \in Lists :
               WorkerSteps /\ members'[l] # members[l] =>
                 \A w \in Instances : current[w] = l => ~FinishList(w, {})
<1>1. ASSUME TypeInv, NEW w \in Instances, FinishList(w, {})
      PROVE  members' = members
  <2>1. SeenMembers(w, current[w]) = {}
    BY <1>1 DEF FinishList, Refused
  <2>2. \/ UNCHANGED members
        \/ members' = [members EXCEPT ![current[w]] = (@ \ {}) \cup {}]
    BY <1>1, <2>1 DEF FinishList
  <2> QED
    BY <1>1, <2>2 DEF TypeInv, RowsTyped
<1>2. TypeInv /\ [Next]_vars => TypeInv' /\ [Empties]_vars
  BY <1>1, TypeStep
<1>3. Spec => [][Empties]_vars
  BY <1>2, TypeInit, PTL DEF Spec
<1> QED
  BY <1>3 DEF EmptyAnswersChangeNobody

-----------------------------------------------------------------------------
(* Whose directory a list's query was made for *)

\* A list names a provider that is there, the one its query was made for.
ListsAreBacked ==
  \A l \in Lists \ crossed :
    Live(l) /\ list[l].profile # 0 =>
      /\ list[l].profile \in Providers
      /\ stamp[list[l].profile] = list[l].query

\* Ids are given out in turn.
IdsAreGiven == \A i \in Providers : i <= created

\* A delete has read every list that names its provider.
DeletesKnow ==
  \A s \in Sessions :
    request[s].op = "delete" =>
      \A l \in Lists \ crossed :
        Live(l) /\ list[l].profile = request[s].id => l \in request[s].lists

\* A draft that a session has read is not made into another one.
DraftsAreKept ==
  \A s \in Sessions :
    request[s].op \in {"finish", "claim", "import"} =>
      draft[request[s].token].row # "unused"

\* Who is about to import has found the provider that was searched.
ClaimsFound ==
  \A s \in Sessions :
    request[s].op \in {"claim", "import"} =>
      /\ draft[request[s].token].id \in Ids
      /\ request[s].found = draft[request[s].token].stamp
      /\ request[s].found # 0

LinkInv ==
  TypeInv /\ ListsAreBacked /\ IdsAreGiven /\ DeletesKnow /\ DraftsAreKept
  /\ ClaimsFound

\* What a step does to lists that does not make one name a provider.
ListsSettle ==
  \A l \in Lists :
    l \notin crossed' /\ Live(l)' /\ list'[l].profile # 0 =>
      /\ l \notin crossed /\ Live(l)
      /\ list'[l].profile = list[l].profile
      /\ list'[l].query = list[l].query

\* What a step does to drafts that does not make one another's.
DraftsSettle ==
  \A t \in Tokens :
    draft[t].row # "unused" =>
      /\ draft'[t].row # "unused"
      /\ draft'[t].id = draft[t].id /\ draft'[t].stamp = draft[t].stamp

\* No session reads what it goes by later.
RequestsSettle ==
  \A s \in Sessions :
    \/ request'[s] = request[s]
    \/ request'[s].op \notin {"delete", "finish", "claim", "import"}

\* A session that goes by a draft knows its token.
LEMMA TokensTyped ==
  ASSUME TypeInv, NEW s \in Sessions,
         request[s].op \in {"finish", "claim", "import"}
  PROVE  request[s].token \in Tokens
  BY ReadByOp DEF FinishRead, ClaimRead, ImportRead

LEMMA SettledKeepsLinks ==
  ASSUME LinkInv, TypeInv', ListsSettle, DraftsSettle, RequestsSettle,
         UNCHANGED <<stamp, created>>
  PROVE  LinkInv'
<1>1. \A s \in Sessions :
        request[s].op \in {"finish", "claim", "import"} =>
          request[s].token \in Tokens
  BY TokensTyped DEF LinkInv
<1>2. ListsAreBacked' /\ IdsAreGiven'
  BY DEF LinkInv, ListsAreBacked, IdsAreGiven, ListsSettle, Providers, Live
<1>3. DeletesKnow'
  <2> SUFFICES ASSUME NEW s \in Sessions, request'[s].op = "delete",
                      NEW l \in Lists \ crossed',
                      Live(l)', list'[l].profile = request'[s].id
               PROVE  l \in request'[s].lists
    BY DEF DeletesKnow
  <2>1. request'[s] = request[s]
    BY DEF RequestsSettle
  <2>2. request[s].id \in Ids
    BY <2>1, ReadByOp DEF LinkInv, DeleteRead
  <2>3. list'[l].profile # 0
    BY <2>1, <2>2
  <2> QED
    BY <2>1, <2>3 DEF LinkInv, DeletesKnow, ListsSettle
<1>4. DraftsAreKept' /\ ClaimsFound'
  BY <1>1
  DEF LinkInv, DraftsAreKept, ClaimsFound, DraftsSettle, RequestsSettle
<1> QED
  BY <1>2, <1>3, <1>4 DEF LinkInv

\* Drafts that end are settled, and so are rows that record a sync.
LEMMA EndingSettles ==
  ASSUME TypeInv, NEW tokens, NEW how \in Ended
  PROVE  LET later == Ending(tokens, how)
         IN  \A t \in Tokens :
               draft[t].row # "unused" =>
                 /\ later[t].row # "unused"
                 /\ later[t].id = draft[t].id /\ later[t].stamp = draft[t].stamp
<1>1. ASSUME NEW t \in Tokens
      PROVE  LET row == [draft[t] EXCEPT !.row = how, !.expired = FALSE,
                                         !.people = {}]
             IN  /\ row.row = how /\ how # "unused"
                 /\ row.id = draft[t].id /\ row.stamp = draft[t].stamp
  BY DEF TypeInv, RowsTyped, DraftRow
<1> QED
  BY <1>1 DEF Ending

LEMMA OneListSettles ==
  ASSUME TypeInv, NEW l \in Lists, NEW row, list' = [list EXCEPT ![l] = row],
         \/ row.profile = 0
         \/ /\ row.row = list[l].row /\ row.profile = list[l].profile
            /\ row.query = list[l].query,
         crossed' = crossed \/ (crossed' = crossed \ {l} /\ row.profile = 0)
  PROVE  ListsSettle
<1>1. \A m \in Lists : list'[m] = IF m = l THEN row ELSE list[m]
  BY DEF TypeInv, RowsTyped
<1> QED
  BY <1>1 DEF ListsSettle, Live

LEMMA RecordedSettles ==
  ASSUME TypeInv, NEW l \in Lists, NEW status,
         list' = [list EXCEPT ![l] = Recorded(list[l], status)],
         UNCHANGED crossed
  PROVE  ListsSettle
<1>1. LET row == Recorded(list[l], status)
      IN  /\ row.row = list[l].row /\ row.profile = list[l].profile
          /\ row.query = list[l].query
  BY DEF TypeInv, RowsTyped, ListRow, Recorded
<1> QED
  BY <1>1, OneListSettles

LEMMA SyncSettles ==
  ASSUME TypeInv, Sync
  PROVE  /\ ListsSettle /\ DraftsSettle /\ RequestsSettle
         /\ UNCHANGED <<stamp, created>>
<1>1. /\ UNCHANGED <<stamp, created, crossed, request>>
      /\ draft' = draft \/ draft' = Swept
  BY DEF Sync, SyncStep, Restart, StartPass, EndOfPass, SkipList, TakeList,
         RefuseList, RecordFailure, FlushFails, FinishList, Elsewhere
<1>2. DraftsSettle
  BY <1>1, EndingSettles DEF Swept, DraftsSettle
<1>3. \/ list' = list
      \/ \E l, status : list' = [list EXCEPT ![l] = Recorded(list[l], status)]
  BY DEF Sync, SyncStep, Restart, StartPass, EndOfPass, SkipList, TakeList,
         RefuseList, RecordFailure, FlushFails, FinishList
<1>4. ListsSettle
  <2>1. CASE list' = list
    BY <1>1, <2>1 DEF ListsSettle, Live
  <2>2. ASSUME NEW l, NEW status,
               list' = [list EXCEPT ![l] = Recorded(list[l], status)]
        PROVE  ListsSettle
    <3>1. CASE l \in Lists
      BY <1>1, <2>2, <3>1, RecordedSettles
    <3>2. CASE l \notin Lists
      <4>1. list' = list
        BY <2>2, <3>2 DEF TypeInv, RowsTyped
      <4> QED
        BY <2>1, <4>1
    <3> QED
      BY <3>1, <3>2
  <2> QED
    BY <1>3, <2>1, <2>2
<1> QED
  BY <1>1, <1>2, <1>4 DEF RequestsSettle

LEMMA ListsPageSettles ==
  ASSUME TypeInv, ListsPage
  PROVE  /\ ListsSettle /\ DraftsSettle /\ RequestsSettle
         /\ UNCHANGED <<stamp, created>>
<1>1. UNCHANGED <<stamp, created, draft>>
  BY DEF ListsPage, create_list, delete_list, toggle_list_sync, CommitToggle,
         edit_members, sync_list_now, FinishSyncNow, SyncNowFails
<1>2. DraftsSettle
  BY <1>1 DEF DraftsSettle
<1>3. RequestsSettle
  <2>1. ASSUME UNCHANGED request
        PROVE  RequestsSettle
    BY <2>1 DEF RequestsSettle
  <2>2. ASSUME NEW s \in Sessions, NEW l \in Lists, sync_list_now(s, l)
        PROVE  RequestsSettle
    BY <2>1, <2>2
    DEF sync_list_now, Reads, RequestsSettle, TypeInv, RequestDomain
  <2>3. ASSUME NEW s \in Sessions, Done(s)
        PROVE  RequestsSettle
    BY <2>3 DEF Done, RequestsSettle, TypeInv, RequestDomain
  <2>4. ASSUME NEW s \in Sessions, NEW l \in Lists, toggle_list_sync(s, l)
        PROVE  RequestsSettle
    BY <2>4
    DEF toggle_list_sync, Reads, RequestsSettle, TypeInv, RequestDomain
  <2> QED
    BY <2>1, <2>2, <2>3, <2>4
    DEF ListsPage, create_list, delete_list, CommitToggle, edit_members,
        FinishSyncNow, SyncNowFails
<1>4. ASSUME UNCHANGED <<list, crossed>>
      PROVE  ListsSettle
  BY <1>4 DEF ListsSettle, Live
<1>5. ASSUME NEW l \in Lists, create_list(l) \/ delete_list(l)
      PROVE  ListsSettle
  BY <1>5, OneListSettles DEF create_list, delete_list, NewList
<1>6. ASSUME NEW s \in Sessions, CommitToggle(s)
      PROVE  ListsSettle
  <2> DEFINE l == request[s].list
             row == [list[l] EXCEPT !.sync_enabled = ~request[s].sync]
  <2>1. l \in Lists
    BY <1>6, ReadByOp DEF CommitToggle, ToggleRead
  <2>2. /\ row.row = list[l].row /\ row.profile = list[l].profile
        /\ row.query = list[l].query
    BY <2>1 DEF TypeInv, RowsTyped, ListRow
  <2>3. CASE list' = [list EXCEPT ![l] = row] /\ crossed' = crossed
    <3> HIDE DEF row
    <3> QED
      BY <2>1, <2>2, <2>3, OneListSettles
  <2>4. CASE UNCHANGED <<list, crossed>>
    BY <1>4, <2>4
  <2> QED
    BY <1>6, <2>3, <2>4 DEF CommitToggle
<1>14. ASSUME NEW s \in Sessions, NEW l \in Lists, toggle_list_sync(s, l)
       PROVE  ListsSettle
  BY <1>4, <1>14 DEF toggle_list_sync
<1>7. ASSUME NEW l \in Lists, NEW status,
             list' = [list EXCEPT ![l] = Recorded(@, status)],
             crossed' = crossed
      PROVE  ListsSettle
  BY <1>7, RecordedSettles
<1>8. ASSUME NEW l \in Lists, NEW p \in People, edit_members(l, p)
      PROVE  ListsSettle
  BY <1>4, <1>8 DEF edit_members
<1>9. ASSUME NEW s \in Sessions, NEW l \in Lists, sync_list_now(s, l)
      PROVE  ListsSettle
  BY <1>4, <1>7, <1>9 DEF sync_list_now
<1>10. ASSUME NEW s \in Sessions, request[s].op = "sync"
       PROVE  request[s].list \in Lists
  BY <1>10, ReadByOp DEF SyncRead
<1>11. ASSUME NEW s \in Sessions, NEW found \in SUBSET People,
              FinishSyncNow(s, found)
       PROVE  ListsSettle
  BY <1>4, <1>7, <1>10, <1>11 DEF FinishSyncNow
<1>12. ASSUME NEW s \in Sessions, SyncNowFails(s)
       PROVE  ListsSettle
  BY <1>4, <1>7, <1>10, <1>12 DEF SyncNowFails
<1>13. ListsSettle
  BY <1>5, <1>6, <1>8, <1>9, <1>11, <1>12, <1>14 DEF ListsPage
<1> QED
  BY <1>1, <1>2, <1>3, <1>13

\* The steps of the wizard that find out nothing and import nothing.
LEMMA WizardSettles ==
  ASSUME TypeInv,
         \/ \E s \in Sessions, i \in Ids : ldap_search(s, i)
         \/ \E s \in Sessions, t \in Tokens, filter \in Filters,
               people \in SUBSET People \ {{}} :
              SaveDraft(s, t, filter, people)
         \/ \E s \in Sessions :
              \/ SearchFails(s)
              \/ CheckProvider(s) /\ ~IsStillOpen(request[s].token)
         \/ \E t \in Tokens : cancel(t) \/ Expire(t)
  PROVE  /\ ListsSettle /\ DraftsSettle /\ RequestsSettle
         /\ UNCHANGED <<stamp, created>>
<1>1. UNCHANGED <<stamp, created, list, crossed>>
  BY DEF ldap_search, SaveDraft, SearchFails, CheckProvider, cancel, Expire
<1>2. ListsSettle
  BY <1>1 DEF ListsSettle, Live
<1>3. ASSUME NEW s \in Sessions, NEW i \in Ids, ldap_search(s, i)
      PROVE  DraftsSettle /\ RequestsSettle
  BY <1>3
  DEF ldap_search, Reads, DraftsSettle, RequestsSettle, TypeInv, RequestDomain
<1>4. ASSUME NEW s \in Sessions, NEW t \in Tokens,
             NEW filter \in Filters, NEW people \in SUBSET People \ {{}},
             SaveDraft(s, t, filter, people)
      PROVE  DraftsSettle /\ RequestsSettle
  <2>1. \A u \in Tokens : u # t => draft'[u] = Swept[u]
    BY <1>4 DEF SaveDraft
  <2>2. draft[t].row = "unused"
    BY <1>4 DEF SaveDraft
  <2>3. DraftsSettle
    <3>1. \A u \in Tokens :
            draft[u].row # "unused" =>
              /\ Swept[u].row # "unused"
              /\ Swept[u].id = draft[u].id /\ Swept[u].stamp = draft[u].stamp
      BY EndingSettles DEF Swept
    <3> QED
      BY <2>1, <2>2, <3>1 DEF DraftsSettle
  <2> QED
    BY <1>4, <2>3 DEF SaveDraft, Done, RequestsSettle, TypeInv, RequestDomain
<1>5. ASSUME NEW s \in Sessions,
             \/ SearchFails(s)
             \/ CheckProvider(s) /\ ~IsStillOpen(request[s].token)
      PROVE  DraftsSettle /\ RequestsSettle
  <2>1. Done(s)
    BY <1>5 DEF SearchFails, CheckProvider
  <2>2. \/ draft' = draft
        \/ draft' = Ending({request[s].token}, "refused")
    BY <1>5 DEF SearchFails, CheckProvider
  <2>3. DraftsSettle
    BY <2>2, EndingSettles DEF DraftsSettle
  <2> QED
    BY <2>1, <2>3 DEF Done, RequestsSettle, TypeInv, RequestDomain
<1>6. ASSUME NEW t \in Tokens, cancel(t)
      PROVE  DraftsSettle /\ RequestsSettle
  BY <1>6, EndingSettles DEF cancel, DraftsSettle, RequestsSettle
<1>7. ASSUME NEW t \in Tokens, Expire(t)
      PROVE  DraftsSettle /\ RequestsSettle
  <2>1. LET row == [draft[t] EXCEPT !.expired = TRUE]
        IN  /\ row.row = draft[t].row /\ row.id = draft[t].id
            /\ row.stamp = draft[t].stamp
    BY DEF TypeInv, RowsTyped, DraftRow
  <2>2. \A u \in Tokens :
          draft'[u] = IF u = t THEN [draft[t] EXCEPT !.expired = TRUE]
                      ELSE draft[u]
    BY <1>7 DEF Expire, TypeInv, RowsTyped
  <2> QED
    BY <1>7, <2>1, <2>2 DEF Expire, DraftsSettle, RequestsSettle
<1> QED
  BY <1>1, <1>2, <1>3, <1>4, <1>5, <1>6, <1>7

\* A session reads a draft that is there.
LEMMA FinishKeepsLinks ==
  ASSUME LinkInv, TypeInv', NEW s \in Sessions, NEW t \in Tokens, finish(s, t)
  PROVE  LinkInv'
<1>1. /\ UNCHANGED <<stamp, created, list, crossed, draft>>
      /\ \A v \in Sessions : v # s => request'[v] = request[v]
      /\ request'[s].op = "finish" /\ request'[s].token = t
      /\ draft[t].row # "unused"
  BY DEF finish, Draft, Reads, LinkInv, TypeInv, RequestDomain
<1>2. ListsAreBacked' /\ IdsAreGiven'
  BY <1>1 DEF LinkInv, ListsAreBacked, IdsAreGiven, Live, Providers
<1>3. DeletesKnow' /\ DraftsAreKept' /\ ClaimsFound'
  BY <1>1 DEF LinkInv, DeletesKnow, DraftsAreKept, ClaimsFound, Live
<1> QED
  BY <1>2, <1>3 DEF LinkInv

\* ... finds the provider that was searched ...
LEMMA CheckKeepsLinks ==
  ASSUME LinkInv, TypeInv', NEW s \in Sessions, CheckProvider(s),
         IsStillOpen(request[s].token)
  PROVE  LinkInv'
<1> DEFINE t == request[s].token
<1>1. request[s].op = "finish" /\ t \in Tokens
  BY TokensTyped DEF CheckProvider, LinkInv
<1>2. /\ UNCHANGED <<stamp, created, list, crossed, draft>>
      /\ \A v \in Sessions : v # s => request'[v] = request[v]
      /\ request'[s].op = "claim" /\ request'[s].token = t
      /\ request'[s].found = stamp[draft[t].id]
  BY DEF CheckProvider, LinkInv, TypeInv, RequestDomain
<1>3. /\ draft[t].id \in Providers /\ stamp[draft[t].id] = draft[t].stamp
  BY DEF IsStillOpen
<1>4. ListsAreBacked' /\ IdsAreGiven'
  BY <1>2 DEF LinkInv, ListsAreBacked, IdsAreGiven, Live, Providers
<1>5. DeletesKnow'
  BY <1>2 DEF LinkInv, DeletesKnow, Live
<1>6. DraftsAreKept'
  BY <1>1, <1>2 DEF LinkInv, DraftsAreKept
<1>7. ClaimsFound'
  BY <1>2, <1>3 DEF LinkInv, ClaimsFound, Providers
<1> QED
  BY <1>4, <1>5, <1>6, <1>7 DEF LinkInv

\* ... reads the list it is to fill ...
LEMMA TargetKeepsLinks ==
  ASSUME LinkInv, TypeInv', NEW s \in Sessions, NEW l \in Lists \cup {0},
         NEW by_name \in BOOLEAN, ReadTarget(s, l, by_name)
  PROVE  LinkInv'
<1>1. /\ UNCHANGED <<stamp, created, list, crossed, draft>>
      /\ \A v \in Sessions : v # s => request'[v] = request[v]
      /\ request[s].op = "claim" /\ request'[s].op = "import"
      /\ request'[s].token = request[s].token
      /\ request'[s].found = request[s].found
  BY DEF ReadTarget, LinkInv, TypeInv, RequestDomain
<1>2. ListsAreBacked' /\ IdsAreGiven'
  BY <1>1 DEF LinkInv, ListsAreBacked, IdsAreGiven, Live, Providers
<1>3. DeletesKnow' /\ DraftsAreKept' /\ ClaimsFound'
  BY <1>1 DEF LinkInv, DeletesKnow, DraftsAreKept, ClaimsFound, Live
<1> QED
  BY <1>2, <1>3 DEF LinkInv

\* ... and the list that is made or filled names it, unless a delete of the
\* provider is on its way, or another import was before it.
LEMMA ImportKeepsLinks ==
  ASSUME LinkInv, TypeInv', NEW s \in Sessions, NEW keep \in BOOLEAN,
         ClaimAndImport(s, keep)
  PROVE  LinkInv'
<1> DEFINE r == request[s]
           t == r.token
           l == r.target
           row == Imported(r, list[l], keep)
<1>1. /\ r.op = "import" /\ Done(s) /\ UNCHANGED <<stamp, created>>
      /\ t \in Tokens /\ l \in Lists \cup {0}
  BY ReadByOp DEF ClaimAndImport, LinkInv, ImportRead
<1>2. RequestsSettle
  BY <1>1 DEF Done, RequestsSettle, LinkInv, TypeInv, RequestDomain
<1>3. draft' = draft \/ draft' = Ending({t}, "imported")
  BY DEF ClaimAndImport
<1>4. DraftsSettle
  BY <1>3, EndingSettles DEF DraftsSettle, LinkInv
<1>5. CASE UNCHANGED <<list, crossed>>
  <2>1. ListsSettle
    BY <1>5 DEF ListsSettle, Live
  <2> QED
    BY <1>1, <1>2, <1>4, <2>1, SettledKeepsLinks
<1>6. ASSUME l \in Lists
      PROVE  row.row = "live"
  BY <1>1, <1>6, ImportedTyped DEF LinkInv, TypeInv, RowsTyped
<1>7. CASE /\ l \in Lists /\ list' = [list EXCEPT ![l] = row]
           /\ KeepsLink(row, l) /\ crossed' = crossed
  <2>1. /\ row.row = list[l].row /\ row.profile = list[l].profile
        /\ row.query = list[l].query
    BY <1>6, <1>7 DEF KeepsLink, Live
  <2> HIDE DEF row
  <2>2. ListsSettle
    BY <1>7, <2>1, OneListSettles DEF LinkInv
  <2> QED
    BY <1>1, <1>2, <1>4, <2>2, SettledKeepsLinks
<1>8. CASE /\ l \in Lists /\ list' = [list EXCEPT ![l] = row]
           /\ crossed' = IF Crosses(r, row) THEN crossed \cup {l}
                         ELSE crossed \ {l}
  <2> HIDE DEF row
  <2>1. \A m \in Lists : list'[m] = IF m = l THEN row ELSE list[m]
    BY <1>8 DEF LinkInv, TypeInv, RowsTyped
  <2>2. /\ draft[t].id \in Ids
        /\ r.found = draft[t].stamp /\ r.found # 0
    BY <1>1 DEF LinkInv, ClaimsFound
  <2>3. ListsAreBacked'
    <3> SUFFICES ASSUME NEW m \in Lists \ crossed', Live(m)',
                        list'[m].profile # 0
                 PROVE  /\ list'[m].profile \in Providers'
                        /\ stamp'[list'[m].profile] = list'[m].query
      BY DEF ListsAreBacked
    <3>1. CASE m = l
      <4>1. /\ stamp[draft[t].id] = r.found
            /\ row.profile = draft[t].id /\ row.query = draft[t].stamp
        BY <1>8, <3>1 DEF Crosses
      <4> QED
        BY <1>1, <1>8, <2>1, <2>2, <3>1, <4>1 DEF Providers
    <3>2. CASE m # l
      BY <1>1, <1>8, <2>1, <3>2 DEF LinkInv, ListsAreBacked, Live, Providers
    <3> QED
      BY <3>1, <3>2
  <2>4. IdsAreGiven'
    BY <1>1 DEF LinkInv, IdsAreGiven, Providers
  <2>5. DeletesKnow'
    <3> SUFFICES ASSUME NEW v \in Sessions, request'[v].op = "delete",
                        NEW m \in Lists \ crossed', Live(m)',
                        list'[m].profile = request'[v].id
                 PROVE  m \in request'[v].lists
      BY DEF DeletesKnow
    <3>1. request'[v] = request[v]
      BY <1>2 DEF RequestsSettle
    <3>2. CASE m = l
      BY <1>8, <2>1, <3>1, <3>2 DEF Crosses
    <3>3. CASE m # l
      BY <1>8, <2>1, <3>1, <3>3 DEF LinkInv, DeletesKnow, Live
    <3> QED
      BY <3>2, <3>3
  <2>6. DraftsAreKept' /\ ClaimsFound'
    <3>1. \A v \in Sessions :
            request[v].op \in {"finish", "claim", "import"} =>
              request[v].token \in Tokens
      BY TokensTyped DEF LinkInv
    <3> QED
      BY <1>2, <1>4, <3>1
      DEF LinkInv, DraftsAreKept, ClaimsFound, DraftsSettle, RequestsSettle
  <2> QED
    BY <2>3, <2>4, <2>5, <2>6 DEF LinkInv
<1>9. \/ UNCHANGED <<list, crossed>>
      \/ /\ l \in Lists /\ list' = [list EXCEPT ![l] = row]
         /\ \/ KeepsLink(row, l) /\ crossed' = crossed
            \/ crossed' = IF Crosses(r, row) THEN crossed \cup {l}
                          ELSE crossed \ {l}
  BY <1>1 DEF ClaimAndImport, HasTarget
<1> QED
  BY <1>5, <1>7, <1>8, <1>9

LEMMA ProvidingKeepsLinks ==
  ASSUME LinkInv, TypeInv', Providing
  PROVE  LinkInv'
<1>0. /\ stamp \in [Ids -> 0..MaxProviders] /\ created \in Nat
      /\ MaxProviders \in Nat
      /\ \A s \in Sessions :
           request[s].op = "delete" => request[s].id \in Ids
  <2>1. /\ stamp \in [Ids -> 0..MaxProviders] /\ created \in Nat
        /\ MaxProviders \in Nat
    BY DirectoryAssumption
    DEF DirectoryAssumption, LinkInv, TypeInv, ProvidersTyped
  <2>2. \A s \in Sessions :
          request[s].op = "delete" => request[s].id \in Ids
    BY ReadByOp DEF LinkInv, DeleteRead
  <2> QED
    BY <2>1, <2>2
<1>1. ASSUME NEW i \in Ids, create_provider(i)
      PROVE  LinkInv'
  <2>1. /\ UNCHANGED <<list, draft, request, crossed>>
        /\ created' = created + 1
        /\ \A j \in Ids : stamp'[j] = IF j = i THEN created + 1 ELSE stamp[j]
    BY <1>0, <1>1 DEF create_provider
  <2>2. i \notin Providers /\ i <= created + 1
    BY <1>0, <1>1
    DEF create_provider, IsNextId, LinkInv, IdsAreGiven, Providers
  <2>3. ListsAreBacked'
    BY <1>0, <2>1, <2>2 DEF LinkInv, ListsAreBacked, Live, Providers
  <2>4. IdsAreGiven'
    BY <1>0, <2>1, <2>2 DEF LinkInv, IdsAreGiven, Providers
  <2>5. DeletesKnow' /\ DraftsAreKept' /\ ClaimsFound'
    BY <2>1 DEF LinkInv, DeletesKnow, DraftsAreKept, ClaimsFound, Live
  <2> QED
    BY <2>3, <2>4, <2>5 DEF LinkInv
<1>2. ASSUME NEW s \in Sessions,
             \/ \E i \in Ids : update_provider(s, i)
             \/ \E form \in Forms : SaveProvider(s, form.on, form.import)
      PROVE  LinkInv'
  <2>1. UNCHANGED <<stamp, created, list, draft, crossed>>
    BY <1>2 DEF update_provider, SaveProvider
  <2>2. RequestsSettle
    BY <1>2
    DEF update_provider, SaveProvider, Reads, Done, RequestsSettle, LinkInv,
        TypeInv, RequestDomain
  <2> QED
    BY <2>1, <2>2, SettledKeepsLinks DEF ListsSettle, DraftsSettle, Live
<1>3. ASSUME NEW s \in Sessions, NEW i \in Ids, delete_provider(s, i)
      PROVE  LinkInv'
  <2>1. /\ UNCHANGED <<stamp, created, list, draft, crossed>>
        /\ \A v \in Sessions : v # s => request'[v] = request[v]
        /\ request'[s].op = "delete" /\ request'[s].id = i
        /\ request'[s].lists = {l \in Lists : Live(l) /\ list[l].profile = i}
    BY <1>3 DEF delete_provider, Reads, LinkInv, TypeInv, RequestDomain
  <2>2. ListsAreBacked' /\ IdsAreGiven'
    BY <2>1 DEF LinkInv, ListsAreBacked, IdsAreGiven, Live, Providers
  <2>3. DeletesKnow' /\ DraftsAreKept' /\ ClaimsFound'
    BY <2>1 DEF LinkInv, DeletesKnow, DraftsAreKept, ClaimsFound, Live
  <2> QED
    BY <2>2, <2>3 DEF LinkInv
<1>4. ASSUME NEW s \in Sessions, DeleteProvider(s)
      PROVE  LinkInv'
  <2> DEFINE r == request[s]
  <2>1. /\ r.op = "delete" /\ r.id \in Ids /\ Done(s)
        /\ UNCHANGED <<created, crossed>>
    BY <1>0, <1>4 DEF DeleteProvider
  <2>2. RequestsSettle
    BY <2>1 DEF Done, RequestsSettle, LinkInv, TypeInv, RequestDomain
  <2>3. draft' = draft \/ draft' = Ending(r.drafts, "discarded")
    BY <1>4 DEF DeleteProvider
  <2>4. DraftsSettle
    BY <2>3, EndingSettles DEF DraftsSettle, LinkInv
  <2>5. CASE UNCHANGED <<stamp, list>>
    BY <2>1, <2>2, <2>4, <2>5, SettledKeepsLinks DEF ListsSettle, Live
  <2>6. CASE /\ stamp' = [stamp EXCEPT ![r.id] = 0]
             /\ list' = [l \in Lists |-> IF l \in r.lists THEN Detached(r, l)
                                         ELSE list[l]]
    <3>1. \A l \in Lists : Detached(r, l).profile = 0
      <4>1. \A l \in Lists : list[l] \in ListRow
        BY DEF LinkInv, TypeInv, RowsTyped
      <4>2. ASSUME NEW row \in ListRow, NEW a, NEW b, NEW c
            PROVE  [row EXCEPT !.profile = 0, !.sync_enabled = a, !.synced = b,
                               !.status = c].profile = 0
        BY DEF ListRow
      <4> QED
        BY <4>1, <4>2 DEF Detached
    <3>2. ListsSettle
      BY <2>1, <2>6, <3>1 DEF ListsSettle, Live
    <3>3. \A l \in Lists \ crossed :
            Live(l)' /\ list'[l].profile # 0 => list[l].profile # r.id
      BY <2>1, <2>6, <3>1 DEF LinkInv, DeletesKnow, Live
    <3>4. \A j \in Ids : stamp'[j] = IF j = r.id THEN 0 ELSE stamp[j]
      BY <1>0, <2>6
    <3>5. ListsAreBacked'
      BY <2>1, <3>2, <3>3, <3>4
      DEF LinkInv, ListsAreBacked, ListsSettle, Providers
    <3>6. IdsAreGiven'
      BY <2>1, <3>4 DEF LinkInv, IdsAreGiven, Providers
    <3>7. DeletesKnow'
      BY <1>0, <2>1, <2>2, <3>2
      DEF LinkInv, DeletesKnow, ListsSettle, RequestsSettle
    <3>8. DraftsAreKept' /\ ClaimsFound'
      <4>1. \A v \in Sessions :
              request[v].op \in {"finish", "claim", "import"} =>
                request[v].token \in Tokens
        BY TokensTyped DEF LinkInv
      <4> QED
        BY <2>2, <2>4, <4>1
        DEF LinkInv, DraftsAreKept, ClaimsFound, DraftsSettle, RequestsSettle
    <3> QED
      BY <3>5, <3>6, <3>7, <3>8 DEF LinkInv
  <2> QED
    BY <1>4, <2>5, <2>6 DEF DeleteProvider
<1> QED
  BY <1>1, <1>2, <1>3, <1>4 DEF Providing

LEMMA LinkInit == Init => LinkInv
<1> SUFFICES ASSUME Init
             PROVE  LinkInv
  OBVIOUS
<1>1. TypeInv
  BY TypeInit
<1>2. /\ \A s \in Sessions : request[s].op = "idle"
      /\ stamp = [i \in Ids |-> IF i = 1 THEN 1 ELSE 0]
      /\ created = 1
  BY DEF Init
<1>3. DeletesKnow /\ DraftsAreKept /\ ClaimsFound
  BY <1>2 DEF DeletesKnow, DraftsAreKept, ClaimsFound
<1>4. 1 \in Ids /\ 1 \in Providers
  BY <1>2, DirectoryAssumption DEF DirectoryAssumption, Providers
<1>5. IdsAreGiven
  BY <1>2 DEF IdsAreGiven, Providers
<1>6. \A l \in Lists :
        list[l].profile # 0 => list[l].profile = 1 /\ list[l].query = 1
  <2>1. NewList("none").profile = 0
    BY DEF NewList
  <2>2. PICK backed \in {{}, Lists} :
          list = [l \in Lists |->
                    IF l \in backed
                    THEN [row |-> "live", profile |-> 1,
                          filter |-> CHOOSE f \in Filters : TRUE, query |-> 1,
                          sync_enabled |-> TRUE, synced |-> "due",
                          status |-> "ok"]
                    ELSE NewList("none")]
    BY DEF Init
  <2> QED
    BY <2>1, <2>2
<1>7. ListsAreBacked
  BY <1>2, <1>4, <1>6 DEF ListsAreBacked
<1> QED
  BY <1>1, <1>3, <1>5, <1>7 DEF LinkInv

LEMMA LinkStep == LinkInv /\ [Next]_vars => LinkInv'
<1> SUFFICES ASSUME LinkInv, [Next]_vars
             PROVE  LinkInv'
  OBVIOUS
<1>1. TypeInv /\ TypeInv'
  BY TypeStep DEF LinkInv
<1>2. CASE Providing
  BY <1>1, <1>2, ProvidingKeepsLinks
<1>3. CASE Wizard
  <2>1. ASSUME NEW s \in Sessions, CheckProvider(s)
        PROVE  LinkInv'
    BY <1>1, <2>1, CheckKeepsLinks, WizardSettles, SettledKeepsLinks
  <2>2. ASSUME NEW s \in Sessions, NEW t \in Tokens, finish(s, t)
        PROVE  LinkInv'
    BY <1>1, <2>2, FinishKeepsLinks
  <2>3. ASSUME NEW s \in Sessions, NEW l \in Lists \cup {0},
               NEW by_name \in BOOLEAN, ReadTarget(s, l, by_name)
        PROVE  LinkInv'
    BY <1>1, <2>3, TargetKeepsLinks
  <2>4. ASSUME NEW s \in Sessions, NEW keep \in BOOLEAN,
               ClaimAndImport(s, keep)
        PROVE  LinkInv'
    BY <1>1, <2>4, ImportKeepsLinks
  <2> QED
    BY <1>1, <1>3, <2>1, <2>2, <2>3, <2>4, WizardSettles, SettledKeepsLinks DEF Wizard
<1>4. CASE ListsPage
  BY <1>1, <1>4, ListsPageSettles, SettledKeepsLinks
<1>5. CASE Sync
  BY <1>1, <1>5, SyncSettles, SettledKeepsLinks
<1>6. ASSUME NEW l \in Lists, IntervalPasses(l)
      PROVE  LinkInv'
  <2> DEFINE row == [list[l] EXCEPT !.synced = "due"]
  <2>1. list[l] \in ListRow
    BY <1>1 DEF TypeInv, RowsTyped
  <2>2. /\ row.row = list[l].row /\ row.profile = list[l].profile
        /\ row.query = list[l].query
    BY <2>1 DEF ListRow
  <2>3. /\ list' = [list EXCEPT ![l] = row]
        /\ UNCHANGED <<stamp, created, draft, request, crossed>>
    BY <1>6 DEF IntervalPasses, Elsewhere
  <2> HIDE DEF row
  <2>4. ListsSettle
    BY <1>1, <2>2, <2>3, OneListSettles
  <2> QED
    BY <1>1, <2>3, <2>4, SettledKeepsLinks DEF DraftsSettle, RequestsSettle
<1>7. CASE UNCHANGED vars
  BY <1>1, <1>7, SettledKeepsLinks
  DEF ListsSettle, DraftsSettle, RequestsSettle, Live
<1> QED
  BY <1>2, <1>3, <1>4, <1>5, <1>6, <1>7 DEF Next, Requests

\* A list's query is run in the directory it was made for and in no other, even
\* where ids are given again, unless the import crossed a delete of it.
\* (detach_profile, finish)
THEOREM ListsStayWithTheirDirectory == Spec => []ListsKeepTheirDirectory
<1>1. LinkInv => ListsKeepTheirDirectory
  BY DEF LinkInv, ListsAreBacked, ListsKeepTheirDirectory, Providers
<1> QED
  BY <1>1, LinkInit, LinkStep, PTL DEF Spec

=============================================================================
