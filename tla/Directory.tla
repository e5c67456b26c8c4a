------------------------------ MODULE Directory ------------------------------
(***************************************************************************)
(* Directories, drafts and synced lists: the handlers and the sync workers *)
(* over one database, and what must hold of them together.                 *)
(***************************************************************************)
EXTENDS DirectoryRequests, DirectorySync

\* A provider an administrator has set up, and lists that were or were not
\* filled from it, synced since or not.
Init ==
  /\ database \in Databases
  /\ stamp = [i \in Ids |-> IF i = 1 THEN 1 ELSE 0]
  /\ enabled = {1} /\ allow_import = {1}
  /\ created = 1
  /\ \E backed \in {{}, Lists} :
       list = [l \in Lists |->
                 IF l \in backed
                 THEN [row |-> "live", profile |-> 1,
                       filter |-> CHOOSE f \in Filters : TRUE, query |-> 1,
                       sync_enabled |-> TRUE, synced |-> "due",
                       status |-> "ok"]
                 ELSE NewList("none")]
  /\ members = [l \in Lists |-> {}]
  /\ lock = [l \in Lists |-> Nobody]
  /\ draft = [t \in Tokens |-> NoDraft]
  /\ request = [s \in Sessions |-> Idle]
  /\ requests = 0
  /\ \E one \in Instances :
       pc = [w \in Instances |-> IF IS_SQLITE /\ w # one THEN "off" ELSE "idle"]
  /\ todo = [w \in Instances |-> {}]
  /\ current = [w \in Instances |-> 0]
  /\ seen = [w \in Instances |-> NoCopy]
  /\ imports = [t \in Tokens |-> 0]
  /\ crossed = {}

Next ==
  \/ Requests
  \/ Sync
  \/ \E l \in Lists : IntervalPasses(l)

Spec == Init /\ [][Next]_vars

\* A worker's loop goes on as long as its process does: the search has a
\* timeout, the poll too.
FairSpec == Spec /\ \A w \in Instances : WF_vars(SyncStep(w))

-----------------------------------------------------------------------------
(* Properties *)

\* Every variable has its type; a worker holds the row of the list it is
\* searching for, and no other (_lock_if_still_due ... db.commit()).
TypeOK ==
  /\ StateTypeOK
  /\ \A w \in Instances : current[w] # 0 <=> pc[w] = "searching"
  /\ \A l \in Lists : lock[l] # Nobody => current[lock[l]] = l
  /\ requests \in 0..MaxRequests
  /\ crossed \subseteq Lists
  /\ \A s \in Sessions :
       request[s].op \in {"idle", "edit", "delete", "search", "finish", "claim",
                          "import", "toggle", "sync"}

\* A step of a sync worker.
WorkerSteps == <<pc, todo>>' # <<pc, todo>>

\* However many instances run, a list is synced at most once per interval: no
\* worker records a sync of a list that is fresh.  ("Every instance runs this
\* worker ... The re-check catches one it finished", ldap_sync.py:191-199.)
OneSyncPerInterval ==
  [][~IS_SQLITE /\ WorkerSteps =>
       \A l \in Lists : list'[l] # list[l] => list[l].synced # "fresh"]_vars

\* A list whose sync is switched off, by a person or with its provider, keeps its
\* members as they are, whatever a pass had read before.  On PostgreSQL; a pass on
\* SQLite goes by its copy, and changes them.
\* ("Its members stay exactly as they are", recipients.py:541-543.)
SwitchedOffStaysOff ==
  [][~IS_SQLITE /\ WorkerSteps =>
       \A l \in Lists : ~list[l].sync_enabled => members'[l] = members[l]]_vars

\* A directory that answers with nobody empties no list, not even one that got
\* its members while the search was running.  (ldap_sync.py:114-118.)
EmptyAnswersChangeNobody ==
  [][\A l \in Lists :
       WorkerSteps /\ members'[l] # members[l] =>
         \A w \in Instances : current[w] = l => ~FinishList(w, {})]_vars

\* A draft ends once, and is imported only by ending that way: two finishes, a
\* cancel, the sweep and the delete of its provider cannot both have it.
DraftEndsOnce ==
  [][\A t \in Tokens :
       /\ draft[t].row \in Ended => draft'[t] = draft[t]
       /\ imports'[t] # imports[t] =>
            draft[t].row = "live" /\ draft'[t].row = "imported"]_vars

\* The query a list remembers belongs to the directory it would be run in, and
\* not to a later one that was given the same id.  Except for an import that
\* crosses the delete of its provider: it can commit between what the delete
\* has read and its own commit; and for two that wait for one row, and write the
\* columns that differ from what each has read.  (importer.py:321-326,
\* import_wizard.py:419-423.)
ListsKeepTheirDirectory ==
  \A l \in Lists \ crossed :
    Live(l) /\ list[l].profile \in Providers =>
      stamp[list[l].profile] = list[l].query

\* "One list failing must not cost the others their pass" (ldap_sync.py:258):
\* a list that is due, and stays so until it is, is looked at.
OthersGetTheirPass ==
  \A l \in Lists \ Poisoned :
    (Live(l) /\ is_due(list[l])) ~> ~(Live(l) /\ is_due(list[l]))

=============================================================================
