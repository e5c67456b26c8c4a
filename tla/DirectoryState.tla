---------------------------- MODULE DirectoryState ----------------------------
(***************************************************************************)
(* The state around the directories that recipients come from: the LDAP    *)
(* providers, the lists filled from them, the drafts of the import wizard  *)
(* (app/models.py), the requests that work on them and the sync worker of  *)
(* every instance.                                                         *)
(*                                                                         *)
(* A provider is known to the other rows by its id, which is no foreign    *)
(* key.  stamp[i] is the creation of the provider that has the id i, 0 when*)
(* none has: SQLite hands the id of the newest provider out again once it  *)
(* is deleted, PostgreSQL never does.                                      *)
(***************************************************************************)
EXTENDS Integers, FiniteSets

CONSTANTS
  Databases,     \* the databases considered: "sqlite", "postgresql"
  Lists,         \* ids of recipient lists, in the order of a pass
  People,        \* addresses a directory may return
  Filters,       \* search filters, as they were used
  Instances,     \* processes, each with a sync worker
  Sessions,      \* requests that may be in progress at the same time
  Tokens,        \* tokens of import drafts
  Nobody,        \* holds the row lock of a list that is not locked
  MaxProviders   \* bound: how many providers are ever created

ASSUME DirectoryAssumption ==
  /\ Databases \subseteq {"sqlite", "postgresql"}
  /\ Lists \subseteq Nat \ {0}
  /\ Nobody \notin Instances
  /\ Filters \subseteq STRING \ {"none"} /\ Filters # {}
  /\ MaxProviders \in Nat \ {0}

VARIABLES
  database,      \* which of the databases it is
  \* The database:
  stamp,         \* ldap_profiles.created_at, by id
  enabled,       \* the ids of providers that are switched on
  allow_import,  \* the ids of providers open to import
  created,       \* how many providers were created
  list,          \* recipient_lists, by id
  members,       \* list_members
  lock,          \* who holds the row lock of a list
  draft,         \* import_drafts, by token
  \* The requests:
  request,       \* what each session has read and not yet committed
  requests,      \* how many requests were begun
  \* The sync workers:
  pc,            \* where each worker is
  todo,          \* the due lists its pass has not come to
  current,       \* the list it is syncing
  seen,          \* list and members as its session holds them
  \* History, read by no action:
  imports,       \* how often each draft was imported
  crossed        \* lists whose import crossed the delete of its provider, or
                 \* another import

providerVars == <<stamp, enabled, allow_import, created>>
listVars     == <<list, members>>
draftVars    == <<draft, imports>>
requestVars  == <<request, requests>>
workerVars   == <<pc, todo, current, seen, lock>>

vars == <<database, providerVars, listVars, draftVars, requestVars, workerVars,
          crossed>>

-----------------------------------------------------------------------------

IS_SQLITE == database = "sqlite"

Ids == 1..MaxProviders

Providers == {i \in Ids : stamp[i] # 0}

\* The id a new provider is given: SQLite takes one more than the largest.
IsNextId(i) ==
  IF IS_SQLITE THEN /\ i = 1 \/ i - 1 \in Providers
                    /\ \A j \in Providers : j < i
  ELSE i = created + 1

\* One row of recipient_lists.  "filter" is the query it remembers, "query" the
\* creation of the provider that was searched with it (history).
ListRow == [row : {"none", "live", "gone"}, profile : 0..MaxProviders,
            filter : Filters \cup {"none"}, query : 0..MaxProviders,
            sync_enabled : BOOLEAN,
            synced : {"never", "due", "fresh"}, status : {"", "ok", "error"}]

NewList(state) ==
  [row |-> state, profile |-> 0, filter |-> "none", query |-> 0,
   sync_enabled |-> FALSE, synced |-> "never", status |-> ""]

Live(l) == list[l].row = "live"

is_ldap_backed(r) == r.profile # 0 /\ r.filter # "none"

\* "synced" is last_synced_at against the interval.
is_due(r) == r.sync_enabled /\ is_ldap_backed(r) /\ r.synced # "fresh"

\* _record: last_synced_at and last_sync_status.
Recorded(r, status) == [r EXCEPT !.synced = "fresh", !.status = status]

\* What a session holds of a list that it has read: a copy of the row and of its
\* members.
Copy(l) == [row |-> list[l], members |-> members[l]]

\* What a flush makes of a column: one that was not changed is not written.
Written(form, was, is) == IF form # was THEN form ELSE is

\* (Mistake: the worker's transaction does not hold the row.)
Writable_Always(l) == TRUE

\* Writing the row of a list waits for whoever holds its lock, and so does a
\* new row of list_members, which refers to it.  Removing a member does not.
Writable(l) == lock[l] = Nobody

-----------------------------------------------------------------------------
(* Drafts *)

Ended == {"imported", "cancelled", "swept", "discarded", "refused"}

DraftRow == [row : {"unused", "live"} \cup Ended, expired : BOOLEAN,
             id : 0..MaxProviders, stamp : 0..MaxProviders,
             filter : Filters \cup {"none"}, people : SUBSET People]

NoDraft == [row |-> "unused", expired |-> FALSE, id |-> 0, stamp |-> 0,
            filter |-> "none", people |-> {}]

LiveDrafts == {t \in Tokens : draft[t].row = "live"}

\* The drafts after some of them have ended: the rows are deleted.
Ending(tokens, how) ==
  [t \in Tokens |->
     IF t \in tokens \cap LiveDrafts
     THEN [draft[t] EXCEPT !.row = how, !.expired = FALSE, !.people = {}]
     ELSE draft[t]]

\* sweep_expired_drafts
Swept == Ending({t \in Tokens : draft[t].expired}, "swept")

-----------------------------------------------------------------------------
(* Requests *)

Idle == [op |-> "idle"]

Busy(s) == request[s].op # "idle"

WorkerStates == {"idle", "next", "searching", "off"}

StateTypeOK ==
  /\ database \in Databases
  /\ stamp \in [Ids -> 0..MaxProviders]
  /\ enabled \subseteq Ids /\ allow_import \subseteq Ids
  /\ created \in 0..MaxProviders
  /\ list \in [Lists -> ListRow]
  /\ members \in [Lists -> SUBSET People]
  /\ lock \in [Lists -> Instances \cup {Nobody}]
  /\ draft \in [Tokens -> DraftRow]
  /\ pc \in [Instances -> WorkerStates]
  /\ todo \in [Instances -> SUBSET Lists]
  /\ current \in [Instances -> Lists \cup {0}]

=============================================================================
