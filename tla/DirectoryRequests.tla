-------------------------- MODULE DirectoryRequests --------------------------
(***************************************************************************)
(* The handlers that work on directories, drafts and lists: the import     *)
(* wizard (app/routers/import_wizard.py), the Lists page                   *)
(* (app/routers/recipients.py) and the LDAP providers of the Authentication*)
(* page (app/routers/auth_providers.py).                                   *)
(*                                                                         *)
(* A handler that waits (for the directory, for the rest of the form, for  *)
(* a row lock) between a read and what it does with it takes several steps,*)
(* and request[s] is what it has read; any other is one step.  Drafts are  *)
(* those of directory searches: the others differ in having no provider to *)
(* check.                                                                  *)
(***************************************************************************)
EXTENDS DirectoryState

CONSTANTS
  Ops,           \* the operations considered
  Forms,         \* bound: what the form of a provider may say of it
  MaxRequests    \* bound: how many requests are begun

ASSUME RequestsAssumption ==
  /\ MaxRequests \in Nat
  /\ Forms \subseteq [on : BOOLEAN, import : BOOLEAN]

\* A request that begins, and may be over at once.
Begins(op) ==
  /\ op \in Ops
  /\ requests < MaxRequests
  /\ requests' = requests + 1

Reads(s, record) ==
  /\ ~Busy(s)
  /\ request' = [request EXCEPT ![s] = record]

Done(s) == request' = [request EXCEPT ![s] = Idle]

NotWorkers == <<database, workerVars>>

-----------------------------------------------------------------------------
(* The providers *)

\* _save of a new one.
create_provider(i) ==
  /\ Begins("create_provider")
  /\ created < MaxProviders
  /\ IsNextId(i)
  /\ created' = created + 1
  /\ stamp' = [stamp EXCEPT ![i] = created + 1]
  /\ enabled' = enabled \cup {i}
  /\ allow_import' = allow_import \cup {i}
  /\ UNCHANGED <<listVars, draftVars, request, NotWorkers, crossed>>

\* update reads the provider and waits for the rest of the form ...
update_provider(s, i) ==
  /\ Begins("update_provider")
  /\ i \in Providers
  /\ Reads(s, [op |-> "edit", id |-> i, on |-> i \in enabled,
               import |-> i \in allow_import])
  /\ UNCHANGED <<providerVars, listVars, draftVars, NotWorkers, crossed>>

\* A set of providers, once a form that was shown "was" has said "on" for one.
Ticked(S, i, on, was) ==
  IF Written(on, was, i \in S) THEN S \cup {i} ELSE S \ {i}

\* ... and _save writes what the form changes of it, as far as the lists depend on
\* it, unless it is gone.
SaveProvider(s, on, import) ==
  LET r == request[s]
  IN  /\ r.op = "edit"
      /\ IF r.id \in Providers
         THEN /\ enabled' = Ticked(enabled, r.id, on, r.on)
              /\ allow_import' = Ticked(allow_import, r.id, import, r.import)
         ELSE UNCHANGED <<enabled, allow_import>>
      /\ Done(s)
      /\ UNCHANGED <<stamp, created, listVars, draftVars, requests, NotWorkers,
                     crossed>>

\* delete: detach_profile and discard_drafts_for_profile read what they are
\* about to change ...
delete_provider(s, i) ==
  /\ Begins("delete_provider")
  /\ i \in Providers
  /\ LET lists == {l \in Lists : Live(l) /\ list[l].profile = i}
     IN  Reads(s, [op |-> "delete", id |-> i, lists |-> lists,
                   drafts |-> {t \in LiveDrafts : draft[t].id = i},
                   rows |-> [l \in Lists |-> IF l \in lists THEN list[l]
                                             ELSE NewList("none")]])
  /\ UNCHANGED <<providerVars, listVars, draftVars, NotWorkers, crossed>>

\* A detached list, by what was read of it: only what differs is written.
Detached(r, l) ==
  [list[l] EXCEPT
     !.profile = 0,
     !.sync_enabled = Written(FALSE, r.rows[l].sync_enabled, @),
     !.synced = IF r.rows[l].status # "error" THEN "fresh" ELSE @,
     !.status = Written("error", r.rows[l].status, @)]

\* ... and one transaction writes it, unless a list is gone by then.
DeleteProvider(s) ==
  LET r == request[s]
  IN  /\ r.op = "delete"
      /\ \A l \in r.lists : Writable(l)
      /\ IF \A l \in r.lists : Live(l)
         THEN /\ stamp' = [stamp EXCEPT ![r.id] = 0]
              /\ enabled' = enabled \ {r.id}
              /\ allow_import' = allow_import \ {r.id}
              /\ list' = [l \in Lists |-> IF l \in r.lists THEN Detached(r, l)
                                          ELSE list[l]]
              /\ draft' = Ending(r.drafts, "discarded")
         ELSE UNCHANGED <<stamp, enabled, allow_import, list, draft>>
      /\ Done(s)
      /\ UNCHANGED <<created, members, imports, requests, NotWorkers, crossed>>

-----------------------------------------------------------------------------
(* The import wizard *)

\* ldap_search: the provider is one that may be imported from now ...
ldap_search(s, i) ==
  /\ Begins("search")
  /\ i \in Providers \cap enabled \cap allow_import
  /\ Reads(s, [op |-> "search", id |-> i, stamp |-> stamp[i]])
  /\ UNCHANGED <<providerVars, listVars, draftVars, NotWorkers, crossed>>

\* ... and _save_draft runs whenever the directory has answered.  (The filter was
\* in the form.)
SaveDraft(s, t, filter, people) ==
  /\ request[s].op = "search"
  /\ draft[t].row = "unused"
  /\ draft' = [Swept EXCEPT ![t] =
                 [row |-> "live", expired |-> FALSE, id |-> request[s].id,
                  stamp |-> request[s].stamp, filter |-> filter,
                  people |-> people]]
  /\ Done(s)
  /\ UNCHANGED <<providerVars, listVars, imports, requests, NotWorkers, crossed>>

\* The search failed, or found nobody.
SearchFails(s) ==
  /\ request[s].op = "search"
  /\ Done(s)
  /\ UNCHANGED <<providerVars, listVars, draftVars, requests, NotWorkers,
                 crossed>>

\* _draft: there, and not past its lifetime.
Draft(t) == draft[t].row = "live" /\ ~draft[t].expired

\* finish: the draft is read, then the form is awaited.  (What it says is chosen
\* below, where it is used.) ...
finish(s, t) ==
  /\ Begins("finish")
  /\ Draft(t)
  /\ Reads(s, [op |-> "finish", token |-> t])
  /\ UNCHANGED <<providerVars, listVars, draftVars, NotWorkers, crossed>>

\* (Mistake: the id alone tells the provider.)
IsStillOpen_ById(t) == draft[t].id \in Providers \cap enabled \cap allow_import

\* The provider is the one that was searched, and still open to import.
IsStillOpen(t) ==
  /\ draft[t].id \in Providers \cap enabled \cap allow_import
  /\ stamp[draft[t].id] = draft[t].stamp

\* ... then the provider is looked up: no import without it ...
CheckProvider(s) ==
  LET r == request[s]
  IN  /\ r.op = "finish"
      /\ IF IsStillOpen(r.token)
         THEN /\ request' = [request EXCEPT ![s] =
                               [op |-> "claim", token |-> r.token,
                                found |-> stamp[draft[r.token].id]]]
              /\ UNCHANGED draft
         ELSE /\ draft' = Ending({r.token}, "refused")
              /\ Done(s)
      /\ UNCHANGED <<providerVars, listVars, imports, requests, NotWorkers,
                     crossed>>

\* (Mistake: whoever has read the draft imports it.)
Claimed_Always(t) == TRUE

\* The DELETE of the draft removes a row.
Claimed(t) == draft[t].row = "live"

\* What an import reads of its target list; 0 is no list.  On SQLite, where nobody
\* else writes once the draft is claimed, it reads what is there at its commit.
Target(l) == IF l = 0 THEN [row |-> NewList("none"), members |-> {}] ELSE Copy(l)

\* ... the draft is claimed, which nobody sees yet, and the target list read, by id
\* or by the name of a new one ...
ReadTarget(s, l, by_name) ==
  LET r == request[s]
  IN  /\ r.op = "claim"
      /\ l = 0 => ~by_name
      /\ request' = [request EXCEPT ![s] =
                       [op |-> "import", token |-> r.token, found |-> r.found,
                        target |-> l, by_name |-> by_name,
                        seen |-> Target(IF IS_SQLITE THEN 0 ELSE l)]]
      /\ UNCHANGED <<providerVars, listVars, draftVars, requests, NotWorkers,
                     crossed>>

Seen(r) == IF IS_SQLITE THEN Target(r.target) ELSE r.seen

\* A name that is free makes a list.
MakesList(r) == r.by_name /\ Seen(r).row.row = "none"

\* A list chosen by id that is gone leaves the import without one.
HasTarget(r) == r.target # 0 /\ (Seen(r).row.row = "live" \/ MakesList(r))

\* The rows of list_members that import_rows adds.
Joining(r) == draft[r.token].people \ Seen(r).members

\* The row of the target after the import, were it "row" before.  If the import
\* writes some of the query, and all of it is its own then, it was searched with.
Imported(r, row, keep_in_sync) ==
  LET d      == draft[r.token]
      was    == Seen(r).row
      filter == Written(d.filter, was.filter, row.filter)
      own    == filter = d.filter /\ ~(d.id = was.profile /\ d.filter = was.filter)
  IN  [row EXCEPT
         !.row = "live",
         !.profile = Written(d.id, was.profile, @),
         !.filter = filter,
         !.query = IF own THEN d.stamp ELSE @,
         !.sync_enabled = Written(keep_in_sync, was.sync_enabled, @)]

WritesTarget(r, keep_in_sync) ==
  Joining(r) # {} \/ Imported(r, Seen(r).row, keep_in_sync) # Seen(r).row

\* A unique index has the name, or somebody who is to join; or the row is gone
\* that is to be written.
ImportFails(r, keep_in_sync) ==
  LET l == r.target
  IN  /\ HasTarget(r)
      /\ IF MakesList(r) THEN Live(l)
         ELSE \/ ~Live(l) /\ WritesTarget(r, keep_in_sync)
              \/ Joining(r) \cap members[l] # {}

\* The list has the directory and the query that it had.
KeepsLink(row, l) ==
  /\ Live(l)
  /\ row.profile = list[l].profile /\ row.query = list[l].query

\* This import crosses the delete of the provider it found: the delete has read
\* the lists, or it was committed since.  Or it crosses another import, and the
\* row has a column of each.
Crosses(r, row) ==
  LET id == draft[r.token].id
  IN  \/ stamp[id] # r.found
      \/ \E s \in Sessions : request[s].op = "delete" /\ request[s].id = id
      \/ row.profile # id \/ row.query # draft[r.token].stamp

\* ... and it is imported, to be kept in sync or not: all of this is one
\* transaction.
ClaimAndImport(s, keep_in_sync) ==
  LET r == request[s]
      t == r.token
      l == r.target
      row == Imported(r, list[l], keep_in_sync)
  IN  /\ r.op = "import"
      /\ Done(s)
      /\ IF ~Claimed(t) \/ ImportFails(r, keep_in_sync)
         THEN UNCHANGED <<listVars, draftVars, crossed>>
         ELSE /\ draft' = Ending({t}, "imported")
              /\ imports' = [imports EXCEPT ![t] = @ + 1]
              /\ IF /\ HasTarget(r)
                    /\ Live(l) \/ (MakesList(r) /\ list[l].row = "none")
                 THEN /\ WritesTarget(r, keep_in_sync) => Writable(l)
                      /\ members' = [members EXCEPT ![l] = @ \cup Joining(r)]
                      /\ list' = [list EXCEPT ![l] = row]
                      /\ crossed' = IF KeepsLink(row, l) THEN crossed
                                    ELSE IF Crosses(r, row)
                                    THEN crossed \cup {l}
                                    ELSE crossed \ {l}
                 ELSE UNCHANGED <<listVars, crossed>>
      /\ UNCHANGED <<providerVars, requests, NotWorkers>>

cancel(t) ==
  /\ Begins("cancel")
  /\ Draft(t)
  /\ draft' = Ending({t}, "cancelled")
  /\ UNCHANGED <<providerVars, listVars, imports, request, NotWorkers, crossed>>

\* DRAFT_LIFETIME goes by.
Expire(t) ==
  /\ Draft(t)
  /\ draft' = [draft EXCEPT ![t].expired = TRUE]
  /\ UNCHANGED <<providerVars, listVars, imports, requestVars, NotWorkers,
                 crossed>>

-----------------------------------------------------------------------------
(* The Lists page *)

create_list(l) ==
  /\ Begins("create_list")
  /\ list[l].row = "none"
  /\ list' = [list EXCEPT ![l] = NewList("live")]
  /\ UNCHANGED <<providerVars, members, draftVars, request, NotWorkers, crossed>>

delete_list(l) ==
  /\ Begins("delete_list")
  /\ Live(l) /\ Writable(l)
  /\ list' = [list EXCEPT ![l] = NewList(IF IS_SQLITE THEN "none" ELSE "gone")]
  /\ members' = [members EXCEPT ![l] = {}]
  /\ crossed' = crossed \ {l}
  /\ UNCHANGED <<providerVars, draftVars, request, NotWorkers>>

\* The switch is read ...
toggle_list_sync(s, l) ==
  /\ Begins("toggle_sync")
  /\ Live(l) /\ is_ldap_backed(list[l])
  /\ Reads(s, [op |-> "toggle", list |-> l, sync |-> list[l].sync_enabled])
  /\ UNCHANGED <<providerVars, listVars, draftVars, NotWorkers, crossed>>

\* ... and turned, whatever it is by then.
CommitToggle(s) ==
  LET l == request[s].list
      was == request[s].sync
  IN  /\ request[s].op = "toggle"
      /\ IF Live(l)
         THEN /\ Writable(l)
              /\ list' = [list EXCEPT ![l].sync_enabled = ~was]
         ELSE UNCHANGED list
      /\ Done(s)
      /\ UNCHANGED <<providerVars, members, draftVars, requests, NotWorkers,
                     crossed>>

\* What the recipients pages do to the membership (ImportPages has them one by
\* one): somebody is added to a list, or taken out of it.
edit_members(l, p) ==
  /\ Begins("members")
  /\ Live(l)
  /\ \/ p \notin members[l] /\ Writable(l)
        /\ members' = [members EXCEPT ![l] = @ \cup {p}]
     \/ p \in members[l] /\ members' = [members EXCEPT ![l] = @ \ {p}]
  /\ UNCHANGED <<providerVars, list, draftVars, request, NotWorkers, crossed>>

\* sync_list_now: sync_list on request, whether due or not, and without the
\* worker's lock.  What cannot be searched is recorded at once ...
sync_list_now(s, l) ==
  /\ Begins("sync")
  /\ Live(l)
  /\ IF is_ldap_backed(list[l]) /\ list[l].profile \in Providers \cap enabled
     THEN /\ Reads(s, [op |-> "sync", list |-> l])
          /\ UNCHANGED list
     ELSE /\ Writable(l)
          /\ list' = [list EXCEPT ![l] = Recorded(@, "error")]
          /\ UNCHANGED request
  /\ UNCHANGED <<providerVars, members, draftVars, NotWorkers, crossed>>

\* ... the rest when the directory has answered.  A list that is gone by then,
\* or an answer without anybody, changes no member.
FinishSyncNow(s, found) ==
  LET l == request[s].list
      status == IF found = {} /\ members[l] # {} THEN "error" ELSE "ok"
  IN  /\ request[s].op = "sync"
      /\ Writable(l)
      /\ IF Live(l)
         THEN /\ list' = [list EXCEPT ![l] = Recorded(@, status)]
              /\ members' = [members EXCEPT ![l] =
                               IF status = "ok" THEN found ELSE @]
         ELSE UNCHANGED <<list, members>>
      /\ Done(s)
      /\ UNCHANGED <<providerVars, draftVars, requests, NotWorkers, crossed>>

SyncNowFails(s) ==
  LET l == request[s].list
  IN  /\ request[s].op = "sync"
      /\ Writable(l)
      /\ list' = IF Live(l) THEN [list EXCEPT ![l] = Recorded(@, "error")]
                 ELSE list
      /\ Done(s)
      /\ UNCHANGED <<providerVars, members, draftVars, requests, NotWorkers,
                     crossed>>

-----------------------------------------------------------------------------

Providing ==
  \/ \E i \in Ids : create_provider(i)
  \/ \E i \in Ids, s \in Sessions :
       update_provider(s, i) \/ delete_provider(s, i)
  \/ \E s \in Sessions, form \in Forms :
       SaveProvider(s, form.on, form.import)
  \/ \E s \in Sessions : DeleteProvider(s)

Wizard ==
  \/ \E s \in Sessions, i \in Ids : ldap_search(s, i)
  \/ \E s \in Sessions, t \in Tokens, people \in SUBSET People \ {{}} :
       \E filter \in Filters : SaveDraft(s, t, filter, people)
  \/ \E s \in Sessions, t \in Tokens : finish(s, t)
  \/ \E s \in Sessions : SearchFails(s) \/ CheckProvider(s)
  \/ \E s \in Sessions, l \in Lists \cup {0}, by_name \in BOOLEAN :
       ReadTarget(s, l, by_name)
  \/ \E s \in Sessions, sync \in BOOLEAN : ClaimAndImport(s, sync)
  \/ \E t \in Tokens : cancel(t) \/ Expire(t)

ListsPage ==
  \/ \E l \in Lists : create_list(l) \/ delete_list(l)
  \/ \E s \in Sessions, l \in Lists : toggle_list_sync(s, l)
  \/ \E s \in Sessions : CommitToggle(s)
  \/ \E l \in Lists, p \in People : edit_members(l, p)
  \/ \E s \in Sessions, l \in Lists : sync_list_now(s, l)
  \/ \E s \in Sessions, found \in SUBSET People : FinishSyncNow(s, found)
  \/ \E s \in Sessions : SyncNowFails(s)

Requests == Providing \/ Wizard \/ ListsPage

=============================================================================
