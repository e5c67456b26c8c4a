---------------------------- MODULE DirectorySync ----------------------------
(***************************************************************************)
(* The sync worker of every instance: app/services/ldap_sync.py.           *)
(*                                                                         *)
(* A pass reads the due lists, then goes through them: lock and look again *)
(* (PostgreSQL), ask the directory, which may take long, write, commit.  On*)
(* SQLite there is one worker and no lock: it goes by what its session read*)
(* at the start of the pass (expire_on_commit is off).                     *)
(***************************************************************************)
EXTENDS DirectoryState

CONSTANTS
  Refusable,   \* lists whose import the database may refuse
  Poisoned,    \* those among them whose import it refuses every time
  Stoppable    \* instances that may be stopped, or crash

ASSUME SyncAssumption ==
  /\ Poisoned \subseteq Refusable /\ Refusable \subseteq Lists
  /\ Stoppable \subseteq Instances

Elsewhere == <<database, providerVars, requestVars, imports, crossed>>

NoCopy == [l \in Lists |-> [row |-> NewList("none"), members |-> {}]]

\* (Mistake: the commit is left out, and the lock kept.)
Release_Not(w) == lock

Release(w) == [l \in Lists |-> IF lock[l] = w THEN Nobody ELSE lock[l]]

\* The pass is over, finished or not: its session is closed.
EndPass(w) ==
  /\ pc' = [pc EXCEPT ![w] = "idle"]
  /\ todo' = [todo EXCEPT ![w] = {}]
  /\ current' = [current EXCEPT ![w] = 0]
  /\ seen' = [seen EXCEPT ![w] = NoCopy]
  /\ lock' = Release(w)

\* On to the next list, with the lock of this one released by the commit.
NextList(w) ==
  /\ pc' = [pc EXCEPT ![w] = "next"]
  /\ current' = [current EXCEPT ![w] = 0]
  /\ lock' = Release(w)

-----------------------------------------------------------------------------

\* _pass: the housekeeping, committed, then due_lists.
StartPass(w) ==
  LET due == {l \in Lists : Live(l) /\ is_due(list[l])}
  IN  /\ pc[w] = "idle"
      /\ draft' = Swept
      /\ due # {} \/ draft' # draft
      /\ todo' = [todo EXCEPT ![w] = due]
      /\ pc' = [pc EXCEPT ![w] = IF due = {} THEN "idle" ELSE "next"]
      /\ seen' = [seen EXCEPT ![w] =
                    [l \in Lists |-> IF IS_SQLITE /\ l \in due THEN Copy(l)
                                     ELSE NoCopy[l]]]
      /\ UNCHANGED <<list, members, lock, current, Elsewhere>>

\* The end of the loop.
EndOfPass(w) ==
  /\ pc[w] = "next" /\ todo[w] = {}
  /\ EndPass(w)
  /\ UNCHANGED <<list, members, draft, Elsewhere>>

\* due_lists orders a pass by id.
ComesNext(w, l) == l \in todo[w] /\ \A m \in todo[w] : l <= m

\* The row as sync_list goes by it.
SeenRow(w, l) == IF IS_SQLITE THEN seen[w][l].row ELSE list[l]

\* (Mistake: the row is locked, but not read again.)
lock_if_still_due_Unchecked(w, l) ==
  IS_SQLITE \/ (Live(l) /\ lock[l] = Nobody)

\* _lock_if_still_due, which SQLite does without: SKIP LOCKED passes over a
\* list that is locked or gone, the fresh row over one that is no longer due.
lock_if_still_due(w, l) ==
  IS_SQLITE \/ (Live(l) /\ lock[l] = Nobody /\ is_due(list[l]))

SkipList(w, l) ==
  /\ pc[w] = "next" /\ ComesNext(w, l)
  /\ ~lock_if_still_due(w, l)
  /\ todo' = [todo EXCEPT ![w] = @ \ {l}]
  /\ UNCHANGED <<list, members, draft, pc, current, seen, lock,
                  Elsewhere>>

\* sync_list up to the search.
TakeList(w, l) ==
  /\ pc[w] = "next" /\ ComesNext(w, l)
  /\ lock_if_still_due(w, l)
  /\ SeenRow(w, l).profile \in Providers \cap enabled
  /\ todo' = [todo EXCEPT ![w] = @ \ {l}]
  /\ current' = [current EXCEPT ![w] = l]
  /\ lock' = IF IS_SQLITE THEN lock ELSE [lock EXCEPT ![l] = w]
  /\ pc' = [pc EXCEPT ![w] = "searching"]
  /\ UNCHANGED <<list, members, draft, seen, Elsewhere>>

\* The provider is gone or switched off: that is recorded, and committed.
RefuseList(w, l) ==
  /\ pc[w] = "next" /\ ComesNext(w, l)
  /\ lock_if_still_due(w, l)
  /\ SeenRow(w, l).profile \notin Providers \cap enabled
  /\ IF Live(l)
     THEN /\ list' = [list EXCEPT ![l] = Recorded(@, "error")]
          /\ todo' = [todo EXCEPT ![w] = @ \ {l}]
          /\ UNCHANGED <<pc, current, seen, lock>>
     ELSE EndPass(w) /\ UNCHANGED list
  /\ UNCHANGED <<members, draft, Elsewhere>>

\* The members as sync_list goes by them.
SeenMembers(w, l) == IF IS_SQLITE THEN seen[w][l].members ELSE members[l]

\* (Mistake: an answer without anybody is acted on as well.)
Refused_Never(w, found) == FALSE

\* An empty answer is not believed of a list that has members.
Refused(w, found) == found = {} /\ SeenMembers(w, current[w]) # {}

\* A failure of the search, recorded and committed.  The row may be gone on
\* SQLite: the commit fails, and with it the pass.
RecordFailure(w) ==
  /\ pc[w] = "searching"
  /\ LET l == current[w]
     IN  IF Live(l)
         THEN /\ list' = [list EXCEPT ![l] = Recorded(@, "error")]
              /\ NextList(w)
              /\ UNCHANGED <<todo, seen>>
         ELSE EndPass(w) /\ UNCHANGED list
  /\ UNCHANGED <<members, draft, Elsewhere>>

\* The rows are imported and the membership made to match.  Who left the list
\* since the session read it cannot be taken out of it again (StaleDataError).
FinishList(w, found) ==
  /\ pc[w] = "searching"
  /\ ~Refused(w, found)
  /\ LET l == current[w]
         leaving == SeenMembers(w, l) \ found
     IN  /\ l \notin Poisoned \/ found = {}
         /\ IF Live(l) /\ leaving \subseteq members[l]
            THEN /\ members' = [members EXCEPT ![l] = (@ \ leaving) \cup found]
                 /\ list' = [list EXCEPT ![l] = Recorded(@, "ok")]
                 /\ NextList(w)
                 /\ UNCHANGED <<todo, seen>>
            ELSE EndPass(w) /\ UNCHANGED <<list, members>>
  /\ UNCHANGED <<draft, Elsewhere>>

\* The database refuses a row of the import: record_failure and the commit
\* after it find the session's transaction rolled back, and the exception ends
\* the pass.
FlushFails(w) ==
  /\ pc[w] = "searching"
  /\ current[w] \in Refusable
  /\ EndPass(w)
  /\ UNCHANGED <<list, members, draft, Elsewhere>>

-----------------------------------------------------------------------------

\* stop_worker, heeded between two lists, or a crash: the connection is closed
\* and its lock released.  The worker that is idle after it is the one of the
\* next process.
Restart(w) ==
  /\ w \in Stoppable /\ pc[w] \in {"next", "searching"}
  /\ EndPass(w)
  /\ UNCHANGED <<list, members, draft, Elsewhere>>

\* ldap_sync_interval_minutes go by.
IntervalPasses(l) ==
  /\ list[l].synced = "fresh"
  /\ list' = [list EXCEPT ![l].synced = "due"]
  /\ UNCHANGED <<members, draft, pc, todo, current, seen, lock,
                  Elsewhere>>

SyncStep(w) ==
  \/ StartPass(w) \/ EndOfPass(w)
  \/ \E l \in Lists : SkipList(w, l) \/ TakeList(w, l) \/ RefuseList(w, l)
  \/ RecordFailure(w) \/ FlushFails(w)
  \/ \E found \in SUBSET People : FinishList(w, found)

Sync == \E w \in Instances : SyncStep(w) \/ Restart(w)

=============================================================================
