--------------------------- MODULE AccountRequests ---------------------------
(***************************************************************************)
(* What works on accounts and providers, sign-in aside: the setup page     *)
(* (app/services/setup.py), the Users and Authentication pages             *)
(* (app/routers/users.py, auth_providers.py), the start of a process       *)
(* (app/main.py) and the command line (app/cli.py).                        *)
(*                                                                         *)
(* A handler that decides by what it has read takes two steps, the second  *)
(* being its commit, and request[s] is what it has read; one whose decision*)
(* the database repeats, or that cannot be told from its commit, is one.   *)
(***************************************************************************)
EXTENDS AccountState

CONSTANTS
  Ops,           \* the operations considered
  MaxRequests    \* bound: how many requests are begun

ASSUME RequestsAssumption == MaxRequests \in Nat

\* A request that begins, and may be over at once.
Begins(op) ==
  /\ op \in Ops
  /\ requests < MaxRequests
  /\ requests' = requests + 1

Reads(s, record) ==
  /\ ~Busy(s)
  /\ request' = [request EXCEPT ![s] = record]

Done(s) == request' = [request EXCEPT ![s] = Idle]

\* first_run_setup: every page but the setup waits for the first account, and
\* an upgraded database for bootstrap, which comes before the first request.
Open(op) ==
  /\ Begins(op)
  /\ is_done
  /\ boot.op \notin {"due", "migrates"}
  /\ IS_SQLITE => boot.op = "idle"

\* require_admin
IsAdminPage(op, me) == Open(op) /\ me \in ActiveAdmins

-----------------------------------------------------------------------------
(* First-run setup *)

\* (Mistake: create_initial_admin takes no lock.)
LockIsFree_Always == TRUE

\* _lock in a process, pg_advisory_xact_lock across them.
LockIsFree == setupLock = NoSession

\* create_initial_admin: there is no account ...
create_initial_admin(s) ==
  /\ Begins("setup")
  /\ LockIsFree
  /\ ~is_done
  /\ Reads(s, [op |-> "setup"])
  /\ setupLock' = s
  /\ UNCHANGED <<database, userVars, providerVars, formVars, boot, setups,
                 crossed, signInVars>>

\* ... and now there is one, with an ASCII name.  A marker that another setup has
\* left is deleted first, so it stops nobody.
CommitSetup(s, name) ==
  /\ request[s].op = "setup"
  /\ name[1] \notin NonAscii
  /\ MayWrite(s)
  /\ Insert([Account(name, "local", 0, name[1], TRUE) EXCEPT !.initial = TRUE])
  /\ setups' = setups + 1
  /\ setupLock' = NoSession
  /\ Done(s)
  /\ UNCHANGED <<database, providerVars, formVars, requests, boot, crossed,
                 signInVars>>

\* The marker's key is taken after all, or another statement fails: what has been
\* begun is rolled back.
AbortSetup(s) ==
  /\ request[s].op = "setup"
  /\ setupLock' = NoSession
  /\ Done(s)
  /\ UNCHANGED <<database, userVars, providerVars, formVars, requests, boot,
                 setups, crossed, signInVars>>

-----------------------------------------------------------------------------
(* The start of a process *)

\* The promotion: without an administrator, the oldest account becomes one.
Promoted ==
  IF \E u \in LiveUsers : user[u].admin THEN {} ELSE Oldest(LiveUsers)

\* adopt_existing: without an initial administrator, the oldest local one is.
\* Whether it is disabled is not asked.
Adopted ==
  IF Initial # {} THEN {}
  ELSE Oldest({u \in LiveUsers : /\ user[u].source = "local"
                                 /\ user[u].admin \/ u \in Promoted})

\* The accounts that directory sign-in made before it had several providers.
Legacy == {u \in LiveUsers : user[u].source = "ldap" /\ user[u].provider = 0}

\* bootstrap, one process after the other (startup_lock).  On SQLite it is the
\* only one ...
bootstrap ==
  /\ boot.op \in {"idle", "due"}
  /\ Promoted \cup Adopted # {} \/ boot.op = "due"
  /\ IS_SQLITE => \A s \in Sessions : ~Busy(s)
  /\ boot' = [op |-> IF boot.op = "due" THEN "migrates" ELSE "reads",
              promote |-> IF Promoted = {} THEN 0
                          ELSE CHOOSE u \in Promoted : TRUE,
              adopt |-> IF Adopted = {} THEN 0 ELSE CHOOSE u \in Adopted : TRUE]
  /\ UNCHANGED <<database, userVars, providerVars, formVars, requestVars,
                 setupLock, setups, crossed, signInVars>>

\* Another request has read the account as one that is not protected, or has
\* already taken what adoption goes by.
Crosses(u) ==
  \/ \E s \in Sessions : request[s].op \in {"update", "delete"} /\ request[s].id = u
  \/ ~(user[u].admin \/ boot.promote = u)

\* ... and what was chosen is written, unless it is gone; migrate_legacy_settings
\* then gives the accounts without a provider to the one there was, once.
CommitBootstrap ==
  LET live == {boot.promote, boot.adopt} \cap Users \subseteq LiveUsers
      one  == boot.op = "migrates" /\ 1 \in Providers("ldap")
  IN  /\ boot.op \in {"reads", "migrates"}
      /\ IF live
         THEN /\ user' =
                   [u \in Users |->
                      [user[u] EXCEPT
                         !.admin = @ \/ u = boot.promote,
                         !.initial = @ \/ u = boot.adopt,
                         !.provider = IF one /\ u \in Legacy THEN 1 ELSE @]]
              /\ crossed' = crossed \cup {u \in {boot.adopt} \cap Users : Crosses(u)}
              /\ boot' = NotBooting
         ELSE /\ boot' = IF boot.op = "reads" THEN NotBooting ELSE BootDue
              /\ UNCHANGED <<user, crossed>>
      /\ UNCHANGED <<database, users, providerVars, formVars, requestVars,
                     setupLock, setups, signInVars>>

-----------------------------------------------------------------------------
(* The Users page *)

\* create: the name is free, in the check and for the unique index.
create(me, name, admin) ==
  /\ IsAdminPage("create", me)
  /\ Matching(name) \cup Named(name) = {}
  /\ Insert(Account(name, "local", 0, name[1], admin))
  /\ UNCHANGED <<database, providerVars, formVars, request, startVars,
                 signInVars>>

\* True when removing this account's access would leave nobody in charge.
_last_admin(u) == ActiveAdmins = {u}

\* (Mistake: the initial administrator is like any other.)
IsProtected_Not(me, u) == u = me \/ _last_admin(u)

\* The accounts whose access this administrator may not take away.
IsProtected(me, u) == user[u].initial \/ u = me \/ _last_admin(u)

LosesAccess(u, admin, active) ==
  (user[u].admin /\ ~admin) \/ (user[u].active /\ ~active)

\* update: the checks ...
update(s, me, u, admin, active) ==
  /\ IsAdminPage("update", me)
  /\ u \in LiveUsers
  /\ LosesAccess(u, admin, active) => ~IsProtected(me, u)
  /\ <<admin, active>> # <<user[u].admin, user[u].active>>
  /\ Reads(s, [op |-> "update", id |-> u, admin |-> admin, active |-> active,
               was_admin |-> user[u].admin, was_active |-> user[u].active])
  /\ UNCHANGED <<database, userVars, providerVars, formVars, startVars,
                 signInVars>>

\* What a flush makes of a column: one that was not changed is not written.
Written(form, was, is) == IF form # was THEN form ELSE is

\* ... and the write.
CommitUpdate(s) ==
  LET r == request[s]
  IN  /\ r.op = "update"
      /\ MayWrite(s)
      /\ IF Live(r.id)
         THEN user' =
                [user EXCEPT
                   ![r.id].admin = Written(r.admin, r.was_admin, @),
                   ![r.id].active = Written(r.active, r.was_active, @)]
         ELSE UNCHANGED user
      /\ Done(s)
      /\ UNCHANGED <<database, users, providerVars, formVars, requests,
                     startVars, signInVars>>

\* delete_user: the same checks ...
delete_user(s, me, u) ==
  /\ IsAdminPage("delete", me)
  /\ u \in LiveUsers
  /\ ~IsProtected(me, u)
  /\ Reads(s, [op |-> "delete", id |-> u])
  /\ UNCHANGED <<database, userVars, providerVars, formVars, startVars,
                 signInVars>>

\* ... and the row goes.
CommitDelete(s) ==
  LET u == request[s].id
  IN  /\ request[s].op = "delete"
      /\ MayWrite(s)
      /\ user' = [user EXCEPT ![u].row = IF @ = "live" THEN "gone" ELSE @]
      /\ Done(s)
      /\ UNCHANGED <<database, users, providerVars, formVars, requests,
                     startVars, signInVars>>

-----------------------------------------------------------------------------
(* The Authentication page *)

\* set_local_form, to show it ...
show_local_form(me) ==
  /\ IsAdminPage("form", me)
  /\ \A s \in Sessions : MayWrite(s)
  /\ show_form' = TRUE /\ lateHide' = FALSE
  /\ UNCHANGED <<database, userVars, providerVars, request, startVars,
                 signInVars>>

\* ... and to hide it: it may be hidden now ...
set_local_form(s, me) ==
  /\ IsAdminPage("form", me)
  /\ show_form
  /\ can_hide_local_form(provider)
  /\ Reads(s, [op |-> "hide"])
  /\ UNCHANGED <<database, userVars, providerVars, formVars, startVars,
                 signInVars>>

\* ... and is.  It is late when the providers have changed since, or when who is
\* changing them has read that it is shown.
CommitHide(s) ==
  /\ request[s].op = "hide"
  /\ MayWrite(s)
  /\ show_form' = FALSE
  /\ lateHide' = (\/ lateHide
                  \/ ~can_hide_local_form(provider)
                  \/ \E t \in Sessions : request[t].op = "flushed")
  /\ Done(s)
  /\ UNCHANGED <<database, userVars, providerVars, requests, startVars,
                 signInVars>>

\* (Mistake: saving or deleting a provider leaves the form as it is.)
KeepsAWayIn_Not(providers) == FALSE

\* _keep_a_way_in, with the providers as they are about to be, writes: the form
\* may not be hidden, and is.
KeepsAWayIn(providers) == ~can_hide_local_form(providers) /\ ~show_form

\* What the two forms are about: the fields that sign-in depends on.
\* (_apply_ldap, _apply_oidc; a form with an error is shown again, and that is
\* no step.)
Applied(stamp, login, auto) == [stamp |-> stamp, login |-> login, auto |-> auto]

\* _save and delete have written the row, and wait for nobody else's
\* uncommitted one; _keep_a_way_in has looked at the result.
MayFlush(s, k, i) ==
  /\ MayWrite(s)
  /\ \A t \in Sessions : request[t].op = "flushed" =>
       <<request[t].kind, request[t].id>> # <<k, i>>

Flush(s, k, i, row, cut) ==
  request' =
    [request EXCEPT ![s] =
       [op |-> "flushed", kind |-> k, id |-> i, row |-> row, cut |-> cut,
        shows |-> KeepsAWayIn([provider EXCEPT ![k][i] = row])]]

Flushes(s, k, i, row, cut) ==
  /\ ~Busy(s)
  /\ MayFlush(s, k, i)
  /\ Flush(s, k, i, row, cut)

\* _save of a new provider.
create_provider(s, me, k, i, login, auto) ==
  /\ IsAdminPage("save", me)
  /\ created[k] < MaxProviders
  /\ IsNextId(k, i)
  /\ Flushes(s, k, i, Applied(created[k] + 1, login, auto), {})
  /\ created' = [created EXCEPT ![k] = @ + 1]
  /\ UNCHANGED <<database, userVars, provider, formVars, startVars, signInVars>>

\* update reads the provider and waits for the rest of the form ...
update_provider(s, me, k, i, login, auto) ==
  /\ IsAdminPage("save", me)
  /\ i \in Providers(k)
  /\ Reads(s, [op |-> "edit", kind |-> k, id |-> i, was |-> provider[k][i],
               form |-> Applied(provider[k][i].stamp, login, auto)])
  /\ UNCHANGED <<database, userVars, providerVars, formVars, startVars,
                 signInVars>>

\* ... and _save writes the columns that the form changes, in the row that has
\* the id now ...
SaveProvider(s) ==
  LET r  == request[s]
      is == provider[r.kind][r.id]
  IN  /\ r.op = "edit"
      /\ is.stamp # 0
      /\ MayFlush(s, r.kind, r.id)
      /\ Flush(s, r.kind, r.id,
               Applied(is.stamp, Written(r.form.login, r.was.login, is.login),
                       Written(r.form.auto, r.was.auto, is.auto)), {})
      /\ UNCHANGED <<database, userVars, providerVars, formVars, requests,
                     startVars, signInVars>>

\* ... unless there is none, ...
SaveNothing(s) ==
  LET r == request[s]
  IN  /\ r.op = "edit"
      /\ provider[r.kind][r.id].stamp = 0
      /\ Done(s)
      /\ UNCHANGED <<database, userVars, providerVars, formVars, requests,
                     startVars, signInVars>>

\* ... or the form changes none: then it is only about the sign-in form.
SaveUnchanged(s) ==
  /\ request[s].op = "edit" /\ request[s].form = request[s].was
  /\ KeepsAWayIn(provider) => MayWrite(s)
  /\ show_form' = (show_form \/ KeepsAWayIn(provider))
  /\ lateHide' = (lateHide /\ ~KeepsAWayIn(provider))
  /\ Done(s)
  /\ UNCHANGED <<database, userVars, providerVars, requests, startVars,
                 signInVars>>

\* (Mistake: the accounts keep the id of the provider that is gone.)
CutLoose_Not(k, i) == {}

\* The accounts that delete takes from the provider.
CutLoose(k, i) ==
  {u \in LiveUsers : user[u].source = k /\ user[u].provider = i}

delete_provider(s, me, k, i) ==
  /\ IsAdminPage("remove", me)
  /\ i \in Providers(k)
  /\ Flushes(s, k, i, NoProvider, CutLoose(k, i))
  /\ UNCHANGED <<database, userVars, providerVars, formVars, startVars,
                 signInVars>>

\* The commit of each of the three.
CommitProvider(s) ==
  LET r == request[s]
  IN  /\ r.op = "flushed"
      /\ provider' = [provider EXCEPT ![r.kind][r.id] = r.row]
      /\ show_form' = (show_form \/ r.shows)
      /\ lateHide' = (lateHide /\ ~r.shows)
      /\ user' = [u \in Users |-> IF u \in r.cut
                                  THEN [user[u] EXCEPT !.provider = 0]
                                  ELSE user[u]]
      /\ Done(s)
      /\ UNCHANGED <<database, users, created, requests, startVars, signInVars>>

-----------------------------------------------------------------------------
(* The command line, beside everything else *)

\* An account that a command works on, and what it becomes.
Sets(op, u, row) ==
  /\ Begins(op)
  /\ u \in LiveUsers
  /\ \A s \in Sessions : MayWrite(s)
  /\ user' = [user EXCEPT ![u] = row]
  /\ UNCHANGED <<database, users, providerVars, formVars, request, startVars,
                 signInVars>>

\* An account that a command finds by its name.
IsFound(u) == \E name \in Names : u \in Matching(name)

set_password(u) ==
  /\ IsFound(u)
  /\ user[u].source = "local"
  /\ Sets("set-password", u, [user[u] EXCEPT !.active = TRUE])

reset_initial_admin(u) ==
  /\ u \in Initial
  /\ Sets("reset-initial-admin", u,
          [user[u] EXCEPT !.source = "local", !.admin = TRUE, !.active = TRUE])

promote(u) ==
  /\ IsFound(u)
  /\ Sets("promote", u, [user[u] EXCEPT !.admin = TRUE, !.active = TRUE])

\* The first account is made on the setup page, never here.
create_admin(name) ==
  /\ Begins("create-admin")
  /\ is_done
  /\ Matching(name) \cup Named(name) = {}
  /\ \A s \in Sessions : MayWrite(s)
  /\ Insert(Account(name, "local", 0, name[1], TRUE))
  /\ UNCHANGED <<database, providerVars, formVars, request, startVars,
                 signInVars>>

\* The providers of a kind, with sign-in off.
SwitchedOff(k) ==
  [provider EXCEPT ![k] = [i \in Ids |-> [provider[k][i] EXCEPT !.login = FALSE]]]

\* A command sees the providers that are committed, and waits for who is changing
\* one of those that it has to switch off.
MaySwitchOff(k) ==
  /\ Enabled(k) # {} => \A s \in Sessions : MayWrite(s)
  /\ \A s \in Sessions :
       request[s].op = "flushed" /\ request[s].kind = k =>
         request[s].id \notin Enabled(k)

disable_ldap_login ==
  /\ Begins("disable-ldap-login")
  /\ MaySwitchOff("ldap")
  /\ provider' = SwitchedOff("ldap")
  /\ UNCHANGED <<database, userVars, created, formVars, request, startVars,
                 signInVars>>

disable_sso ==
  /\ Begins("disable-sso")
  /\ MaySwitchOff("oidc")
  /\ ~show_form => \A s \in Sessions : MayWrite(s)
  /\ provider' = SwitchedOff("oidc")
  /\ show_form' = TRUE /\ lateHide' = FALSE
  /\ UNCHANGED <<database, userVars, created, request, startVars, signInVars>>

=============================================================================
