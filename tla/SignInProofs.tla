----------------------------- MODULE SignInProofs -----------------------------
(***************************************************************************)
(* What is proved of the sign-in form and of the names of new accounts, for*)
(* any number of accounts, providers, sessions and requests.               *)
(***************************************************************************)
EXTENDS AccountsProofs

USE DEF Users, Ids, Kinds, Idle, userVars, providerVars, formVars, requestVars,
        startVars, signInVars, vars

\* The accounts there were are still who they were, as far as they are there: no
\* name changes, and nobody becomes somebody else's at a provider.
KnownStay ==
  /\ users <= users'
  /\ \A u \in Users :
       u <= users /\ user'[u].row = "live" =>
         /\ user[u].row = "live"
         /\ user'[u].name = user[u].name
         /\ user'[u].source = "oidc" =>
              /\ user[u].source = "oidc"
              /\ user'[u].ext = user[u].ext
              /\ user'[u].provider \in {user[u].provider, 0}

\* No session has chosen a name, or done anything with one it has chosen.
NamesWait ==
  \A s \in Sessions :
    request[s].op = "insert" \/ request'[s].op = "insert" =>
      request'[s] = request[s]

Calm == KnownStay /\ NamesWait

\* The form, the providers and what is flushed of them stay.
Still ==
  /\ UNCHANGED <<provider, show_form, lateHide>>
  /\ \A s \in Sessions :
       request'[s].op = "flushed" => request'[s] = request[s]

LEMMA SameUsers ==
  ASSUME TypeInv, UNCHANGED <<user, users>>
  PROVE  KnownStay
BY AccountsAssumption
DEF AccountsAssumption, KnownStay, TypeInv, AccountsTyped

LEMMA UserAdded ==
  ASSUME TypeInv, NEW r, Insert(r)
  PROVE  KnownStay
<1>1. users \in Nat /\ user \in [Users -> Rows]
  BY AccountsAssumption DEF AccountsAssumption, TypeInv, AccountsTyped
<1>2. \A u \in Users : u <= users => user'[u] = user[u]
  BY <1>1 DEF Insert
<1> QED
  BY <1>1, <1>2 DEF KnownStay, Insert

\* One account is given another row, of the same person.
LEMMA UserSet ==
  ASSUME TypeInv, NEW u \in Users, NEW row,
         user' = [user EXCEPT ![u] = row], UNCHANGED users,
         row.row = "live" => user[u].row = "live",
         row.name = user[u].name, row.ext = user[u].ext,
         row.source \in {user[u].source, "local"},
         row.provider = user[u].provider
  PROVE  KnownStay
<1>1. users \in Nat /\ user \in [Users -> Rows]
  BY AccountsAssumption DEF AccountsAssumption, TypeInv, AccountsTyped
<1>2. \A v \in Users : user'[v] = IF v = u THEN row ELSE user[v]
  BY <1>1
<1> QED
  BY <1>1, <1>2 DEF KnownStay

\* A session that has not chosen a name goes on to something else.
LEMMA OtherRequest ==
  ASSUME TypeInv, NEW s \in Sessions, NEW r,
         request' = [request EXCEPT ![s] = r],
         request[s].op # "insert", r.op # "insert"
  PROVE  /\ NamesWait
         /\ r.op # "flushed" =>
              \A t \in Sessions :
                request'[t].op = "flushed" => request'[t] = request[t]
BY DEF NamesWait, TypeInv, RequestsTyped

\* ... or ends.
LEMMA RequestEnds ==
  ASSUME TypeInv, NEW s \in Sessions, request[s].op # "insert", Done(s)
  PROVE  /\ NamesWait
         /\ \A t \in Sessions :
              request'[t].op = "flushed" => request'[t] = request[t]
<1>1. Idle.op = "idle" /\ request' = [request EXCEPT ![s] = Idle]
  BY DEF Done
<1> QED
  BY <1>1 DEF NamesWait, TypeInv, RequestsTyped

\* ... or begins.
LEMMA RequestBegins ==
  ASSUME TypeInv, NEW s \in Sessions, NEW r, r.op # "insert", Reads(s, r)
  PROVE  /\ NamesWait
         /\ r.op # "flushed" =>
              \A t \in Sessions :
                request'[t].op = "flushed" => request'[t] = request[t]
<1>1. request[s].op # "insert"
  BY DEF Reads, Busy
<1> QED
  BY <1>1, OtherRequest DEF Reads

LEMMA SameRequests ==
  ASSUME UNCHANGED request
  PROVE  /\ NamesWait
         /\ \A t \in Sessions :
              request'[t].op = "flushed" => request'[t] = request[t]
BY DEF NamesWait

LEMMA SetupIsCalm ==
  ASSUME TypeInv, Setup
  PROVE  Calm /\ Still
<1>1. ASSUME NEW s \in Sessions, create_initial_admin(s)
      PROVE  Calm /\ Still
  BY <1>1, SameUsers, RequestBegins DEF create_initial_admin, Calm, Still
<1>2. ASSUME NEW s \in Sessions, NEW w \in Words, CommitSetup(s, <<w, 1>>)
      PROVE  Calm /\ Still
  BY <1>2, UserAdded, RequestEnds DEF CommitSetup, Calm, Still
<1>3. ASSUME NEW s \in Sessions, AbortSetup(s)
      PROVE  Calm /\ Still
  BY <1>3, SameUsers, RequestEnds DEF AbortSetup, Calm, Still
<1> QED
  BY <1>1, <1>2, <1>3, Spellings DEF Setup

LEMMA StartIsCalm ==
  ASSUME TypeInv, Start
  PROVE  Calm /\ Still
<1>1. CASE bootstrap
  BY <1>1, SameUsers, SameRequests DEF bootstrap, Calm, Still
<1>2. CASE CommitBootstrap
  <2>1. Still /\ NamesWait /\ UNCHANGED users
    BY <1>2, SameRequests DEF CommitBootstrap, Still
  <2>2. users \in Nat /\ user \in [Users -> Rows]
    BY AccountsAssumption DEF AccountsAssumption, TypeInv, AccountsTyped
  <2>3. CASE UNCHANGED user
    BY <2>1, <2>3, SameUsers DEF Calm
  <2>4. ASSUME NEW one,
               user' = [u \in Users |->
                          [user[u] EXCEPT
                             !.admin = @ \/ u = boot.promote,
                             !.initial = @ \/ u = boot.adopt,
                             !.provider = IF one /\ u \in Legacy THEN 1
                                          ELSE @]]
        PROVE  Calm
    <3>1. ASSUME NEW u \in Users
          PROVE  /\ user'[u].row = user[u].row /\ user'[u].name = user[u].name
                 /\ user'[u].source = user[u].source
                 /\ user'[u].ext = user[u].ext
                 /\ user[u].source = "oidc" =>
                      user'[u].provider = user[u].provider
      <4> DEFINE id == IF one /\ u \in Legacy THEN 1 ELSE user[u].provider
                 a  == user[u].admin \/ u = boot.promote
                 i  == user[u].initial \/ u = boot.adopt
      <4>1. user'[u] = [user[u] EXCEPT !.admin = a, !.initial = i,
                                       !.provider = id]
        BY <2>4
      <4>2. user[u].source = "oidc" => id = user[u].provider
        BY DEF Legacy
      <4>3. user[u] \in Rows
        BY <2>2
      <4> HIDE DEF id, a, i
      <4> QED
        BY <4>1, <4>2, <4>3 DEF Rows
    <3>2. KnownStay
      BY <2>1, <2>2, <3>1 DEF KnownStay
    <3> QED
      BY <2>1, <3>2 DEF Calm
  <2> QED
    BY <1>2, <2>1, <2>3, <2>4 DEF CommitBootstrap
<1> QED
  BY <1>1, <1>2 DEF Start

LEMMA UsersPageIsCalm ==
  ASSUME TypeInv, UsersPage
  PROVE  Calm /\ Still
<1>0. user \in [Users -> Rows]
  BY DEF TypeInv, AccountsTyped
<1>1. ASSUME NEW s \in Sessions, NEW me \in Users, NEW u \in Users,
             delete_user(s, me, u)
      PROVE  Calm /\ Still
  BY <1>1, SameUsers, RequestBegins DEF delete_user, Calm, Still
<1>2. ASSUME NEW s \in Sessions, NEW me \in Users, NEW u \in Users,
             NEW admin \in BOOLEAN, NEW active \in BOOLEAN,
             update(s, me, u, admin, active)
      PROVE  Calm /\ Still
  BY <1>2, SameUsers, RequestBegins DEF update, Calm, Still
<1>3. ASSUME NEW s \in Sessions, CommitUpdate(s)
      PROVE  Calm /\ Still
  <2> DEFINE r == request[s]
             a == Written(r.admin, r.was_admin, user[r.id].admin)
             b == Written(r.active, r.was_active, user[r.id].active)
             row == [user[r.id] EXCEPT !.admin = a, !.active = b]
  <2>1. NamesWait /\ Still
    BY <1>3, RequestEnds DEF CommitUpdate, Still
  <2>2. r.op = "update" /\ r \in Requests
    BY <1>3 DEF CommitUpdate, TypeInv, RequestsTyped
  <2>3. r.id \in Users
    BY <2>2 DEF Requests
  <2>4. CASE ~Live(r.id)
    BY <1>3, <2>1, <2>4, SameUsers DEF CommitUpdate, Calm
  <2>5. CASE Live(r.id)
    <3>1. user' = [user EXCEPT ![r.id].admin = a, ![r.id].active = b]
          /\ UNCHANGED users
      BY <1>3, <2>5 DEF CommitUpdate
    <3> HIDE DEF a, b
    <3>2. user' = [user EXCEPT ![r.id] = row]
      BY <1>0, <2>3, <3>1 DEF Rows
    <3>3. user[r.id] \in Rows
      BY <1>0, <2>3
    <3>4. /\ row.row = user[r.id].row /\ row.name = user[r.id].name
          /\ row.ext = user[r.id].ext /\ row.source = user[r.id].source
          /\ row.provider = user[r.id].provider
      BY <3>3 DEF Rows
    <3> HIDE DEF row
    <3> QED
      BY <2>1, <2>3, <3>1, <3>2, <3>4, UserSet DEF Calm
  <2> QED
    BY <2>4, <2>5
<1>4. ASSUME NEW s \in Sessions, CommitDelete(s)
      PROVE  Calm /\ Still
  <2> DEFINE id  == request[s].id
             row == [user[id] EXCEPT !.row = IF @ = "live" THEN "gone" ELSE @]
  <2>1. NamesWait /\ Still
    BY <1>4, RequestEnds DEF CommitDelete, Still
  <2>2. request[s].op = "delete" /\ request[s] \in Requests
    BY <1>4 DEF CommitDelete, TypeInv, RequestsTyped
  <2>3. id \in Users
    BY <2>2 DEF Requests
  <2>4. user' = [user EXCEPT ![id] = row] /\ UNCHANGED users
    BY <1>4 DEF CommitDelete
  <2>5. user[id] \in Rows
    BY <1>0, <2>3
  <2>6. /\ row.row = "live" => user[id].row = "live"
        /\ row.name = user[id].name /\ row.ext = user[id].ext
        /\ row.source = user[id].source /\ row.provider = user[id].provider
    BY <2>5 DEF Rows
  <2> HIDE DEF row
  <2> QED
    BY <2>1, <2>3, <2>4, <2>6, UserSet DEF Calm
<1>5. ASSUME NEW me \in Users, NEW w \in Words, NEW admin \in BOOLEAN,
             create(me, <<w, 1>>, admin)
      PROVE  Calm /\ Still
  BY <1>5, UserAdded, SameRequests DEF create, Calm, Still
<1> QED
  BY <1>1, <1>2, <1>3, <1>4, <1>5, AccountsAreUsers, Spellings DEF UsersPage

\* A command, or a sign-in, sets the rights of one account.
LEMMA RightsSet ==
  ASSUME TypeInv, NEW u \in Users, NEW src \in {user[u].source, "local"},
         NEW a, NEW b,
         user' = [user EXCEPT ![u] = [user[u] EXCEPT !.source = src,
                                        !.admin = a, !.active = b]],
         UNCHANGED users
  PROVE  KnownStay
<1> DEFINE row == [user[u] EXCEPT !.source = src, !.admin = a, !.active = b]
<1>1. user[u] \in Rows
  BY DEF TypeInv, AccountsTyped
<1>2. /\ row.row = user[u].row /\ row.name = user[u].name
      /\ row.ext = user[u].ext /\ row.source = src
      /\ row.provider = user[u].provider
  BY <1>1 DEF Rows
<1>3. user' = [user EXCEPT ![u] = row]
  OBVIOUS
<1> HIDE DEF row
<1> QED
  BY <1>2, <1>3, UserSet

LEMMA CommandLineIsCalm ==
  ASSUME TypeInv, CommandLine
  PROVE  Calm
<1>0. NamesWait
  BY SameRequests
  DEF CommandLine, set_password, reset_initial_admin, promote, create_admin,
      disable_ldap_login, disable_sso, Sets
<1>1. ASSUME NEW u \in Users,
             set_password(u) \/ reset_initial_admin(u) \/ promote(u)
      PROVE  Calm
  <2>1. user[u] \in Rows
    BY DEF TypeInv, AccountsTyped
  <2>2. /\ [user[u] EXCEPT !.active = TRUE] =
             [user[u] EXCEPT !.source = user[u].source,
                !.admin = user[u].admin, !.active = TRUE]
        /\ [user[u] EXCEPT !.admin = TRUE, !.active = TRUE] =
             [user[u] EXCEPT !.source = user[u].source, !.admin = TRUE,
                !.active = TRUE]
    BY <2>1 DEF Rows
  <2>3. CASE set_password(u)
    <3>1. UNCHANGED users /\ user' = [user EXCEPT ![u] =
                                       [user[u] EXCEPT !.active = TRUE]]
      BY <2>3 DEF set_password, Sets
    <3> QED
      BY <1>0, <2>2, <3>1, RightsSet DEF Calm
  <2>4. CASE reset_initial_admin(u)
    BY <1>0, <2>4, RightsSet DEF reset_initial_admin, Sets, Calm
  <2>5. CASE promote(u)
    <3>1. UNCHANGED users /\ user' = [user EXCEPT ![u] =
                                       [user[u] EXCEPT !.admin = TRUE,
                                                       !.active = TRUE]]
      BY <2>5 DEF promote, Sets
    <3> QED
      BY <1>0, <2>2, <3>1, RightsSet DEF Calm
  <2> QED
    BY <1>1, <2>3, <2>4, <2>5
<1>2. ASSUME NEW w \in Words, create_admin(<<w, 1>>)
      PROVE  Calm
  BY <1>0, <1>2, UserAdded DEF create_admin, Calm
<1>3. CASE disable_ldap_login \/ disable_sso
  BY <1>0, <1>3, SameUsers DEF disable_ldap_login, disable_sso, Calm
<1> QED
  BY <1>1, <1>2, <1>3, Spellings DEF CommandLine

LEMMA AuthenticationPageIsCalm ==
  ASSUME TypeInv, AuthenticationPage
  PROVE  Calm
<1>1. ASSUME NEW me \in Users, show_local_form(me)
      PROVE  Calm
  BY <1>1, SameUsers, SameRequests DEF show_local_form, Calm
<1>2. ASSUME NEW s \in Sessions, NEW me \in Users, set_local_form(s, me)
      PROVE  Calm
  BY <1>2, SameUsers, RequestBegins DEF set_local_form, Calm
<1>3. ASSUME NEW s \in Sessions, NEW k \in Kinds, NEW i \in Ids,
             NEW row, NEW cut, Flush(s, k, i, row, cut),
             request[s].op # "insert", UNCHANGED <<user, users>>
      PROVE  Calm
  <2>1. PICK r : r.op = "flushed" /\ request' = [request EXCEPT ![s] = r]
    BY <1>3 DEF Flush
  <2>2. NamesWait
    BY <1>3, <2>1, OtherRequest
  <2> QED
    BY <1>3, <2>2, SameUsers DEF Calm
<1>4. ASSUME NEW s \in Sessions, NEW me \in Users, NEW k \in Kinds,
             NEW i \in Ids, delete_provider(s, me, k, i)
      PROVE  Calm
  BY <1>3, <1>4 DEF delete_provider, Flushes, Busy
<1>5. ASSUME NEW s \in Sessions, NEW me \in Users, NEW k \in Kinds,
             NEW i \in Ids, NEW on \in BOOLEAN, NEW auto \in BOOLEAN,
             \/ create_provider(s, me, k, i, on, auto)
             \/ update_provider(s, me, k, i, on, auto)
      PROVE  Calm
  <2>1. CASE create_provider(s, me, k, i, on, auto)
    BY <1>3, <2>1 DEF create_provider, Flushes, Busy
  <2>2. CASE update_provider(s, me, k, i, on, auto)
    BY <2>2, SameUsers, RequestBegins DEF update_provider, Calm
  <2> QED
    BY <1>5, <2>1, <2>2
<1>6. ASSUME NEW s \in Sessions, CommitHide(s)
      PROVE  Calm
  BY <1>6, SameUsers, RequestEnds DEF CommitHide, Calm
<1>7. ASSUME NEW s \in Sessions, CommitProvider(s)
      PROVE  Calm
  <2>1. NamesWait
    BY <1>7, RequestEnds DEF CommitProvider
  <2>2. users \in Nat /\ user \in [Users -> Rows]
    BY AccountsAssumption DEF AccountsAssumption, TypeInv, AccountsTyped
  <2>3. \A u \in Users :
          user'[u] = IF u \in request[s].cut
                     THEN [user[u] EXCEPT !.provider = 0] ELSE user[u]
    BY <1>7 DEF CommitProvider
  <2>4. \A u \in Users :
          /\ user'[u].row = user[u].row /\ user'[u].name = user[u].name
          /\ user'[u].source = user[u].source /\ user'[u].ext = user[u].ext
          /\ user'[u].provider \in {user[u].provider, 0}
    BY <2>2, <2>3 DEF Rows
  <2> QED
    BY <1>7, <2>1, <2>2, <2>4 DEF CommitProvider, Calm, KnownStay
<1>8. ASSUME NEW s \in Sessions, SaveProvider(s)
      PROVE  Calm
  <2> DEFINE r == request[s]
  <2>1. r.kind \in Kinds /\ r.id \in Ids
    BY <1>8 DEF SaveProvider, TypeInv, RequestsTyped, Requests
  <2> QED
    BY <1>3, <1>8, <2>1 DEF SaveProvider
<1>9. ASSUME NEW s \in Sessions, SaveNothing(s) \/ SaveUnchanged(s)
      PROVE  Calm
  BY <1>9, SameUsers, RequestEnds DEF SaveNothing, SaveUnchanged, Calm
<1> QED
  BY <1>1, <1>2, <1>4, <1>5, <1>6, <1>7, <1>8, <1>9, AccountsAreUsers
  DEF AuthenticationPage

-----------------------------------------------------------------------------
(* The names of new accounts *)

\* Nobody who was there when the name was chosen has it, if lower() folds it, nor
\* is who it is for.
NamesWereFree ==
  \A s \in Sessions :
    request[s].op = "insert" =>
      /\ request[s].since <= users
      /\ \A u \in Users :
           u <= request[s].since /\ Live(u) =>
             /\ IsFolded(request[s].name) => user[u].name # request[s].name
             /\ ~ /\ user[u].source = "oidc"
                  /\ user[u].provider = request[s].id
                  /\ user[u].ext = request[s].ext

\* An insert that fails has a cause.
Caused ==
  \A s \in Sessions :
    /\ request[s].op = "insert" /\ request'[s] # request[s]
    /\ users' = users /\ IsFolded(request[s].name)
    => users > request[s].since

NameInv == AccessInv /\ NamesWereFree

\* No step changes the database for another, and with it what lower() folds.
LEMMA DatabaseStays ==
  ASSUME [Next]_vars
  PROVE  UNCHANGED database
<1>1. CASE Setup
  BY <1>1 DEF Setup, create_initial_admin, CommitSetup, AbortSetup
<1>2. CASE Start
  BY <1>2 DEF Start, bootstrap, CommitBootstrap
<1>3. CASE UsersPage
  <2>1. \A s, me, u : delete_user(s, me, u) => UNCHANGED database
    BY DEF delete_user
  <2>2. \A s, me, u, admin, active :
          update(s, me, u, admin, active) => UNCHANGED database
    BY DEF update
  <2>3. \A s : CommitUpdate(s) \/ CommitDelete(s) => UNCHANGED database
    BY DEF CommitUpdate, CommitDelete
  <2>4. \A me, name, admin : create(me, name, admin) => UNCHANGED database
    BY DEF create
  <2> QED
    BY <1>3, <2>1, <2>2, <2>3, <2>4 DEF UsersPage
<1>4. CASE AuthenticationPage
  <2>1. \A s, me : show_local_form(me) \/ set_local_form(s, me) =>
                    UNCHANGED database
    BY DEF show_local_form, set_local_form
  <2>2. \A s, me, k, i : delete_provider(s, me, k, i) => UNCHANGED database
    BY DEF delete_provider
  <2>3. \A s, me, k, i, on, auto :
          create_provider(s, me, k, i, on, auto) => UNCHANGED database
    BY DEF create_provider
  <2>4. \A s, me, k, i, on, auto :
          update_provider(s, me, k, i, on, auto) => UNCHANGED database
    BY DEF update_provider
  <2>5. \A s : CommitHide(s) \/ CommitProvider(s) => UNCHANGED database
    BY DEF CommitHide, CommitProvider
  <2>6. \A s : SaveProvider(s) \/ SaveNothing(s) \/ SaveUnchanged(s) =>
                UNCHANGED database
    BY DEF SaveProvider, SaveNothing, SaveUnchanged
  <2> QED
    BY <1>4, <2>1, <2>2, <2>3, <2>4, <2>5, <2>6 DEF AuthenticationPage
<1>5. CASE CommandLine
  BY <1>5
  DEF CommandLine, set_password, reset_initial_admin, promote, Sets,
      create_admin, disable_ldap_login, disable_sso
<1>6. CASE SignInPages
  <2>1. UNCHANGED NotSignIn => UNCHANGED database
    BY DEF NotSignIn
  <2>2. \A s, w : login(s, w) \/ ChooseName(s, w) => UNCHANGED database
    BY <2>1 DEF login, ChooseName
  <2>3. \A s : RejectLogin(s) \/ RejectCallback(s) => UNCHANGED database
    BY <2>1 DEF RejectLogin, RejectCallback
  <2>4. \A s, i, w : oidc_callback(s, i, w) => UNCHANGED database
    BY DEF oidc_callback
  <2>5. \A s, verdict : FindAccount(s, verdict) \/ InsertAccount(s, verdict) =>
                         UNCHANGED database
    BY <2>1 DEF FindAccount, InsertAccount
  <2>6. \A s, p, rights : sync_user(s, p, rights) => UNCHANGED database
    BY <2>1 DEF sync_user
  <2> QED
    BY <1>6, <2>2, <2>3, <2>4, <2>5, <2>6 DEF SignInPages
<1> QED
  BY <1>1, <1>2, <1>3, <1>4, <1>5, <1>6 DEF Next

LEMMA CalmKeepsNames ==
  ASSUME TypeInv, TypeInv', NamesWereFree, Calm, UNCHANGED database
  PROVE  NamesWereFree' /\ Caused
<1>1. ASSUME NEW s \in Sessions, request'[s].op = "insert"
      PROVE  /\ request'[s] = request[s]
             /\ request[s].since \in Nat /\ request[s].id # 0
             /\ users \in Nat /\ users' \in Int
  <2>1. request'[s] = request[s] /\ request[s] \in Requests
    BY <1>1 DEF Calm, NamesWait, TypeInv, RequestsTyped
  <2>2. /\ request[s].since \in 0..MaxUsers /\ request[s].id \in Ids
        /\ users \in 0..MaxUsers /\ users' \in 0..MaxUsers
    BY <1>1, <2>1 DEF Requests, TypeInv, AccountsTyped
  <2> QED
    BY <2>1, <2>2, AccountsAssumption DEF AccountsAssumption
<1>2. NamesWereFree'
  <2>1. \A s \in Sessions :
          request'[s].op = "insert" =>
            (IsFolded(request[s].name)' <=> IsFolded(request[s].name))
    BY <1>1 DEF IsFolded, db_lower, IS_SQLITE
  <2> QED
    BY <1>1, <2>1 DEF Calm, KnownStay, NamesWereFree, Live
<1>3. Caused
  BY DEF Calm, NamesWait, Caused
<1> QED
  BY <1>2, <1>3

\* A sign-in that does anything but choose or insert a name.
LEMMA SignInEnds ==
  ASSUME TypeInv, NEW s \in Sessions, request[s].op # "insert",
         UNCHANGED NotSignIn,
         \/ Refused(s)
         \/ /\ Done(s) /\ UNCHANGED users
            /\ \E u \in Users : \E a :
                 user' = [user EXCEPT ![u].admin = a]
         \/ Done(s) /\ \E new : Insert(new)
  PROVE  Calm
<1>1. NamesWait
  BY RequestEnds DEF Refused
<1>2. CASE Refused(s)
  BY <1>1, <1>2, SameUsers DEF Refused, Calm
<1>3. ASSUME NEW u \in Users, NEW a, user' = [user EXCEPT ![u].admin = a],
             UNCHANGED users
      PROVE  Calm
  <2> DEFINE row == [user[u] EXCEPT !.admin = a]
  <2>1. user[u] \in Rows
    BY DEF TypeInv, AccountsTyped
  <2>2. /\ row.row = user[u].row /\ row.name = user[u].name
        /\ row.ext = user[u].ext /\ row.source = user[u].source
        /\ row.provider = user[u].provider
    BY <2>1 DEF Rows
  <2>3. user' = [user EXCEPT ![u] = row]
    BY <1>3
  <2> HIDE DEF row
  <2> QED
    BY <1>1, <1>3, <2>2, <2>3, UserSet DEF Calm
<1>4. ASSUME NEW new, Insert(new)
      PROVE  Calm
  BY <1>1, <1>4, UserAdded DEF Calm
<1> QED
  BY <1>2, <1>3, <1>4

LEMMA ChosenNameIsFree ==
  ASSUME AccessInv, TypeInv', NamesWereFree, NEW s \in Sessions, NEW w \in Words,
         ChooseName(s, w)
  PROVE  NamesWereFree' /\ Caused
<1> DEFINE r == request[s]
<1>1. /\ r.op = "oidc" /\ Known(r.id, r.ext) = {}
      /\ UNCHANGED NotSignIn
  BY DEF ChooseName
<1>2. CASE ~r.auto
  <2>1. Calm
    BY <1>1, <1>2, SignInEnds DEF ChooseName, AccessInv
  <2> QED
    BY <1>1, <2>1, CalmKeepsNames DEF AccessInv, NotSignIn
<1>3. CASE r.auto
  <2> DEFINE name == _unique_username(w)
             chosen == [op |-> "insert", id |-> r.id, stamp |-> r.stamp,
                        auto |-> r.auto, ext |-> r.ext,
                        attempt |-> r.attempt, name |-> name, since |-> users]
  <2>1. /\ \E n \in 1..MaxNumber : Matching(<<w, n>>) = {}
        /\ request' = [request EXCEPT ![s] = chosen]
        /\ UNCHANGED <<user, users>>
    BY <1>1, <1>3 DEF ChooseName
  <2>2. Matching(name) = {}
    BY <2>1, NameIsOne
  <2>3. /\ chosen.id = r.id /\ chosen.ext = r.ext /\ chosen.name = name
        /\ chosen.since = users /\ chosen.op = "insert"
    OBVIOUS
  <2> HIDE DEF name, chosen
  <2>4. \A t \in Sessions :
          request'[t] = IF t = s THEN chosen ELSE request[t]
    BY <2>1 DEF AccessInv, TypeInv, RequestsTyped
  <2>5. users <= users
    BY Numbers
  <2>6. \A u \in Users : Live(u)' = Live(u)
    BY <2>1 DEF Live
  <2>7. \A u \in Users :
          Live(u) => /\ IsFolded(name) => user[u].name # name
                     /\ ~ /\ user[u].source = "oidc"
                          /\ user[u].provider = r.id
                          /\ user[u].ext = r.ext
    BY <1>1, <2>2 DEF Matching, IsFolded, Known, LiveUsers
  <2>8. NamesWereFree'
    <3>1. UNCHANGED database
      BY <1>1 DEF NotSignIn
    <3>3. ASSUME NEW t \in Sessions, request'[t].op = "insert"
          PROVE  /\ request'[t].since <= users'
                 /\ \A u \in Users :
                      u <= request'[t].since /\ Live(u)' =>
                        /\ IsFolded(request[t].name)' =>
                             user'[u].name # request'[t].name
                        /\ ~ /\ user'[u].source = "oidc"
                             /\ user'[u].provider = request'[t].id
                             /\ user'[u].ext = request'[t].ext
      <4>1. /\ t = s => (IsFolded(request[t].name)' <=> IsFolded(name))
            /\ t # s => (IsFolded(request[t].name)' <=>
                            IsFolded(request[t].name))
        BY <2>3, <2>4, <3>1 DEF IsFolded, db_lower, IS_SQLITE
      <4>2. CASE t = s
        BY <2>1, <2>3, <2>4, <2>5, <2>6, <2>7, <4>1, <4>2
      <4>3. CASE t # s
        BY <2>1, <2>4, <2>6, <3>3, <4>1, <4>3 DEF NamesWereFree
      <4> QED
        BY <4>2, <4>3
    <3> QED
      BY <3>3 DEF NamesWereFree
  <2>9. Caused
    BY <1>1, <2>4 DEF Caused
  <2> QED
    BY <2>8, <2>9
<1> QED
  BY <1>2, <1>3

LEMMA InsertHasACause ==
  ASSUME AccessInv, TypeInv', NamesWereFree, NEW s \in Sessions,
         NEW verdict \in Verdicts, InsertAccount(s, verdict)
  PROVE  NamesWereFree' /\ Caused
<1> DEFINE r == request[s]
           p == provider["oidc"][r.id]
           again == [op |-> "oidc", id |-> r.id, stamp |-> r.stamp,
                     auto |-> p.auto, ext |-> r.ext,
                     attempt |-> r.attempt + 1]
<1>1. /\ r.op = "insert" /\ UNCHANGED NotSignIn
      /\ \/ /\ \E new : Insert(new)
            /\ Done(s)
         \/ Clash(r) /\ Refused(s)
         \/ /\ Clash(r) /\ UNCHANGED <<user, users>>
            /\ request' = [request EXCEPT ![s] = again]
  BY DEF InsertAccount, Refused
<1>2. /\ again.op = "oidc" /\ Idle.op = "idle"
      /\ DOMAIN request = Sessions
  BY DEF AccessInv, TypeInv, RequestsTyped
<1> HIDE DEF again
<1>3. KnownStay
  BY <1>1, UserAdded, SameUsers DEF Refused, AccessInv
<1>4. \A t \in Sessions :
        \/ request'[t] = request[t]
        \/ t = s /\ request'[t].op # "insert"
  BY <1>1, <1>2 DEF Done, Refused
<1>5. NamesWereFree'
  <2>1. ASSUME NEW t \in Sessions, request'[t].op = "insert"
        PROVE  /\ request'[t] = request[t]
               /\ request[t].since \in Nat /\ request[t].id # 0
               /\ users \in Nat /\ users' \in Int
    <3>1. request'[t] = request[t] /\ request[t] \in Requests
      BY <1>4, <2>1 DEF AccessInv, TypeInv, RequestsTyped
    <3>2. /\ request[t].since \in 0..MaxUsers /\ request[t].id \in Ids
          /\ users \in 0..MaxUsers /\ users' \in 0..MaxUsers
      BY <2>1, <3>1 DEF Requests, AccessInv, TypeInv, AccountsTyped
    <3> QED
      BY <3>1, <3>2, AccountsAssumption DEF AccountsAssumption
  <2> QED
    <3>1. UNCHANGED database
      BY <1>1 DEF NotSignIn
    <3>2. \A t \in Sessions :
            request'[t].op = "insert" =>
              (IsFolded(request[t].name)' <=> IsFolded(request[t].name))
      BY <2>1, <3>1 DEF IsFolded, db_lower, IS_SQLITE
    <3> QED
      BY <1>3, <2>1, <3>2 DEF KnownStay, NamesWereFree, Live
<1>6. ASSUME UNCHANGED users, IsFolded(r.name)
      PROVE  users > r.since
  <2>1. Clash(r)
    <3>1. users \in Nat
      BY Numbers
    <3> QED
      BY <1>1, <1>6, <3>1 DEF Insert
  <2>2. PICK u \in LiveUsers :
          \/ user[u].name = r.name
          \/ /\ user[u].source = "oidc"
             /\ user[u].provider = r.id /\ user[u].ext = r.ext
    BY <2>1 DEF Clash, Named, Known
  <2>3. u \in Users /\ Live(u) /\ u <= users /\ users \in Nat
    BY Numbers DEF LiveUsers
  <2>4. ~(u <= r.since)
    BY <1>1, <1>6, <2>2, <2>3 DEF NamesWereFree
  <2>5. r.since \in 0..MaxUsers
    BY <1>1 DEF Requests, AccessInv, TypeInv, RequestsTyped
  <2> QED
    BY <2>3, <2>4, <2>5
<1> QED
  BY <1>4, <1>5, <1>6 DEF Caused

LEMMA SignInKeepsNames ==
  ASSUME AccessInv, TypeInv', NamesWereFree, SignInPages, UNCHANGED database
  PROVE  NamesWereFree' /\ Caused
<1>1. ASSUME NEW s \in Sessions, NEW w \in Words, login(s, w)
      PROVE  Calm
  BY <1>1, SameUsers, RequestBegins DEF login, Calm, AccessInv
<1>2. ASSUME NEW s \in Sessions, NEW i \in Ids, NEW w \in Words,
             oidc_callback(s, i, w)
      PROVE  Calm
  BY <1>2, SameUsers, RequestBegins DEF oidc_callback, Calm, AccessInv
<1>3. ASSUME NEW s \in Sessions, RejectLogin(s) \/ RejectCallback(s)
      PROVE  Calm
  BY <1>3, SignInEnds DEF RejectLogin, RejectCallback, AccessInv
<1>4. ASSUME NEW s \in Sessions, NEW verdict \in Verdicts,
             FindAccount(s, verdict)
      PROVE  Calm
  <2> DEFINE r == request[s]
  <2>1. PICK u \in Known(r.id, r.ext) :
          IF user[u].active
          THEN /\ user' = [user EXCEPT ![u].admin = ByGroup(verdict, @)]
               /\ Done(s)
               /\ UNCHANGED users
          ELSE Refused(s)
    BY <1>4 DEF FindAccount
  <2>2. /\ u \in Users /\ UNCHANGED NotSignIn /\ r.op # "insert"
    BY <1>4 DEF FindAccount, Known, LiveUsers
  <2>3. CASE ~user[u].active
    BY <2>1, <2>2, <2>3, SignInEnds DEF AccessInv
  <2>4. CASE user[u].active
    <3>1. /\ user' = [user EXCEPT ![u].admin = ByGroup(verdict, user[u].admin)]
          /\ Done(s) /\ UNCHANGED users
      BY <2>1, <2>4
    <3> QED
      BY <2>2, <3>1, SignInEnds DEF AccessInv
  <2> QED
    BY <2>3, <2>4
<1>5. ASSUME NEW s \in Sessions, request[s].op = "ldap",
             NEW p \in request[s].profiles, NEW rights \in BOOLEAN,
             sync_user(s, p, rights)
      PROVE  Calm
  <2> DEFINE r == request[s]
             row(u) == IF u \in r.account THEN r.rows[u] ELSE user[u]
             new == Account(<<r.word, 1>>, "ldap", p[1], lower[r.word], rights)
  <2>1. UNCHANGED NotSignIn /\ r.op # "insert"
    BY <1>5 DEF sync_user
  <2>2. CASE Insert(new) /\ Done(s)
    BY <2>1, <2>2, SignInEnds DEF AccessInv
  <2>3. ASSUME NEW u \in Matching(<<r.word, 1>>),
               user' = [user EXCEPT ![u].admin =
                          @ \/ (rights /\ ~row(u).admin)],
               Done(s), UNCHANGED users
        PROVE  Calm
    <3>1. u \in Users
      BY AccountsAreUsers
    <3>2. \E a : user' = [user EXCEPT ![u].admin = a]
      BY <2>3
    <3> QED
      BY <2>1, <2>3, <3>1, <3>2, SignInEnds DEF AccessInv
  <2>4. CASE Refused(s)
    BY <2>1, <2>4, SignInEnds DEF AccessInv
  <2> QED
    BY <1>5, <2>2, <2>3, <2>4 DEF sync_user
<1>6. ASSUME NEW s \in Sessions, NEW w \in Words, ChooseName(s, w)
      PROVE  NamesWereFree' /\ Caused
  BY <1>6, ChosenNameIsFree
<1>7. ASSUME NEW s \in Sessions, NEW verdict \in Verdicts,
             InsertAccount(s, verdict)
      PROVE  NamesWereFree' /\ Caused
  BY <1>7, InsertHasACause
<1> QED
  BY <1>1, <1>2, <1>3, <1>4, <1>5, <1>6, <1>7, CalmKeepsNames, Spellings
  DEF SignInPages, AccessInv

LEMMA NameInit == Init => NameInv
<1>1. Init => \A s \in Sessions : request[s] = Idle
  BY DEF Init
<1>2. Init => NamesWereFree
  BY <1>1 DEF NamesWereFree
<1> QED
  BY <1>2, AccessInit DEF NameInv

LEMMA NameStep == NameInv /\ [Next]_vars => NameInv' /\ Caused
<1> SUFFICES ASSUME NameInv, [Next]_vars
             PROVE  NameInv' /\ Caused
  OBVIOUS
<1>1. AccessInv /\ AccessInv' /\ TypeInv /\ TypeInv' /\ NamesWereFree
  BY AccessStep DEF NameInv, AccessInv
<1>5. UNCHANGED database
  BY DatabaseStays
<1>2. CASE Calm
  BY <1>1, <1>2, <1>5, CalmKeepsNames DEF NameInv
<1>3. CASE SignInPages
  BY <1>1, <1>3, <1>5, SignInKeepsNames DEF NameInv
<1>4. CASE UNCHANGED vars
  <2>1. Calm
    BY <1>1, <1>4, SameUsers, SameRequests DEF Calm
  <2> QED
    BY <1>2, <2>1
<1> QED
  BY <1>1, <1>2, <1>3, <1>4, SetupIsCalm, StartIsCalm, UsersPageIsCalm,
     AuthenticationPageIsCalm, CommandLineIsCalm DEF Next

\* The insert of a new account whose name lower() folds fails only because somebody
\* has come since it was chosen: nothing but a new account takes such a name, or a
\* person at a provider.
THEOREM RetriesAreCaused == Spec => RetriesHaveACause
<1>1. NameInv /\ [Next]_vars => NameInv' /\ [Caused]_vars
  BY NameStep
<1>2. Spec => [][Caused]_vars
  BY <1>1, NameInit, PTL DEF Spec
<1> QED
  BY <1>2 DEF Caused, RetriesHaveACause

-----------------------------------------------------------------------------
(* The form *)

\* When the form is hidden no directory is open to sign-in, and who is about to
\* open one shows it.
HiddenIsSafe ==
  ~show_form /\ ~lateHide =>
    /\ \A i \in Ids : ~provider["ldap"][i].login
    /\ \A s \in Sessions :
         request[s].op = "flushed" /\ request[s].kind = "ldap"
         /\ request[s].row.login => request[s].shows

LEMMA StillKeepsForm ==
  ASSUME Still, HiddenIsSafe
  PROVE  HiddenIsSafe'
BY DEF Still, HiddenIsSafe

LEMMA SignInPagesAreStill ==
  ASSUME TypeInv, SignInPages
  PROVE  Still
<1>0. UNCHANGED <<provider, show_form, lateHide>>
  <2> DEFINE Kept == UNCHANGED <<provider, show_form, lateHide>>
  <2>1. UNCHANGED NotSignIn => Kept
    BY DEF NotSignIn
  <2>2. \A s, w : login(s, w) => Kept
    BY DEF login
  <2>3. \A s, i, w : oidc_callback(s, i, w) => Kept
    BY DEF oidc_callback
  <2> HIDE DEF Kept
  <2>4. \A s : RejectLogin(s) \/ RejectCallback(s) => Kept
    BY <2>1 DEF RejectLogin, RejectCallback
  <2>5. \A s, w : ChooseName(s, w) => Kept
    BY <2>1 DEF ChooseName
  <2>6. \A s, verdict : FindAccount(s, verdict) \/ InsertAccount(s, verdict) =>
                         Kept
    BY <2>1 DEF FindAccount, InsertAccount
  <2>7. \A s, p, rights : sync_user(s, p, rights) => Kept
    BY <2>1 DEF sync_user
  <2>8. Kept
    BY <2>2, <2>3, <2>4, <2>5, <2>6, <2>7 DEF SignInPages
  <2> QED
    BY <2>8 DEF Kept
<1> SUFFICES \A s \in Sessions :
               request'[s].op = "flushed" => request'[s] = request[s]
  BY <1>0 DEF Still
<1>1. PICK s \in Sessions :
        \/ \E r : r.op # "flushed" /\ request' = [request EXCEPT ![s] = r]
        \/ Done(s)
  <2>1. ASSUME NEW s \in Sessions, NEW w \in Words, login(s, w)
        PROVE  \E r : r.op # "flushed" /\ request' = [request EXCEPT ![s] = r]
    BY <2>1 DEF login, Reads
  <2>2. ASSUME NEW s \in Sessions, NEW i \in Ids, NEW w \in Words,
               oidc_callback(s, i, w)
        PROVE  \E r : r.op # "flushed" /\ request' = [request EXCEPT ![s] = r]
    BY <2>2 DEF oidc_callback, Reads
  <2>3. ASSUME NEW s \in Sessions, NEW w \in Words, ChooseName(s, w)
        PROVE  \/ \E r : r.op # "flushed" /\ request' = [request EXCEPT ![s] = r]
               \/ Done(s)
    BY <2>3 DEF ChooseName, Refused
  <2>4. ASSUME NEW s \in Sessions, NEW verdict \in Verdicts,
               InsertAccount(s, verdict)
        PROVE  \/ \E r : r.op # "flushed" /\ request' = [request EXCEPT ![s] = r]
               \/ Done(s)
    BY <2>4 DEF InsertAccount, Refused
  <2>5. ASSUME NEW s \in Sessions,
               \/ RejectLogin(s) \/ RejectCallback(s)
               \/ \E verdict \in Verdicts : FindAccount(s, verdict)
               \/ \E p \in request[s].profiles, rights \in BOOLEAN :
                    sync_user(s, p, rights)
        PROVE  Done(s)
    BY <2>5 DEF RejectLogin, RejectCallback, FindAccount, sync_user, Refused
  <2> QED
    BY <2>1, <2>2, <2>3, <2>4, <2>5, Spellings DEF SignInPages
<1>2. DOMAIN request = Sessions /\ Idle.op = "idle"
  BY DEF TypeInv, RequestsTyped
<1> QED
  BY <1>1, <1>2 DEF Done

\* What is about to be written shows the form if it opens a directory.
LEMMA FlushKeepsForm ==
  ASSUME TypeInv, HiddenIsSafe, NEW s \in Sessions, NEW k \in Kinds,
         NEW i \in Ids, NEW row \in ProviderRows, NEW cut,
         Flush(s, k, i, row, cut),
         UNCHANGED <<provider, show_form, lateHide>>
  PROVE  HiddenIsSafe'
<1> DEFINE p == [provider EXCEPT ![k][i] = row]
           r == [op |-> "flushed", kind |-> k, id |-> i, row |-> row,
                 cut |-> cut, shows |-> KeepsAWayIn(p)]
<1>1. \A t \in Sessions : request'[t] = IF t = s THEN r ELSE request[t]
  BY DEF Flush, TypeInv, RequestsTyped
<1>2. ASSUME k = "ldap", row.login, ~show_form
      PROVE  KeepsAWayIn(p)
  <2>1. p["ldap"][i].login
    BY <1>2 DEF TypeInv, ProvidersTyped
  <2> HIDE DEF p
  <2> QED
    BY <1>2, <2>1 DEF KeepsAWayIn, can_hide_local_form
<1>3. r.kind = k /\ r.row = row /\ r.shows = KeepsAWayIn(p)
  OBVIOUS
<1> HIDE DEF p, r
<1> QED
  BY <1>1, <1>2, <1>3 DEF HiddenIsSafe

LEMMA AuthenticationPageKeepsForm ==
  ASSUME TypeInv, HiddenIsSafe, AuthenticationPage
  PROVE  HiddenIsSafe'
<1>1. ASSUME NEW me \in Users, show_local_form(me)
      PROVE  HiddenIsSafe'
  BY <1>1 DEF show_local_form, HiddenIsSafe
<1>2. ASSUME NEW s \in Sessions, NEW me \in Users, set_local_form(s, me)
      PROVE  HiddenIsSafe'
  BY <1>2, RequestBegins, StillKeepsForm DEF set_local_form, Still
<1>3. ASSUME NEW s \in Sessions, NEW me \in Users, NEW k \in Kinds,
             NEW i \in Ids, delete_provider(s, me, k, i)
      PROVE  HiddenIsSafe'
  <2>1. NoProvider \in ProviderRows
    BY AccountsAssumption
    DEF AccountsAssumption, NoProvider, ProviderRows
  <2> QED
    BY <1>3, <2>1, FlushKeepsForm DEF delete_provider, Flushes
<1>4. ASSUME NEW s \in Sessions, NEW me \in Users, NEW k \in Kinds,
             NEW i \in Ids, NEW on \in BOOLEAN, NEW auto \in BOOLEAN,
             create_provider(s, me, k, i, on, auto)
      PROVE  HiddenIsSafe'
  <2>1. Applied(created[k] + 1, on, auto) \in ProviderRows
    BY <1>4, AccountsAssumption
    DEF AccountsAssumption, create_provider, Applied, ProviderRows, TypeInv,
        ProvidersTyped
  <2> QED
    BY <1>4, <2>1, FlushKeepsForm DEF create_provider, Flushes
<1>5. ASSUME NEW s \in Sessions, NEW me \in Users, NEW k \in Kinds,
             NEW i \in Ids, NEW on \in BOOLEAN, NEW auto \in BOOLEAN,
             update_provider(s, me, k, i, on, auto)
      PROVE  HiddenIsSafe'
  BY <1>5, RequestBegins, StillKeepsForm DEF update_provider, Still
<1>6. ASSUME NEW s \in Sessions, CommitHide(s)
      PROVE  HiddenIsSafe'
  <2> SUFFICES ASSUME ~lateHide'
               PROVE  HiddenIsSafe'
    BY DEF HiddenIsSafe
  <2>1. /\ can_hide_local_form(provider) /\ UNCHANGED provider
        /\ \A t \in Sessions : request[t].op # "flushed"
    BY <1>6 DEF CommitHide
  <2>2. \A t \in Sessions : request'[t].op # "flushed"
    BY <1>6, <2>1, RequestEnds DEF CommitHide
  <2> QED
    BY <2>1, <2>2 DEF HiddenIsSafe, can_hide_local_form
<1>7. ASSUME NEW s \in Sessions, CommitProvider(s)
      PROVE  HiddenIsSafe'
  <2> DEFINE r == request[s]
  <2> SUFFICES ASSUME ~show_form', ~lateHide'
               PROVE  HiddenIsSafe'
    BY DEF HiddenIsSafe
  <2>1. ~show_form /\ ~r.shows /\ ~lateHide
    BY <1>7 DEF CommitProvider
  <2>2. r.op = "flushed" /\ provider' = [provider EXCEPT ![r.kind][r.id] = r.row]
    BY <1>7 DEF CommitProvider
  <2>3. \A i \in Ids : ~provider'["ldap"][i].login
    BY <2>1, <2>2 DEF HiddenIsSafe, TypeInv, ProvidersTyped
  <2>4. \A t \in Sessions :
          request'[t].op = "flushed" => request'[t] = request[t]
    BY <1>7, <2>2, RequestEnds DEF CommitProvider
  <2> QED
    BY <2>1, <2>3, <2>4 DEF HiddenIsSafe
<1>8. ASSUME NEW s \in Sessions, SaveProvider(s)
      PROVE  HiddenIsSafe'
  <2> DEFINE r   == request[s]
             is  == provider[r.kind][r.id]
             row == Applied(is.stamp, Written(r.form.login, r.was.login, is.login),
                            Written(r.form.auto, r.was.auto, is.auto))
  <2>1. /\ r.kind \in Kinds /\ r.id \in Ids
        /\ r.was \in ProviderRows /\ r.form \in ProviderRows
    BY <1>8 DEF SaveProvider, TypeInv, RequestsTyped, Requests
  <2>2. is \in ProviderRows
    BY <2>1 DEF TypeInv, ProvidersTyped
  <2>3. row \in ProviderRows
    <3> HIDE DEF is
    <3> QED
      BY <2>1, <2>2 DEF Applied, Written, ProviderRows
  <2>4. Flush(s, r.kind, r.id, row, {})
    BY <1>8 DEF SaveProvider
  <2>5. UNCHANGED <<provider, show_form, lateHide>>
    BY <1>8 DEF SaveProvider
  <2> HIDE DEF r, row
  <2> QED
    BY <2>1, <2>3, <2>4, <2>5, FlushKeepsForm
<1>9. ASSUME NEW s \in Sessions, SaveNothing(s)
      PROVE  HiddenIsSafe'
  BY <1>9, RequestEnds, StillKeepsForm DEF SaveNothing, Still
<1>10. ASSUME NEW s \in Sessions, SaveUnchanged(s)
       PROVE  HiddenIsSafe'
  <2> SUFFICES ASSUME ~show_form', ~lateHide'
               PROVE  HiddenIsSafe'
    BY DEF HiddenIsSafe
  <2>1. ~show_form /\ ~lateHide /\ UNCHANGED provider
    BY <1>10 DEF SaveUnchanged, KeepsAWayIn
  <2>2. \A t \in Sessions :
          request'[t].op = "flushed" => request'[t] = request[t]
    BY <1>10, RequestEnds DEF SaveUnchanged
  <2> QED
    BY <2>1, <2>2 DEF HiddenIsSafe
<1> QED
  BY <1>1, <1>2, <1>3, <1>4, <1>5, <1>6, <1>7, <1>8, <1>9, <1>10,
     AccountsAreUsers
  DEF AuthenticationPage

LEMMA CommandLineKeepsForm ==
  ASSUME TypeInv, HiddenIsSafe, CommandLine
  PROVE  HiddenIsSafe'
<1>1. CASE disable_sso
  BY <1>1 DEF disable_sso, HiddenIsSafe
<1>2. CASE disable_ldap_login
  <2>1. UNCHANGED <<request, show_form, lateHide>>
        /\ provider' = SwitchedOff("ldap")
    BY <1>2 DEF disable_ldap_login
  <2>2. \A i \in Ids : provider'["ldap"][i] =
                         [provider["ldap"][i] EXCEPT !.login = FALSE]
    BY <2>1 DEF SwitchedOff, TypeInv, ProvidersTyped
  <2>3. \A i \in Ids : ~provider'["ldap"][i].login
    BY <2>2 DEF TypeInv, ProvidersTyped, ProviderRows
  <2> QED
    BY <2>1, <2>3 DEF HiddenIsSafe
<1>3. CASE \/ \E u \in Users :
                set_password(u) \/ reset_initial_admin(u) \/ promote(u)
           \/ \E w \in Words : create_admin(<<w, 1>>)
  <2>1. Still
    BY <1>3 DEF set_password, reset_initial_admin, promote, create_admin, Sets,
                Still
  <2> QED
    BY <2>1, StillKeepsForm
<1> QED
  BY <1>1, <1>2, <1>3, Spellings DEF CommandLine

FormInv == TypeInv /\ HiddenIsSafe

LEMMA FormStep == FormInv /\ [Next]_vars => FormInv'
<1> SUFFICES ASSUME FormInv, [Next]_vars
             PROVE  FormInv'
  OBVIOUS
<1>1. TypeInv /\ TypeInv' /\ HiddenIsSafe
  BY TypeStep DEF FormInv
<1>2. CASE Still
  BY <1>1, <1>2, StillKeepsForm DEF FormInv
<1>3. CASE UNCHANGED vars
  BY <1>2, <1>3 DEF Still
<1> QED
  BY <1>1, <1>2, <1>3, SetupIsCalm, StartIsCalm, UsersPageIsCalm,
     AuthenticationPageKeepsForm, CommandLineKeepsForm, SignInPagesAreStill
  DEF Next, FormInv

\* The people of an open directory find the form, unless it was hidden while a
\* provider was being changed.
THEOREM FormStaysThere == Spec => []FormIsThere
<1>1. Init => FormInv
  <2>1. Init => show_form
    BY DEF Init
  <2> QED
    BY <2>1, TypeInit DEF FormInv, HiddenIsSafe
<1>2. FormInv => FormIsThere
  BY DEF FormInv, HiddenIsSafe, FormIsThere, Enabled, Providers, ShowsForm
<1> QED
  BY <1>1, <1>2, FormStep, PTL DEF Spec

=============================================================================
