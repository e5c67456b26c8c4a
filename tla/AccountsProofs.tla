---------------------------- MODULE AccountsProofs ----------------------------
(***************************************************************************)
(* What is proved of Accounts for any number of accounts, providers,       *)
(* sessions and requests.                                                  *)
(***************************************************************************)
EXTENDS Accounts, TLAPS, WellFoundedInduction

USE DEF Users, Ids, Kinds, Idle, userVars, providerVars, formVars, requestVars,
        startVars, signInVars, vars

-----------------------------------------------------------------------------
(* Type correctness *)

BootTypes ==
  boot \in [op : {"idle", "due", "reads", "migrates"},
            promote : Users \cup {0}, adopt : Users \cup {0}]

PeopleTyped ==
  usedBy \in [Users -> SUBSET (Kinds \X (1..MaxProviders) \X Words)]

AccountsTyped ==
  /\ user \in [Users -> Rows]
  /\ users \in 0..MaxUsers
  /\ stray \subseteq Users /\ crossed \subseteq Users
  /\ PeopleTyped

ProvidersTyped ==
  /\ provider \in [Kinds -> [Ids -> ProviderRows]]
  /\ created \in [Kinds -> 0..MaxProviders]
  /\ show_form \in BOOLEAN /\ lateHide \in BOOLEAN

RequestsTyped ==
  /\ DOMAIN request = Sessions
  /\ \A s \in Sessions : request[s] \in Requests
  /\ requests \in 0..MaxRequests

\* A login has read providers that were there.
ProfilesAreThere ==
  \A s \in Sessions :
    request[s].op = "ldap" =>
      \A p \in request[s].profiles : p[2].stamp # 0

StartTyped ==
  /\ setupLock \in Sessions \cup {NoSession}
  /\ \A s \in Sessions : request[s].op = "setup" => setupLock = s
  /\ BootTypes
  /\ setups \in Nat

TypeInv ==
  /\ database \in Databases
  /\ AccountsTyped
  /\ ProvidersTyped
  /\ RequestsTyped
  /\ ProfilesAreThere
  /\ StartTyped

LEMMA TypeInvType == TypeInv => TypeOK
  BY DEF TypeInv, TypeOK, AccountsTyped, PeopleTyped, ProvidersTyped,
         RequestsTyped, StartTyped, BootTypes

\* What is typed or claimed is spelt somehow, and so is what lower() makes of it.
LEMMA Spellings ==
  /\ Typed \subseteq Words /\ Claimed \subseteq Words
  /\ Someone \in Typed /\ lower[Someone] = Someone
  /\ \A w \in Words : lower[w] \in Words
  BY AccountsAssumption, SpellingAssumption
  DEF AccountsAssumption, SpellingAssumption, Someone

LEMMA AccountsAreUsers ==
  /\ LiveUsers \subseteq Users /\ ActiveAdmins \subseteq Users
  /\ \A name : Matching(name) \subseteq Users /\ Named(name) \subseteq Users
  BY DEF LiveUsers, ActiveAdmins, Matching, Named

\* The numbers of a username have a first one that is free.
LEMMA NameIsOne ==
  ASSUME NEW w \in Words,
         \E n \in 1..MaxNumber : Matching(<<w, n>>) = {}
  PROVE  /\ _unique_username(w) \in Names
         /\ Matching(_unique_username(w)) = {}
<1> DEFINE free == {n \in 1..MaxNumber : Matching(<<w, n>>) = {}}
<1>1. free \subseteq Nat /\ free # {}
  BY AccountsAssumption DEF AccountsAssumption
<1>2. \E x \in free : \A y \in free : ~(<<y, x>> \in OpToRel(<, Nat))
  BY <1>1, NatLessThanWellFounded, WFMin
<1>3. \A x, y \in Nat : y < x => <<y, x>> \in OpToRel(<, Nat)
  BY DEF OpToRel
<1>4. PICK n \in free : \A m \in free : ~(m < n)
  BY <1>1, <1>2, <1>3
<1>5. \A m \in free : n <= m
  BY <1>1, <1>4
<1> DEFINE first == CHOOSE m \in free : \A k \in free : m <= k
<1>6. first \in free
  BY <1>5
<1>7. _unique_username(w) = <<w, first>>
  BY DEF _unique_username
<1>8. first \in 1..MaxNumber /\ Matching(<<w, first>>) = {}
  BY <1>6
<1> HIDE DEF first
<1> QED
  BY <1>7, <1>8 DEF Names

\* A new account has the type of accounts.
LEMMA AccountTyped ==
  ASSUME NEW name \in Names, NEW source \in {"local", "ldap", "oidc"},
         NEW id \in 0..MaxProviders, NEW ext \in Words, NEW admin \in BOOLEAN
  PROVE  Account(name, source, id, ext, admin) \in Rows
  BY DEF Account, Rows

\* The first username of a person is one.
LEMMA FirstName ==
  ASSUME NEW w \in Words
  PROVE  <<w, 1>> \in Names
  BY AccountsAssumption DEF AccountsAssumption, Names

LEMMA FirstAccountTyped ==
  ASSUME NEW w \in Words, NEW admin \in BOOLEAN
  PROVE  Account(<<w, 1>>, "local", 0, w, admin) \in Rows
<1>1. <<w, 1>> \in Names /\ 0 \in 0..MaxProviders
  BY FirstName, AccountsAssumption DEF AccountsAssumption
<1> QED
  BY <1>1, AccountTyped

\* One account that takes on a new row leaves the others as they are.
LEMMA AccountSet ==
  ASSUME AccountsTyped, NEW u \in Users, NEW r \in Rows,
         user' = [user EXCEPT ![u] = r],
         users' \in 0..MaxUsers, UNCHANGED <<stray, crossed, usedBy>>
  PROVE  AccountsTyped'
  BY DEF AccountsTyped, PeopleTyped

LEMMA AccountInserted ==
  ASSUME AccountsTyped, NEW r \in Rows, Insert(r)
  PROVE  /\ users + 1 \in Users /\ users' \in 0..MaxUsers
         /\ user' = [user EXCEPT ![users + 1] = r]
         /\ user' \in [Users -> Rows]
  BY AccountsAssumption DEF AccountsAssumption, AccountsTyped, Insert

\* A session reads what its request has to, and the others keep what they have.
LEMMA RequestReads ==
  ASSUME TypeInv, NEW s \in Sessions, NEW r \in Requests,
         request' = [request EXCEPT ![s] = r],
         requests' \in 0..MaxRequests,
         r.op = "ldap" => \A p \in r.profiles : p[2].stamp # 0
  PROVE  RequestsTyped' /\ ProfilesAreThere'
  BY DEF TypeInv, RequestsTyped, ProfilesAreThere

LEMMA IdleTyped == Idle \in Requests
  BY DEF Requests

LEMMA SessionDone ==
  ASSUME TypeInv, NEW s \in Sessions, Done(s), requests' \in 0..MaxRequests
  PROVE  RequestsTyped' /\ ProfilesAreThere'
<1>1. Idle \in Requests /\ Idle.op # "ldap"
  BY IdleTyped
<1> QED
  BY <1>1, RequestReads DEF Done

\* A request is counted.
LEMMA OneMore ==
  ASSUME TypeInv, NEW op, Begins(op)
  PROVE  requests' \in 0..MaxRequests
  BY RequestsAssumption DEF TypeInv, RequestsTyped, Begins, RequestsAssumption

\* What it does leaves the setup to the session that holds its lock.
LEMMA SetupElsewhere ==
  ASSUME TypeInv, NEW s \in Sessions, NEW r, r.op # "setup",
         request' = [request EXCEPT ![s] = r],
         UNCHANGED <<setupLock, boot, setups>>
  PROVE  StartTyped'
  BY DEF TypeInv, RequestsTyped, StartTyped, BootTypes

\* A session that only reads, or ends, changes no type.
LEMMA OnlyReads ==
  ASSUME TypeInv, NEW s \in Sessions, NEW r \in Requests,
         request' = [request EXCEPT ![s] = r],
         requests' \in 0..MaxRequests,
         r.op = "ldap" => \A p \in r.profiles : p[2].stamp # 0,
         r.op # "setup",
         UNCHANGED <<database, userVars, providerVars, formVars, startVars,
                     signInVars>>
  PROVE  TypeInv'
<1>1. RequestsTyped' /\ ProfilesAreThere'
  BY RequestReads
<1>2. StartTyped'
  BY SetupElsewhere
<1> QED
  BY <1>1, <1>2
  DEF TypeInv, AccountsTyped, PeopleTyped, ProvidersTyped

\* A request that is over at once leaves the sessions as they are.
LEMMA AtOnce ==
  ASSUME TypeInv, UNCHANGED <<request, setupLock, boot, setups>>,
         requests' \in 0..MaxRequests
  PROVE  RequestsTyped' /\ ProfilesAreThere' /\ StartTyped'
  BY DEF TypeInv, RequestsTyped, ProfilesAreThere, StartTyped, BootTypes

\* The setup, from its page to the first account.
LEMMA SetupTyped ==
  ASSUME TypeInv, Setup
  PROVE  TypeInv'
<1>1. ASSUME NEW s \in Sessions, create_initial_admin(s)
      PROVE  TypeInv'
  <2>1. [op |-> "setup"] \in Requests
    BY DEF Requests
  <2>2. request' = [request EXCEPT ![s] = [op |-> "setup"]]
    BY <1>1 DEF create_initial_admin, Reads
  <2>3. RequestsTyped' /\ ProfilesAreThere'
    BY <1>1, <2>1, <2>2, OneMore, RequestReads DEF create_initial_admin
  <2>4. StartTyped'
    BY <1>1, <2>2, AccountsAssumption
    DEF create_initial_admin, LockIsFree, TypeInv, StartTyped, RequestsTyped,
        BootTypes, AccountsAssumption
  <2> QED
    BY <1>1, <2>3, <2>4
    DEF create_initial_admin, TypeInv, AccountsTyped, PeopleTyped,
        ProvidersTyped
<1>2. ASSUME NEW s \in Sessions, NEW w \in Words, CommitSetup(s, <<w, 1>>)
      PROVE  TypeInv'
  <2> DEFINE new == [Account(<<w, 1>>, "local", 0, w, TRUE)
                       EXCEPT !.initial = TRUE]
  <2>1. new \in Rows
    <3>1. Account(<<w, 1>>, "local", 0, w, TRUE) \in Rows
      BY FirstAccountTyped
    <3> QED
      BY <3>1 DEF Rows
  <2>2. Insert(new)
    BY <1>2 DEF CommitSetup
  <2>3. user' \in [Users -> Rows] /\ users' \in 0..MaxUsers
    <3> HIDE DEF new
    <3> QED
      BY <2>1, <2>2, AccountInserted DEF TypeInv
  <2>4. AccountsTyped'
    BY <1>2, <2>3
    DEF CommitSetup, TypeInv, AccountsTyped, PeopleTyped
  <2>5. RequestsTyped' /\ ProfilesAreThere'
    BY <1>2, SessionDone DEF CommitSetup, TypeInv, RequestsTyped
  <2>6. StartTyped'
    BY <1>2
    DEF CommitSetup, Done, TypeInv, StartTyped, RequestsTyped, BootTypes
  <2> QED
    BY <1>2, <2>4, <2>5, <2>6 DEF CommitSetup, TypeInv, ProvidersTyped
<1>3. ASSUME NEW s \in Sessions, AbortSetup(s)
      PROVE  TypeInv'
  <2>1. RequestsTyped' /\ ProfilesAreThere'
    BY <1>3, SessionDone DEF AbortSetup, TypeInv, RequestsTyped
  <2>2. StartTyped'
    BY <1>3
    DEF AbortSetup, Done, TypeInv, StartTyped, RequestsTyped, BootTypes
  <2> QED
    BY <1>3, <2>1, <2>2
    DEF AbortSetup, TypeInv, AccountsTyped, PeopleTyped, ProvidersTyped
<1> QED
  BY <1>1, <1>2, <1>3, Spellings DEF Setup

\* The start of a process.
LEMMA StartIsTyped ==
  ASSUME TypeInv, Start
  PROVE  TypeInv'
<1>1. CASE bootstrap
  <2>1. Promoted \subseteq Users /\ Adopted \subseteq Users
    BY DEF Promoted, Adopted, Oldest, LiveUsers
  <2>2. BootTypes'
    BY <1>1, <2>1 DEF bootstrap, BootTypes
  <2> QED
    BY <1>1, <2>2
    DEF bootstrap, TypeInv, AccountsTyped, PeopleTyped, ProvidersTyped,
        RequestsTyped, ProfilesAreThere, StartTyped
<1>2. CASE CommitBootstrap
  <2>1. NotBooting \in [op : {"idle"}, promote : {0}, adopt : {0}]
        /\ BootDue \in [op : {"due"}, promote : {0}, adopt : {0}]
    BY DEF NotBooting, BootDue
  <2>2. BootTypes'
    BY <1>2, <2>1 DEF CommitBootstrap, BootTypes
  <2>3. ASSUME NEW one \in BOOLEAN,
               user' = [u \in Users |->
                          [user[u] EXCEPT
                             !.admin = @ \/ u = boot.promote,
                             !.initial = @ \/ u = boot.adopt,
                             !.provider = IF one /\ u \in Legacy THEN 1
                                          ELSE @]]
        PROVE  user' \in [Users -> Rows]
    <3>1. ASSUME NEW u \in Users, NEW a \in BOOLEAN, NEW b \in BOOLEAN,
                 NEW p \in 0..MaxProviders
          PROVE  [user[u] EXCEPT !.admin = a, !.initial = b, !.provider = p]
                   \in Rows
      BY DEF TypeInv, AccountsTyped, Rows
    <3>2. ASSUME NEW u \in Users
          PROVE  (IF one /\ u \in Legacy THEN 1 ELSE user[u].provider)
                   \in 0..MaxProviders
      BY AccountsAssumption
      DEF AccountsAssumption, TypeInv, AccountsTyped, Rows
    <3>3. \A u \in Users :
            /\ (user[u].admin \/ u = boot.promote) \in BOOLEAN
            /\ (user[u].initial \/ u = boot.adopt) \in BOOLEAN
      OBVIOUS
    <3> QED
      BY <2>3, <3>1, <3>2, <3>3
  <2>4. /\ user' \in [Users -> Rows]
        /\ crossed' \subseteq Users
    BY <1>2, <2>3 DEF CommitBootstrap, TypeInv, AccountsTyped
  <2> QED
    BY <1>2, <2>2, <2>4
    DEF CommitBootstrap, TypeInv, AccountsTyped, PeopleTyped, ProvidersTyped,
        RequestsTyped, ProfilesAreThere, StartTyped
<1> QED
  BY <1>1, <1>2 DEF Start

\* The Users page.
LEMMA UsersPageTyped ==
  ASSUME TypeInv, UsersPage
  PROVE  TypeInv'
<1>1. ASSUME NEW s \in Sessions, NEW me \in Users, NEW u \in Users,
             delete_user(s, me, u)
      PROVE  TypeInv'
  <2>1. [op |-> "delete", id |-> u] \in Requests
    BY DEF Requests
  <2>2. requests' \in 0..MaxRequests
    BY <1>1, OneMore DEF delete_user, IsAdminPage, Open
  <2> QED
    BY <1>1, <2>1, <2>2, OnlyReads DEF delete_user, Reads
<1>2. ASSUME NEW s \in Sessions, NEW me \in Users, NEW u \in Users,
             NEW admin \in BOOLEAN, NEW active \in BOOLEAN,
             update(s, me, u, admin, active)
      PROVE  TypeInv'
  <2> DEFINE r == [op |-> "update", id |-> u, admin |-> admin,
                   active |-> active, was_admin |-> user[u].admin,
                   was_active |-> user[u].active]
  <2>1. r \in Requests
    <3>1. user[u].admin \in BOOLEAN /\ user[u].active \in BOOLEAN
      BY DEF TypeInv, AccountsTyped, Rows
    <3> QED
      BY <3>1 DEF Requests
  <2>2. requests' \in 0..MaxRequests
    BY <1>2, OneMore DEF update, IsAdminPage, Open
  <2>3. /\ request' = [request EXCEPT ![s] = r]
        /\ r.op = "update"
        /\ UNCHANGED <<database, userVars, providerVars, formVars, startVars,
                       signInVars>>
    BY <1>2 DEF update, Reads
  <2> QED
    BY <2>1, <2>2, <2>3, OnlyReads
<1>3. ASSUME NEW s \in Sessions, CommitUpdate(s)
      PROVE  TypeInv'
  <2> DEFINE r == request[s]
  <2>1. /\ r.op = "update" /\ r \in Requests
        /\ r.id \in Users /\ r.admin \in BOOLEAN /\ r.active \in BOOLEAN
    BY <1>3 DEF CommitUpdate, TypeInv, RequestsTyped, Requests
  <2>2. ASSUME NEW a \in BOOLEAN, NEW b \in BOOLEAN
        PROVE  [user EXCEPT ![r.id].admin = a, ![r.id].active = b]
                 \in [Users -> Rows]
    BY <2>1 DEF TypeInv, AccountsTyped, Rows
  <2>3. /\ Written(r.admin, r.was_admin, user[r.id].admin) \in BOOLEAN
        /\ Written(r.active, r.was_active, user[r.id].active) \in BOOLEAN
    BY <2>1 DEF Written, TypeInv, AccountsTyped, Rows
  <2>4. user' \in [Users -> Rows]
    BY <1>3, <2>2, <2>3 DEF CommitUpdate, TypeInv, AccountsTyped
  <2>5. RequestsTyped' /\ ProfilesAreThere'
    BY <1>3, SessionDone DEF CommitUpdate, TypeInv, RequestsTyped
  <2>6. StartTyped'
    BY <1>3, SetupElsewhere DEF CommitUpdate, Done
  <2> QED
    BY <1>3, <2>4, <2>5, <2>6
    DEF CommitUpdate, TypeInv, AccountsTyped, PeopleTyped, ProvidersTyped
<1>4. ASSUME NEW s \in Sessions, CommitDelete(s)
      PROVE  TypeInv'
  <2>1. user' \in [Users -> Rows]
    <3> DEFINE u == request[s].id
    <3>1. request[s].op = "delete" /\ request[s] \in Requests
      BY <1>4 DEF CommitDelete, TypeInv, RequestsTyped
    <3>2. u \in Users
      BY <3>1 DEF Requests
    <3> DEFINE row == IF user[u].row = "live" THEN "gone" ELSE user[u].row
    <3>3. [user[u] EXCEPT !.row = row] \in Rows
      BY <3>2 DEF TypeInv, AccountsTyped, Rows
    <3>4. user' = [user EXCEPT ![u] = [user[u] EXCEPT !.row = row]]
      BY <1>4, <3>2 DEF CommitDelete, TypeInv, AccountsTyped
    <3> QED
      BY <3>2, <3>3, <3>4 DEF TypeInv, AccountsTyped
  <2>2. RequestsTyped' /\ ProfilesAreThere'
    BY <1>4, SessionDone DEF CommitDelete, TypeInv, RequestsTyped
  <2>3. StartTyped'
    BY <1>4, SetupElsewhere DEF CommitDelete, Done
  <2> QED
    BY <1>4, <2>1, <2>2, <2>3
    DEF CommitDelete, TypeInv, AccountsTyped, PeopleTyped, ProvidersTyped
<1>5. ASSUME NEW me \in Users, NEW w \in Words, NEW admin \in BOOLEAN,
             create(me, <<w, 1>>, admin)
      PROVE  TypeInv'
  <2>1. requests' \in 0..MaxRequests
    BY <1>5, OneMore DEF create, IsAdminPage, Open
  <2>2. user' \in [Users -> Rows] /\ users' \in 0..MaxUsers
    BY <1>5, FirstAccountTyped, AccountInserted DEF create, TypeInv
  <2>3. RequestsTyped' /\ ProfilesAreThere' /\ StartTyped'
    BY <1>5, <2>1, AtOnce DEF create
  <2> QED
    BY <1>5, <2>2, <2>3
    DEF create, TypeInv, AccountsTyped, PeopleTyped, ProvidersTyped
<1> QED
  BY <1>1, <1>2, <1>3, <1>4, <1>5, AccountsAreUsers, Spellings DEF UsersPage

\* What a form about a provider has written and not committed.
LEMMA FlushedTyped ==
  ASSUME TypeInv, NEW s \in Sessions, NEW k \in Kinds, NEW i \in Ids,
         NEW row \in ProviderRows, NEW cut \in SUBSET Users,
         Flush(s, k, i, row, cut), requests' \in 0..MaxRequests,
         UNCHANGED <<setupLock, boot, setups>>
  PROVE  RequestsTyped' /\ ProfilesAreThere' /\ StartTyped'
<1>1. PICK r : /\ r.op = "flushed" /\ r \in Requests
               /\ request' = [request EXCEPT ![s] = r]
  <2> DEFINE q == [op |-> "flushed", kind |-> k, id |-> i, row |-> row,
                   cut |-> cut,
                   shows |-> KeepsAWayIn([provider EXCEPT ![k][i] = row])]
  <2>1. KeepsAWayIn([provider EXCEPT ![k][i] = row]) \in BOOLEAN
    BY DEF KeepsAWayIn
  <2>2. q \in Requests /\ q.op = "flushed"
    <3>1. ASSUME NEW b \in BOOLEAN
          PROVE  [op |-> "flushed", kind |-> k, id |-> i, row |-> row,
                  cut |-> cut, shows |-> b] \in Requests
      BY DEF Requests
    <3> QED
      BY <2>1, <3>1
  <2>3. request' = [request EXCEPT ![s] = q]
    BY DEF Flush
  <2> QED
    BY <2>2, <2>3
<1> QED
  BY <1>1, RequestReads, SetupElsewhere

\* The Authentication page.
LEMMA AuthenticationPageTyped ==
  ASSUME TypeInv, AuthenticationPage
  PROVE  TypeInv'
<1>1. ASSUME NEW me \in Users, show_local_form(me)
      PROVE  TypeInv'
  <2>1. requests' \in 0..MaxRequests
    BY <1>1, OneMore DEF show_local_form, IsAdminPage, Open
  <2> QED
    BY <1>1, <2>1, AtOnce
    DEF show_local_form, TypeInv, AccountsTyped, PeopleTyped, ProvidersTyped
<1>2. ASSUME NEW s \in Sessions, NEW me \in Users, set_local_form(s, me)
      PROVE  TypeInv'
  <2>1. requests' \in 0..MaxRequests
    BY <1>2, OneMore DEF set_local_form, IsAdminPage, Open
  <2>2. [op |-> "hide"] \in Requests
    BY DEF Requests
  <2> QED
    BY <1>2, <2>1, <2>2, OnlyReads DEF set_local_form, Reads
<1>3. ASSUME NEW s \in Sessions, NEW me \in Users, NEW k \in Kinds,
             NEW i \in Ids, delete_provider(s, me, k, i)
      PROVE  TypeInv'
  <2>1. requests' \in 0..MaxRequests
    BY <1>3, OneMore DEF delete_provider, IsAdminPage, Open
  <2>2. NoProvider \in ProviderRows /\ CutLoose(k, i) \in SUBSET Users
    BY AccountsAssumption
    DEF AccountsAssumption, NoProvider, ProviderRows, CutLoose, LiveUsers
  <2>3. RequestsTyped' /\ ProfilesAreThere' /\ StartTyped'
    BY <1>3, <2>1, <2>2, FlushedTyped DEF delete_provider, Flushes
  <2> QED
    BY <1>3, <2>3
    DEF delete_provider, TypeInv, AccountsTyped, PeopleTyped, ProvidersTyped
<1>4. ASSUME NEW s \in Sessions, NEW me \in Users, NEW k \in Kinds,
             NEW i \in Ids, NEW on \in BOOLEAN, NEW auto \in BOOLEAN,
             create_provider(s, me, k, i, on, auto)
      PROVE  TypeInv'
  <2>1. requests' \in 0..MaxRequests
    BY <1>4, OneMore DEF create_provider, IsAdminPage, Open
  <2>2. created[k] + 1 \in 0..MaxProviders
    BY <1>4, AccountsAssumption
    DEF AccountsAssumption, create_provider, TypeInv, ProvidersTyped
  <2>3. Applied(created[k] + 1, on, auto) \in ProviderRows
    BY <2>2 DEF Applied, ProviderRows
  <2>4. RequestsTyped' /\ ProfilesAreThere' /\ StartTyped'
    <3>1. Flush(s, k, i, Applied(created[k] + 1, on, auto), {})
      BY <1>4 DEF create_provider, Flushes
    <3>2. UNCHANGED <<setupLock, boot, setups>>
      BY <1>4 DEF create_provider
    <3> QED
      BY <2>1, <2>3, <3>1, <3>2, FlushedTyped
  <2>5. created' \in [Kinds -> 0..MaxProviders]
    BY <1>4, <2>2 DEF create_provider, TypeInv, ProvidersTyped
  <2> QED
    BY <1>4, <2>4, <2>5
    DEF create_provider, TypeInv, AccountsTyped, PeopleTyped, ProvidersTyped
<1>5. ASSUME NEW s \in Sessions, NEW me \in Users, NEW k \in Kinds,
             NEW i \in Ids, NEW on \in BOOLEAN, NEW auto \in BOOLEAN,
             update_provider(s, me, k, i, on, auto)
      PROVE  TypeInv'
  <2>1. requests' \in 0..MaxRequests
    BY <1>5, OneMore DEF update_provider, IsAdminPage, Open
  <2> DEFINE is == provider[k][i]
             r  == [op |-> "edit", kind |-> k, id |-> i, was |-> is,
                    form |-> Applied(is.stamp, on, auto)]
  <2>2. is \in ProviderRows /\ Applied(is.stamp, on, auto) \in ProviderRows
    BY DEF Applied, ProviderRows, TypeInv, ProvidersTyped
  <2>3. r \in Requests /\ r.op = "edit"
    <3> HIDE DEF is
    <3> QED
      BY <2>2 DEF Requests
  <2>4. /\ request' = [request EXCEPT ![s] = r]
        /\ UNCHANGED <<database, userVars, providerVars, formVars, startVars,
                       signInVars>>
    BY <1>5 DEF update_provider, Reads
  <2> HIDE DEF r
  <2> QED
    BY <2>1, <2>3, <2>4, OnlyReads
<1>6. ASSUME NEW s \in Sessions, CommitHide(s)
      PROVE  TypeInv'
  <2>1. RequestsTyped' /\ ProfilesAreThere'
    BY <1>6, SessionDone DEF CommitHide, TypeInv, RequestsTyped
  <2>2. StartTyped'
    BY <1>6, SetupElsewhere DEF CommitHide, Done
  <2> QED
    BY <1>6, <2>1, <2>2
    DEF CommitHide, TypeInv, AccountsTyped, PeopleTyped, ProvidersTyped
<1>7. ASSUME NEW s \in Sessions, CommitProvider(s)
      PROVE  TypeInv'
  <2> DEFINE r == request[s]
  <2>1. /\ r.op = "flushed"
        /\ r.kind \in Kinds /\ r.id \in Ids /\ r.row \in ProviderRows
        /\ r.shows \in BOOLEAN
    BY <1>7 DEF CommitProvider, TypeInv, RequestsTyped, Requests
  <2>2. provider' \in [Kinds -> [Ids -> ProviderRows]]
    BY <1>7, <2>1 DEF CommitProvider, TypeInv, ProvidersTyped
  <2>3. ASSUME NEW u \in Users
        PROVE  [user[u] EXCEPT !.provider = 0] \in Rows
    BY AccountsAssumption
    DEF AccountsAssumption, TypeInv, AccountsTyped, Rows
  <2>4. user' \in [Users -> Rows]
    BY <1>7, <2>3 DEF CommitProvider, TypeInv, AccountsTyped
  <2>5. show_form' \in BOOLEAN /\ lateHide' \in BOOLEAN
    BY <1>7 DEF CommitProvider
  <2>6. RequestsTyped' /\ ProfilesAreThere'
    BY <1>7, SessionDone DEF CommitProvider, TypeInv, RequestsTyped
  <2>7. StartTyped'
    BY <1>7, SetupElsewhere DEF CommitProvider, Done
  <2> QED
    BY <1>7, <2>2, <2>4, <2>5, <2>6, <2>7
    DEF CommitProvider, TypeInv, AccountsTyped, PeopleTyped, ProvidersTyped
<1>8. ASSUME NEW s \in Sessions, SaveProvider(s)
      PROVE  TypeInv'
  <2> DEFINE r   == request[s]
             is  == provider[r.kind][r.id]
             row == Applied(is.stamp, Written(r.form.login, r.was.login, is.login),
                            Written(r.form.auto, r.was.auto, is.auto))
  <2>1. /\ r.kind \in Kinds /\ r.id \in Ids
        /\ r.was \in ProviderRows /\ r.form \in ProviderRows
    BY <1>8 DEF SaveProvider, TypeInv, RequestsTyped, Requests
  <2>2. is \in ProviderRows
    BY <2>1 DEF TypeInv, ProvidersTyped
  <2>3. row \in ProviderRows
    <3> HIDE DEF is
    <3> QED
      BY <2>1, <2>2 DEF Applied, Written, ProviderRows
  <2>4. Flush(s, r.kind, r.id, row, {})
    BY <1>8 DEF SaveProvider
  <2>5. /\ requests' \in 0..MaxRequests
        /\ UNCHANGED <<setupLock, boot, setups>>
    BY <1>8 DEF SaveProvider, TypeInv, RequestsTyped
  <2>6. RequestsTyped' /\ ProfilesAreThere' /\ StartTyped'
    <3> HIDE DEF r, row
    <3> QED
      BY <2>1, <2>3, <2>4, <2>5, FlushedTyped
  <2> QED
    BY <1>8, <2>6
    DEF SaveProvider, TypeInv, AccountsTyped, PeopleTyped, ProvidersTyped
<1>9. ASSUME NEW s \in Sessions, SaveNothing(s)
      PROVE  TypeInv'
  <2>1. Idle \in Requests
    BY IdleTyped
  <2>2. requests' \in 0..MaxRequests
    BY <1>9 DEF SaveNothing, TypeInv, RequestsTyped
  <2> QED
    BY <1>9, <2>1, <2>2, OnlyReads DEF SaveNothing, Done
<1>10. ASSUME NEW s \in Sessions, SaveUnchanged(s)
       PROVE  TypeInv'
  <2>1. RequestsTyped' /\ ProfilesAreThere'
    BY <1>10, SessionDone DEF SaveUnchanged, TypeInv, RequestsTyped
  <2>2. StartTyped'
    BY <1>10, SetupElsewhere DEF SaveUnchanged, Done
  <2>3. show_form' \in BOOLEAN /\ lateHide' \in BOOLEAN
    BY <1>10 DEF SaveUnchanged
  <2> QED
    BY <1>10, <2>1, <2>2, <2>3
    DEF SaveUnchanged, TypeInv, AccountsTyped, PeopleTyped, ProvidersTyped
<1> QED
  BY <1>1, <1>2, <1>3, <1>4, <1>5, <1>6, <1>7, <1>8, <1>9, <1>10,
     AccountsAreUsers
  DEF AuthenticationPage

\* The command line.
LEMMA CommandLineTyped ==
  ASSUME TypeInv, CommandLine
  PROVE  TypeInv'
<1>1. ASSUME NEW op, NEW u \in Users, NEW row \in Rows, Sets(op, u, row)
      PROVE  TypeInv'
  <2>1. requests' \in 0..MaxRequests
    BY <1>1, OneMore DEF Sets
  <2>2. user' \in [Users -> Rows]
    BY <1>1 DEF Sets, TypeInv, AccountsTyped
  <2>3. RequestsTyped' /\ ProfilesAreThere' /\ StartTyped'
    BY <1>1, <2>1, AtOnce DEF Sets
  <2> QED
    BY <1>1, <2>2, <2>3
    DEF Sets, TypeInv, AccountsTyped, PeopleTyped, ProvidersTyped
<1>2. ASSUME NEW u \in Users,
             set_password(u) \/ reset_initial_admin(u) \/ promote(u)
      PROVE  TypeInv'
  <2>1. /\ [user[u] EXCEPT !.active = TRUE] \in Rows
        /\ [user[u] EXCEPT !.admin = TRUE, !.active = TRUE] \in Rows
        /\ [user[u] EXCEPT !.source = "local", !.admin = TRUE,
                           !.active = TRUE] \in Rows
    BY DEF TypeInv, AccountsTyped, Rows
  <2> QED
    BY <1>1, <1>2, <2>1 DEF set_password, reset_initial_admin, promote
<1>3. ASSUME NEW w \in Words, create_admin(<<w, 1>>)
      PROVE  TypeInv'
  <2>1. requests' \in 0..MaxRequests
    BY <1>3, OneMore DEF create_admin
  <2>2. user' \in [Users -> Rows] /\ users' \in 0..MaxUsers
    BY <1>3, FirstAccountTyped, AccountInserted DEF create_admin, TypeInv
  <2>3. RequestsTyped' /\ ProfilesAreThere' /\ StartTyped'
    BY <1>3, <2>1, AtOnce DEF create_admin
  <2> QED
    BY <1>3, <2>2, <2>3
    DEF create_admin, TypeInv, AccountsTyped, PeopleTyped, ProvidersTyped
<1>4. CASE disable_ldap_login \/ disable_sso
  <2>1. requests' \in 0..MaxRequests
    BY <1>4, OneMore DEF disable_ldap_login, disable_sso
  <2>2. ASSUME NEW k \in Kinds
        PROVE  SwitchedOff(k) \in [Kinds -> [Ids -> ProviderRows]]
    <3>1. ASSUME NEW i \in Ids
          PROVE  [provider[k][i] EXCEPT !.login = FALSE] \in ProviderRows
      <4>1. provider[k][i] \in ProviderRows
        BY DEF TypeInv, ProvidersTyped
      <4> QED
        BY <4>1 DEF ProviderRows
    <3> QED
      BY <3>1 DEF SwitchedOff, TypeInv, ProvidersTyped
  <2>3. provider' \in [Kinds -> [Ids -> ProviderRows]]
    BY <1>4, <2>2 DEF disable_ldap_login, disable_sso
  <2>4. RequestsTyped' /\ ProfilesAreThere' /\ StartTyped'
    BY <1>4, <2>1, AtOnce DEF disable_ldap_login, disable_sso
  <2> QED
    BY <1>4, <2>3, <2>4
    DEF disable_ldap_login, disable_sso, TypeInv, AccountsTyped, PeopleTyped,
        ProvidersTyped
<1> QED
  BY <1>2, <1>3, <1>4, Spellings DEF CommandLine

\* Who has signed in is known by a provider that there was.
LEMMA SignsInTyped ==
  ASSUME TypeInv, NEW u \in Users, NEW k \in Kinds,
         NEW stamp \in 1..MaxProviders, NEW ext \in Words, NEW id,
         SignsIn(u, Person(k, stamp, ext), id)
  PROVE  PeopleTyped' /\ stray' \subseteq Users
<1>1. Person(k, stamp, ext) \in Kinds \X (1..MaxProviders) \X Words
  BY DEF Person
<1> QED
  BY <1>1 DEF SignsIn, TypeInv, AccountsTyped, PeopleTyped

\* Nobody signs in.
LEMMA RefusedTyped ==
  ASSUME TypeInv, NEW s \in Sessions, Refused(s), UNCHANGED NotSignIn
  PROVE  TypeInv'
<1>1. request' = [request EXCEPT ![s] = Idle] /\ requests' \in 0..MaxRequests
  BY DEF Refused, Done, NotSignIn, TypeInv, RequestsTyped
<1>2. Idle \in Requests /\ Idle.op = "idle"
  BY IdleTyped
<1> QED
  BY <1>1, <1>2, OnlyReads DEF Refused, NotSignIn

\* Somebody does, with an account that is new or changed.
LEMMA SignedInTyped ==
  ASSUME TypeInv, NEW s \in Sessions, Done(s), UNCHANGED NotSignIn,
         user' \in [Users -> Rows], users' \in 0..MaxUsers,
         PeopleTyped', stray' \subseteq Users
  PROVE  TypeInv'
<1>1. RequestsTyped' /\ ProfilesAreThere'
  BY SessionDone DEF NotSignIn, TypeInv, RequestsTyped
<1>2. StartTyped'
  BY SetupElsewhere DEF Done, NotSignIn
<1> QED
  BY <1>1, <1>2 DEF NotSignIn, TypeInv, AccountsTyped, ProvidersTyped

LEMMA SignInPagesTyped ==
  ASSUME TypeInv, SignInPages
  PROVE  TypeInv'
<1>1. ASSUME NEW s \in Sessions, NEW w \in Words, login(s, w)
      PROVE  TypeInv'
  <2> DEFINE on == {<<i, provider["ldap"][i]>> : i \in Enabled("ldap")}
  <2>0. PICK found \in FirstOf(Matching(<<w, 1>>)) :
          Reads(s, [op |-> "ldap", word |-> w, profiles |-> on, rows |-> user,
                    account |-> found])
    BY <1>1 DEF login
  <2> DEFINE r == [op |-> "ldap", word |-> w, profiles |-> on,
                   rows |-> user, account |-> found]
  <2>1. requests' \in 0..MaxRequests
    BY <1>1, OneMore DEF login, Open
  <2>2. /\ on \subseteq Ids \X ProviderRows
        /\ \A p \in on : p[2].stamp # 0
    <3>1. ASSUME NEW i \in Enabled("ldap")
          PROVE  /\ i \in Ids /\ provider["ldap"][i] \in ProviderRows
                 /\ provider["ldap"][i].stamp # 0
      BY DEF Enabled, Providers, TypeInv, ProvidersTyped
    <3>2. ASSUME NEW p \in on
          PROVE  p \in Ids \X ProviderRows /\ p[2].stamp # 0
      <4>1. PICK i \in Enabled("ldap") : p = <<i, provider["ldap"][i]>>
        OBVIOUS
      <4> QED
        BY <3>1, <4>1
    <3> HIDE DEF on
    <3> QED
      BY <3>2
  <2>3. /\ user \in [Users -> Rows]
        /\ found \in SUBSET Users
    BY AccountsAreUsers DEF TypeInv, AccountsTyped, FirstOf
  <2>4. r \in Requests /\ r.op = "ldap" /\ r.profiles = on
    <3> HIDE DEF on
    <3> QED
      BY <2>2, <2>3 DEF Requests
  <2>5. request' = [request EXCEPT ![s] = r]
    BY <2>0 DEF Reads
  <2>6. UNCHANGED <<database, userVars, providerVars, formVars, startVars,
                    signInVars>>
    BY <1>1 DEF login
  <2> HIDE DEF r
  <2> QED
    BY <2>1, <2>2, <2>4, <2>5, <2>6, OnlyReads
<1>2. ASSUME NEW s \in Sessions, RejectLogin(s) \/ RejectCallback(s)
      PROVE  TypeInv'
  BY <1>2, RefusedTyped DEF RejectLogin, RejectCallback
<1>3. ASSUME NEW s \in Sessions, NEW i \in Ids, NEW w \in Words,
             oidc_callback(s, i, w)
      PROVE  TypeInv'
  <2> DEFINE r == [op |-> "oidc", id |-> i,
                   stamp |-> provider["oidc"][i].stamp,
                   auto |-> provider["oidc"][i].auto, ext |-> w,
                   attempt |-> 1]
  <2>1. requests' \in 0..MaxRequests
    BY <1>3, OneMore DEF oidc_callback, Open
  <2>2. /\ provider["oidc"][i] \in ProviderRows
        /\ provider["oidc"][i].stamp # 0
    BY <1>3 DEF oidc_callback, Enabled, Providers, TypeInv, ProvidersTyped
  <2>3. /\ provider["oidc"][i].stamp \in 1..MaxProviders
        /\ provider["oidc"][i].auto \in BOOLEAN
    BY <2>2, AccountsAssumption DEF AccountsAssumption, ProviderRows
  <2>4. r \in Requests /\ r.op = "oidc"
    BY <2>3 DEF Requests
  <2>5. /\ request' = [request EXCEPT ![s] = r]
        /\ UNCHANGED <<database, userVars, providerVars, formVars, startVars,
                       signInVars>>
    BY <1>3 DEF oidc_callback, Reads
  <2> HIDE DEF r
  <2> QED
    BY <2>1, <2>4, <2>5, OnlyReads
<1>4. ASSUME NEW s \in Sessions, NEW w \in Words, ChooseName(s, w)
      PROVE  TypeInv'
  <2> DEFINE q == request[s]
             r == [op |-> "insert", id |-> q.id, stamp |-> q.stamp,
                   auto |-> q.auto, ext |-> q.ext, attempt |-> q.attempt,
                   name |-> _unique_username(w), since |-> users]
  <2>1. CASE ~q.auto
    BY <1>4, <2>1, RefusedTyped DEF ChooseName
  <2>2. CASE q.auto
    <3>1. _unique_username(w) \in Names
      BY <1>4, <2>2, NameIsOne DEF ChooseName
    <3>2. /\ q \in Requests /\ q.op = "oidc"
          /\ users \in 0..MaxUsers
      BY <1>4 DEF ChooseName, TypeInv, RequestsTyped, AccountsTyped
    <3>3. r \in Requests /\ r.op = "insert"
      BY <3>1, <3>2 DEF Requests
    <3>4. /\ request' = [request EXCEPT ![s] = r]
          /\ requests' \in 0..MaxRequests
          /\ UNCHANGED <<database, userVars, providerVars, formVars, startVars,
                         signInVars>>
      BY <1>4, <2>2 DEF ChooseName, NotSignIn, TypeInv, RequestsTyped
    <3> HIDE DEF r
    <3> QED
      BY <3>3, <3>4, OnlyReads
  <2> QED
    BY <2>1, <2>2
<1>5. ASSUME NEW s \in Sessions, NEW verdict \in Verdicts,
             FindAccount(s, verdict)
      PROVE  TypeInv'
  <2> DEFINE r == request[s]
  <2>1. /\ r.op = "oidc" /\ r \in Requests
        /\ r.stamp \in 1..MaxProviders /\ r.ext \in Words
    BY <1>5 DEF FindAccount, TypeInv, RequestsTyped, Requests
  <2>2. PICK u \in Known(r.id, r.ext) :
          IF user[u].active
          THEN /\ user' = [user EXCEPT ![u].admin = ByGroup(verdict, @)]
               /\ SignsIn(u, Person("oidc", r.stamp, r.ext), r.id)
               /\ Done(s)
               /\ UNCHANGED users
          ELSE Refused(s)
    BY <1>5 DEF FindAccount
  <2>3. u \in Users /\ UNCHANGED NotSignIn
    BY <1>5 DEF FindAccount, Known, LiveUsers
  <2>4. CASE ~user[u].active
    BY <2>2, <2>3, <2>4, RefusedTyped
  <2>5. CASE user[u].active
    <3>1. ByGroup(verdict, user[u].admin) \in BOOLEAN
      BY <2>3 DEF ByGroup, TypeInv, AccountsTyped, Rows
    <3>2. ASSUME NEW a \in BOOLEAN
          PROVE  [user EXCEPT ![u].admin = a] \in [Users -> Rows]
      BY <2>3 DEF TypeInv, AccountsTyped, Rows
    <3>3. user' \in [Users -> Rows] /\ users' \in 0..MaxUsers
      BY <2>2, <2>5, <3>1, <3>2 DEF TypeInv, AccountsTyped
    <3>4. PeopleTyped' /\ stray' \subseteq Users
      BY <2>1, <2>2, <2>3, <2>5, SignsInTyped
    <3> QED
      BY <2>2, <2>3, <2>5, <3>3, <3>4, SignedInTyped
  <2> QED
    BY <2>4, <2>5
<1>6. ASSUME NEW s \in Sessions, NEW verdict \in Verdicts,
             InsertAccount(s, verdict)
      PROVE  TypeInv'
  <2> DEFINE r == request[s]
             p == provider["oidc"][r.id]
             new == Account(r.name, "oidc", r.id, r.ext,
                            ByGroup(verdict, FALSE))
             again == [op |-> "oidc", id |-> r.id, stamp |-> r.stamp,
                       auto |-> p.auto, ext |-> r.ext,
                       attempt |-> r.attempt + 1]
  <2>1. /\ r.op = "insert" /\ r \in Requests
        /\ r.id \in Ids /\ r.stamp \in 1..MaxProviders /\ r.ext \in Words
        /\ r.name \in Names /\ r.attempt \in 1..3
    BY <1>6 DEF InsertAccount, TypeInv, RequestsTyped, Requests
  <2>2. UNCHANGED NotSignIn
    BY <1>6 DEF InsertAccount
  <2>3. CASE /\ Insert(new)
             /\ SignsIn(users + 1, Person("oidc", r.stamp, r.ext), r.id)
             /\ Done(s)
    <3>1. new \in Rows
      <4>1. ByGroup(verdict, FALSE) \in BOOLEAN
        BY DEF ByGroup
      <4>2. r.id \in 0..MaxProviders
        BY <2>1
      <4> QED
        BY <2>1, <4>1, <4>2, AccountTyped
    <3>2. /\ user' \in [Users -> Rows] /\ users' \in 0..MaxUsers
          /\ users + 1 \in Users
      <4> HIDE DEF new
      <4> QED
        BY <2>3, <3>1, AccountInserted DEF TypeInv
    <3>3. PeopleTyped' /\ stray' \subseteq Users
      BY <2>1, <2>3, <3>2, SignsInTyped
    <3> QED
      BY <2>2, <2>3, <3>2, <3>3, SignedInTyped
  <2>4. CASE /\ r.attempt < 3
             /\ request' = [request EXCEPT ![s] = again]
             /\ UNCHANGED <<userVars, signInVars>>
    <3>1. p.auto \in BOOLEAN
      BY <2>1 DEF TypeInv, ProvidersTyped, ProviderRows
    <3>2. again \in Requests /\ again.op = "oidc"
      BY <2>1, <2>4, <3>1 DEF Requests
    <3>3. requests' \in 0..MaxRequests
      BY <2>2 DEF NotSignIn, TypeInv, RequestsTyped
    <3> HIDE DEF again
    <3> QED
      BY <2>2, <2>4, <3>2, <3>3, OnlyReads DEF NotSignIn
  <2>5. CASE Refused(s)
    BY <2>2, <2>5, RefusedTyped
  <2> QED
    BY <1>6, <2>3, <2>4, <2>5 DEF InsertAccount
<1>7. ASSUME NEW s \in Sessions, request[s].op = "ldap",
             NEW p \in request[s].profiles, NEW rights \in BOOLEAN,
             sync_user(s, p, rights)
      PROVE  TypeInv'
  <2> DEFINE r == request[s]
             row(u) == IF u \in r.account THEN r.rows[u] ELSE user[u]
             person == Person("ldap", p[2].stamp, lower[r.word])
             new == Account(<<r.word, 1>>, "ldap", p[1], lower[r.word], rights)
  <2>1. /\ r \in Requests /\ r.word \in Words /\ lower[r.word] \in Words
        /\ r.profiles \subseteq Ids \X ProviderRows
    BY <1>7, Spellings DEF TypeInv, RequestsTyped, Requests
  <2>2. /\ p[1] \in Ids /\ p[1] \in 0..MaxProviders
        /\ p[2].stamp \in 1..MaxProviders
    <3>1. p \in Ids \X ProviderRows /\ p[2].stamp # 0
      BY <1>7, <2>1 DEF TypeInv, ProfilesAreThere
    <3>2. p[1] \in Ids /\ p[2] \in ProviderRows
      BY <3>1
    <3> QED
      BY <3>1, <3>2, AccountsAssumption DEF AccountsAssumption, ProviderRows
  <2>3. UNCHANGED NotSignIn
    BY <1>7 DEF sync_user
  <2>4. CASE /\ Insert(new)
             /\ SignsIn(users + 1, person, p[1])
             /\ Done(s)
    <3>1. new \in Rows
      BY <2>1, <2>2, AccountTyped, FirstName
    <3>2. /\ user' \in [Users -> Rows] /\ users' \in 0..MaxUsers
          /\ users + 1 \in Users
      <4> HIDE DEF new
      <4> QED
        BY <2>4, <3>1, AccountInserted DEF TypeInv
    <3>3. PeopleTyped' /\ stray' \subseteq Users
      BY <2>1, <2>2, <2>4, <3>2, SignsInTyped
    <3> QED
      BY <2>3, <2>4, <3>2, <3>3, SignedInTyped
  <2>5. ASSUME NEW u \in Matching(<<r.word, 1>>),
               user' = [user EXCEPT ![u].admin =
                          @ \/ (rights /\ ~row(u).admin)],
               SignsIn(u, person, p[1]), Done(s), UNCHANGED users
        PROVE  TypeInv'
    <3>1. u \in Users
      BY AccountsAreUsers
    <3>2. ASSUME NEW a \in BOOLEAN
          PROVE  [user EXCEPT ![u].admin = a] \in [Users -> Rows]
      BY <3>1 DEF TypeInv, AccountsTyped, Rows
    <3>3. (user[u].admin \/ (rights /\ ~row(u).admin)) \in BOOLEAN
      OBVIOUS
    <3>4. user' \in [Users -> Rows] /\ users' \in 0..MaxUsers
      BY <2>5, <3>2, <3>3 DEF TypeInv, AccountsTyped
    <3>5. PeopleTyped' /\ stray' \subseteq Users
      BY <2>1, <2>2, <2>5, <3>1, SignsInTyped
    <3> QED
      BY <2>3, <2>5, <3>4, <3>5, SignedInTyped
  <2>6. CASE Refused(s)
    BY <2>3, <2>6, RefusedTyped
  <2> QED
    BY <1>7, <2>4, <2>5, <2>6 DEF sync_user
<1> QED
  BY <1>1, <1>2, <1>3, <1>4, <1>5, <1>6, <1>7, Spellings DEF SignInPages

\* Every database that is considered.
LEMMA TypeInit == Init => TypeInv
<1> SUFFICES ASSUME Init PROVE TypeInv
  OBVIOUS
<1>1. /\ Someone \in Words
      /\ \A w \in Words : <<w, 1>> \in Names
      /\ 0 \in 0..MaxProviders /\ 1 \in 0..MaxProviders
      /\ 1 \in 1..MaxProviders /\ 1 \in Ids
      /\ 0 \in 0..MaxUsers /\ 1 \in 0..MaxUsers /\ 2 \in 0..MaxUsers
  BY AccountsAssumption, FirstName, Spellings DEF AccountsAssumption
<1>2. NoUser \in Rows
  <2>1. (CHOOSE w \in Words : TRUE) \in Words
    BY AccountsAssumption DEF AccountsAssumption
  <2>2. (CHOOSE n \in Names : TRUE) \in Names
    BY <1>1
  <2>3. Account(CHOOSE n \in Names : TRUE, "local", 0,
                CHOOSE w \in Words : TRUE, FALSE) \in Rows
    BY <1>1, <2>1, <2>2, AccountTyped
  <2> QED
    BY <2>3 DEF NoUser, Rows
<1>3. /\ NoProvider \in ProviderRows
      /\ One \in [Ids -> ProviderRows]
  <2>1. Applied(1, TRUE, TRUE) \in ProviderRows /\ NoProvider \in ProviderRows
    BY <1>1 DEF Applied, NoProvider, ProviderRows
  <2> QED
    BY <2>1 DEF One
<1>4. /\ NotBooting \in [op : {"idle"}, promote : {0}, adopt : {0}]
      /\ BootDue \in [op : {"due"}, promote : {0}, adopt : {0}]
  BY DEF NotBooting, BootDue
<1>5. ASSUME NEW k \in Kinds, NEW w \in Words
      PROVE  Person(k, 1, w) \in Kinds \X (1..MaxProviders) \X Words
  BY <1>1 DEF Person
<1>6. RequestsTyped /\ ProfilesAreThere
  BY IdleTyped, RequestsAssumption
  DEF Init, RequestsTyped, ProfilesAreThere, RequestsAssumption
<1>7. CASE Fresh
  <2>1. AccountsTyped
    BY <1>1, <1>2, <1>7 DEF Init, Fresh, AccountsTyped, PeopleTyped
  <2>2. ProvidersTyped
    BY <1>1, <1>3, <1>7 DEF Init, Fresh, ProvidersTyped
  <2>3. StartTyped
    BY <1>4, <1>7 DEF Init, Fresh, StartTyped, BootTypes
  <2> QED
    BY <1>6, <2>1, <2>2, <2>3 DEF Init, TypeInv
<1>8. CASE Running
  <2>1. PICK other \in Words :
          /\ user = [u \in Users |->
                       IF u = 1
                       THEN [Account(<<Someone, 1>>, "local", 0, Someone, TRUE)
                               EXCEPT !.initial = TRUE]
                       ELSE IF u = 2
                       THEN Account(<<other, 1>>, "oidc", 1, other, FALSE)
                       ELSE NoUser]
          /\ usedBy = [u \in Users |->
                         IF u = 2 THEN {Person("oidc", 1, other)} ELSE {}]
    BY <1>8, Spellings DEF Running
  <2>2. Account(<<other, 1>>, "oidc", 1, other, FALSE) \in Rows
    BY <1>1, AccountTyped
  <2>3. [Account(<<Someone, 1>>, "local", 0, Someone, TRUE)
           EXCEPT !.initial = TRUE] \in Rows
    <3>1. Account(<<Someone, 1>>, "local", 0, Someone, TRUE) \in Rows
      BY <1>1, AccountTyped
    <3> QED
      BY <3>1 DEF Rows
  <2>4. user \in [Users -> Rows] /\ PeopleTyped
    BY <1>2, <1>5, <2>1, <2>2, <2>3 DEF PeopleTyped
  <2>5. AccountsTyped
    BY <1>1, <1>8, <2>4 DEF Init, Running, AccountsTyped
  <2>6. ProvidersTyped
    BY <1>1, <1>3, <1>8 DEF Init, Running, ProvidersTyped
  <2>7. StartTyped
    BY <1>4, <1>6, <1>8 DEF Init, Running, StartTyped, BootTypes
  <2> QED
    BY <1>6, <2>5, <2>6, <2>7 DEF Init, TypeInv
<1>9. CASE Upgraded
  <2>1. PICK first \in BOOLEAN, second \in BOOLEAN, name \in Names :
          user = [u \in Users |->
                    IF u = 1
                    THEN Account(<<Someone, 1>>, "ldap", 0, Someone, first)
                    ELSE IF u = 2
                    THEN Account(name, "local", 0, Someone, second)
                    ELSE NoUser]
    BY <1>9, Spellings DEF Upgraded, Names
  <2>2. /\ Account(<<Someone, 1>>, "ldap", 0, Someone, first) \in Rows
        /\ Account(name, "local", 0, Someone, second) \in Rows
    BY <1>1, AccountTyped
  <2>3. user \in [Users -> Rows] /\ PeopleTyped
    BY <1>1, <1>2, <1>5, <1>9, <2>1, <2>2 DEF Upgraded, PeopleTyped
  <2>4. AccountsTyped
    BY <1>1, <1>9, <2>3 DEF Init, Upgraded, AccountsTyped
  <2>5. ProvidersTyped
    BY <1>1, <1>3, <1>9 DEF Init, Upgraded, ProvidersTyped
  <2>6. StartTyped
    BY <1>4, <1>9 DEF Init, Upgraded, StartTyped, BootTypes
  <2> QED
    BY <1>6, <2>4, <2>5, <2>6 DEF Init, TypeInv
<1> QED
  BY <1>7, <1>8, <1>9 DEF Init

\* Every step keeps the types.
LEMMA TypeStep == TypeInv /\ [Next]_vars => TypeInv'
<1> SUFFICES ASSUME TypeInv, [Next]_vars PROVE TypeInv'
  OBVIOUS
<1>1. CASE UNCHANGED vars
  BY <1>1
  DEF TypeInv, AccountsTyped, PeopleTyped, ProvidersTyped, RequestsTyped,
      ProfilesAreThere, StartTyped, BootTypes
<1> QED
  BY <1>1, SetupTyped, StartIsTyped, UsersPageTyped, AuthenticationPageTyped,
     CommandLineTyped, SignInPagesTyped
  DEF Next

\* Every row of the accounts and the providers keeps its type, whatever the
\* sessions and a starting process hold of them; the session that sets up holds
\* the lock, and an OpenID Connect sign-in is tried three times at most.
\* (the handlers, bootstrap, cli.py, sync_user, provision_user)
THEOREM AccountsTypeCorrect == Spec => []TypeOK
<1>1. Init => TypeInv
  BY TypeInit
<1>2. TypeInv /\ [Next]_vars => TypeInv'
  BY TypeStep
<1>3. TypeInv => TypeOK
  BY TypeInvType
<1> QED
  BY <1>1, <1>2, <1>3, PTL DEF Spec

-----------------------------------------------------------------------------
(* The initial administrator *)

\* Rows that were ever given out: nobody knows of another.
RowsAreGiven ==
  /\ \A u \in Users : user[u].row # "none" => u <= users
  /\ \A s \in Sessions :
       request[s].op \in {"update", "delete"} => request[s].id <= users
  /\ \A u \in crossed : u <= users
  /\ boot.adopt <= users

\* A request that is about to take an account's access away.
Takes(r) ==
  \/ r.op = "delete"
  \/ /\ r.op = "update"
     /\ (r.was_admin /\ ~r.admin) \/ (r.was_active /\ ~r.active)

\* Such a request has not read it as the initial administrator's.
InitialIsSpared ==
  \A s \in Sessions :
    Takes(request[s]) /\ user[request[s].id].initial =>
      request[s].id \in crossed

\* The account of the setup, and no second setup.
SetUpOnce ==
  /\ setups \in {0, 1}
  /\ \A s \in Sessions : request[s].op = "setup" => setups = 0
  /\ setups = 1 => \E u \in Initial \ crossed : IsWayIn(u) /\ boot.adopt # u

AccessInv == TypeInv /\ RowsAreGiven /\ InitialIsSpared /\ SetUpOnce

\* No local account is worse off.
NobodyLoses ==
  /\ users' = users
  /\ \A u \in Users :
       /\ user'[u].row = user[u].row /\ user'[u].initial = user[u].initial
       /\ user[u].source = "local" =>
            /\ user'[u].source = "local"
            /\ user[u].admin => user'[u].admin
            /\ user[u].active => user'[u].active

\* An account is added, by whoever has not been set up with it.
SomebodyNew ==
  \E r \in Rows : Insert(r) /\ ~r.initial /\ r.row = "live"

\* What most steps are: they threaten nobody, and begin nothing that does.
Harmless ==
  /\ NobodyLoses \/ SomebodyNew
  /\ UNCHANGED <<setups, crossed, boot>>
  /\ \A s \in Sessions :
       \/ request'[s] = request[s]
       \/ request'[s].op \notin {"update", "delete", "setup"}

\* The initial administrator's access, in a step.
AccessKept ==
  \A u \in Initial \ crossed : IsWayIn(u) => u \in Initial' /\ IsWayIn(u)'

\* Whoever is new is one of those who were not.
LEMMA NewIsNext ==
  ASSUME AccessInv, NEW r \in Rows, Insert(r)
  PROVE  /\ users' = users + 1 /\ users + 1 \in Users
         /\ \A u \in Users : user'[u] = IF u = users + 1 THEN r ELSE user[u]
         /\ user[users + 1].row = "none"
<1>1. /\ users \in Nat /\ users + 1 \in Users
      /\ user \in [Users -> Rows]
  BY AccountsAssumption
  DEF AccountsAssumption, AccessInv, TypeInv, AccountsTyped, Insert
<1> QED
  BY <1>1 DEF AccessInv, RowsAreGiven, Insert

LEMMA HarmlessKeeps ==
  ASSUME AccessInv, TypeInv', Harmless
  PROVE  AccessInv' /\ AccessKept
<1>0. /\ users \in Nat
      /\ \A s \in Sessions :
           request[s].op \in {"update", "delete"} => request[s].id \in Users
  <2>1. \A r \in Requests : r.op \in {"update", "delete"} => r.id \in Users
    BY DEF Requests
  <2> QED
    BY <2>1, AccountsAssumption
    DEF AccountsAssumption, AccessInv, TypeInv, AccountsTyped, RequestsTyped
<1>1. ASSUME NobodyLoses
      PROVE  /\ users' = users
             /\ \A u \in Users :
                  /\ user'[u].row = user[u].row
                  /\ user'[u].initial = user[u].initial
             /\ \A u \in Initial : u \in Initial' /\ (IsWayIn(u) => IsWayIn(u)')
  BY <1>1 DEF NobodyLoses, Initial, LiveUsers, Live, IsWayIn
<1>2. ASSUME SomebodyNew
      PROVE  /\ users' = users + 1
             /\ \A u \in Users :
                  user'[u].row # "none" => u <= users + 1
             /\ \A u \in Users :
                  u <= users => user'[u] = user[u]
             /\ \A u \in Initial : u \in Initial' /\ (IsWayIn(u) => IsWayIn(u)')
  <2>1. PICK r \in Rows : Insert(r)
    BY <1>2 DEF SomebodyNew
  <2>2. /\ users' = users + 1 /\ users + 1 \in Users
        /\ \A u \in Users : user'[u] = IF u = users + 1 THEN r ELSE user[u]
        /\ user[users + 1].row = "none"
    BY <2>1, NewIsNext
  <2>3. \A u \in Users : user'[u].row # "none" => u <= users + 1
    BY <1>0, <2>2 DEF AccessInv, RowsAreGiven
  <2>4. \A u \in Initial : u # users + 1
    BY <2>2 DEF Initial, LiveUsers, Live
  <2>5. \A u \in Initial : user'[u] = user[u]
    BY <2>2, <2>4 DEF Initial, LiveUsers
  <2>6. \A u \in Initial : u \in Initial' /\ (IsWayIn(u) => IsWayIn(u)')
    BY <2>5 DEF Initial, LiveUsers, Live, IsWayIn
  <2> QED
    BY <1>0, <2>2, <2>3, <2>6
<1>3. RowsAreGiven'
  <2>1. users <= users' /\ \A u \in Users : user'[u].row # "none" => u <= users'
    BY <1>0, <1>1, <1>2 DEF Harmless, AccessInv, RowsAreGiven
  <2>2. users' \in Nat /\ boot.adopt \in Nat /\ \A u \in crossed : u \in Nat
    BY <1>0, <1>1, <1>2
    DEF Harmless, AccessInv, TypeInv, StartTyped, BootTypes, AccountsTyped
  <2> QED
    BY <1>0, <2>1, <2>2 DEF Harmless, AccessInv, RowsAreGiven
<1>4. InitialIsSpared'
  <2>1. ASSUME NEW s \in Sessions, Takes(request'[s])
        PROVE  request'[s] = request[s] /\ Takes(request[s])
               /\ request[s].id \in Users /\ request[s].id <= users
    <3>1. request'[s].op \in {"update", "delete"}
      BY <2>1 DEF Takes
    <3> QED
      BY <1>0, <2>1, <3>1 DEF Harmless, AccessInv, RowsAreGiven
  <2>2. ASSUME NEW s \in Sessions, Takes(request'[s])
        PROVE  user'[request'[s].id].initial = user[request[s].id].initial
    BY <1>1, <1>2, <2>1, <2>2 DEF Harmless
  <2> QED
    BY <2>1, <2>2 DEF Harmless, AccessInv, InitialIsSpared
<1>5. SetUpOnce'
  BY <1>1, <1>2 DEF Harmless, AccessInv, SetUpOnce
<1>6. AccessKept
  BY <1>1, <1>2 DEF Harmless, AccessKept
<1> QED
  BY <1>3, <1>4, <1>5, <1>6 DEF AccessInv

\* A session does something else, and the accounts stay as they are.
LEMMA OnlySession ==
  ASSUME TypeInv, NEW s \in Sessions, NEW r,
         r.op \notin {"update", "delete", "setup"},
         request' = [request EXCEPT ![s] = r],
         UNCHANGED <<user, users, setups, crossed, boot>>
  PROVE  Harmless
  BY DEF Harmless, NobodyLoses, TypeInv, RequestsTyped

\* Accounts that are edited, or added, by a session that ends.
LEMMA SessionEnds ==
  ASSUME TypeInv, NEW s \in Sessions, Done(s),
         NobodyLoses \/ SomebodyNew, UNCHANGED <<setups, crossed, boot>>
  PROVE  Harmless
  BY DEF Harmless, Done, TypeInv, RequestsTyped

LEMMA PagesAreHarmless ==
  ASSUME TypeInv,
         \/ \E s \in Sessions : AbortSetup(s)
         \/ \E me \in Users, w \in Words, admin \in BOOLEAN :
              create(me, <<w, 1>>, admin)
         \/ AuthenticationPage
  PROVE  Harmless
<1>1. ASSUME NEW s \in Sessions, AbortSetup(s)
      PROVE  Harmless
  BY <1>1, OnlySession DEF AbortSetup, Done
<1>2. ASSUME NEW me \in Users, NEW w \in Words, NEW admin \in BOOLEAN,
             create(me, <<w, 1>>, admin)
      PROVE  Harmless
  <2> DEFINE r == Account(<<w, 1>>, "local", 0, w, admin)
  <2>1. r \in Rows /\ ~r.initial /\ r.row = "live"
    BY FirstAccountTyped DEF Account
  <2>2. Insert(r)
    BY <1>2 DEF create
  <2>3. SomebodyNew
    BY <2>1, <2>2 DEF SomebodyNew
  <2> QED
    BY <1>2, <2>3 DEF create, Harmless
<1>3. ASSUME NEW me \in Users, show_local_form(me)
      PROVE  Harmless
  BY <1>3 DEF show_local_form, Harmless, NobodyLoses
<1>4. ASSUME NEW s \in Sessions, NEW me \in Users, set_local_form(s, me)
      PROVE  Harmless
  BY <1>4, OnlySession DEF set_local_form, Reads
<1>5. ASSUME NEW s \in Sessions, NEW k \in Kinds, NEW i \in Ids,
             NEW row, NEW cut, Flush(s, k, i, row, cut),
             UNCHANGED <<user, users, setups, crossed, boot>>
      PROVE  Harmless
  BY <1>5, OnlySession DEF Flush
<1>6. ASSUME NEW s \in Sessions, NEW me \in Users, NEW k \in Kinds,
             NEW i \in Ids, delete_provider(s, me, k, i)
      PROVE  Harmless
  BY <1>5, <1>6 DEF delete_provider, Flushes
<1>7. ASSUME NEW s \in Sessions, NEW me \in Users, NEW k \in Kinds,
             NEW i \in Ids, NEW on \in BOOLEAN, NEW auto \in BOOLEAN,
             \/ create_provider(s, me, k, i, on, auto)
             \/ update_provider(s, me, k, i, on, auto)
      PROVE  Harmless
  BY <1>5, <1>7, OnlySession
  DEF create_provider, Flushes, update_provider, Reads
<1>8. ASSUME NEW s \in Sessions, CommitHide(s)
      PROVE  Harmless
  BY <1>8, OnlySession DEF CommitHide, Done
<1>9. ASSUME NEW s \in Sessions, CommitProvider(s)
      PROVE  Harmless
  <2>1. \A u \in Users :
          user'[u] = IF u \in request[s].cut
                     THEN [user[u] EXCEPT !.provider = 0] ELSE user[u]
    BY <1>9 DEF CommitProvider
  <2>2. NobodyLoses
    BY <1>9, <2>1
    DEF CommitProvider, NobodyLoses, TypeInv, AccountsTyped, Rows
  <2> QED
    BY <1>9, <2>2, SessionEnds DEF CommitProvider
<1>10. ASSUME NEW s \in Sessions,
              SaveProvider(s) \/ SaveNothing(s) \/ SaveUnchanged(s)
       PROVE  Harmless
  <2>1. CASE SaveProvider(s)
    <3> DEFINE r == request[s]
    <3>1. r.kind \in Kinds /\ r.id \in Ids
      BY <2>1 DEF SaveProvider, TypeInv, RequestsTyped, Requests
    <3> QED
      BY <1>5, <2>1, <3>1 DEF SaveProvider
  <2>2. CASE SaveNothing(s) \/ SaveUnchanged(s)
    BY <2>2, OnlySession DEF SaveNothing, SaveUnchanged, Done
  <2> QED
    BY <1>10, <2>1, <2>2
<1>11. CASE AuthenticationPage
  BY <1>3, <1>4, <1>6, <1>7, <1>8, <1>9, <1>10, <1>11, AccountsAreUsers
  DEF AuthenticationPage
<1> QED
  BY <1>1, <1>2, <1>11

LEMMA CommandsAreHarmless ==
  ASSUME TypeInv, CommandLine
  PROVE  Harmless
<1>1. ASSUME NEW op, NEW u \in Users, NEW row \in Rows, Sets(op, u, row),
             row.row = user[u].row, row.initial = user[u].initial,
             row.source \in {user[u].source, "local"},
             user[u].admin => row.admin, user[u].active => row.active
      PROVE  Harmless
  BY <1>1 DEF Sets, Harmless, NobodyLoses, TypeInv, AccountsTyped
<1>2. ASSUME NEW u \in Users,
             set_password(u) \/ reset_initial_admin(u) \/ promote(u)
      PROVE  Harmless
  <2>1. /\ [user[u] EXCEPT !.active = TRUE] \in Rows
        /\ [user[u] EXCEPT !.admin = TRUE, !.active = TRUE] \in Rows
        /\ [user[u] EXCEPT !.source = "local", !.admin = TRUE,
                           !.active = TRUE] \in Rows
        /\ user[u] \in Rows
    BY DEF TypeInv, AccountsTyped, Rows
  <2>2. CASE set_password(u)
    BY <1>1, <2>1, <2>2 DEF set_password, Rows
  <2>3. CASE reset_initial_admin(u)
    BY <1>1, <2>1, <2>3 DEF reset_initial_admin, Rows
  <2>4. CASE promote(u)
    BY <1>1, <2>1, <2>4 DEF promote, Rows
  <2> QED
    BY <1>2, <2>2, <2>3, <2>4
<1>3. ASSUME NEW w \in Words, create_admin(<<w, 1>>)
      PROVE  Harmless
  <2> DEFINE r == Account(<<w, 1>>, "local", 0, w, TRUE)
  <2>1. r \in Rows /\ ~r.initial /\ r.row = "live"
    BY FirstAccountTyped DEF Account
  <2>2. Insert(r)
    BY <1>3 DEF create_admin
  <2>3. SomebodyNew
    BY <2>1, <2>2 DEF SomebodyNew
  <2> QED
    BY <1>3, <2>3 DEF create_admin, Harmless
<1>4. CASE disable_ldap_login \/ disable_sso
  BY <1>4 DEF disable_ldap_login, disable_sso, Harmless, NobodyLoses
<1> QED
  BY <1>2, <1>3, <1>4, Spellings DEF CommandLine

LEMMA SignInsAreHarmless ==
  ASSUME TypeInv, SignInPages
  PROVE  Harmless
<1>1. ASSUME NEW s \in Sessions, Refused(s), UNCHANGED NotSignIn
      PROVE  Harmless
  BY <1>1, OnlySession DEF Refused, Done, NotSignIn
<1>2. ASSUME NEW s \in Sessions, NEW w \in Words, login(s, w)
      PROVE  Harmless
  BY <1>2, OnlySession DEF login, Reads
<1>3. ASSUME NEW s \in Sessions, RejectLogin(s) \/ RejectCallback(s)
      PROVE  Harmless
  BY <1>1, <1>3 DEF RejectLogin, RejectCallback
<1>4. ASSUME NEW s \in Sessions, NEW i \in Ids, NEW w \in Words,
             oidc_callback(s, i, w)
      PROVE  Harmless
  BY <1>4, OnlySession DEF oidc_callback, Reads
<1>5. ASSUME NEW s \in Sessions, NEW w \in Words, ChooseName(s, w)
      PROVE  Harmless
  <2>1. CASE ~request[s].auto
    BY <1>1, <1>5, <2>1 DEF ChooseName
  <2>2. CASE request[s].auto
    BY <1>5, <2>2, OnlySession DEF ChooseName, NotSignIn
  <2> QED
    BY <2>1, <2>2
<1>6. ASSUME NEW s \in Sessions, NEW verdict \in Verdicts,
             FindAccount(s, verdict)
      PROVE  Harmless
  <2> DEFINE r == request[s]
  <2>1. PICK u \in Known(r.id, r.ext) :
          IF user[u].active
          THEN /\ user' = [user EXCEPT ![u].admin = ByGroup(verdict, @)]
               /\ Done(s)
               /\ UNCHANGED users
          ELSE Refused(s)
    BY <1>6 DEF FindAccount
  <2>2. u \in Users /\ user[u].source = "oidc" /\ UNCHANGED NotSignIn
    BY <1>6 DEF FindAccount, Known, LiveUsers
  <2>3. CASE ~user[u].active
    BY <1>1, <2>1, <2>2, <2>3
  <2>4. CASE user[u].active
    <3>1. \A v \in Users :
            /\ v # u => user'[v] = user[v]
            /\ user'[u].row = user[u].row
            /\ user'[u].initial = user[u].initial
      BY <2>1, <2>2, <2>4 DEF TypeInv, AccountsTyped, Rows
    <3>2. NobodyLoses
      BY <2>1, <2>2, <2>4, <3>1 DEF NobodyLoses
    <3> QED
      BY <2>1, <2>2, <2>4, <3>2, SessionEnds DEF NotSignIn
  <2> QED
    BY <2>3, <2>4
<1>7. ASSUME NEW s \in Sessions, NEW new \in Rows, Insert(new), Done(s),
             ~new.initial, new.row = "live", UNCHANGED NotSignIn
      PROVE  Harmless
  BY <1>7, SessionEnds DEF SomebodyNew, NotSignIn
<1>8. ASSUME NEW s \in Sessions, NEW verdict \in Verdicts,
             InsertAccount(s, verdict)
      PROVE  Harmless
  <2> DEFINE r == request[s]
             new == Account(r.name, "oidc", r.id, r.ext,
                            ByGroup(verdict, FALSE))
             again == [op |-> "oidc", id |-> r.id, stamp |-> r.stamp,
                       auto |-> provider["oidc"][r.id].auto, ext |-> r.ext,
                       attempt |-> r.attempt + 1]
  <2>1. CASE Insert(new) /\ Done(s)
    <3>1. r.op = "insert" /\ r \in Requests
      BY <1>8 DEF InsertAccount, TypeInv, RequestsTyped
    <3>2. /\ r.name \in Names /\ r.id \in 0..MaxProviders /\ r.ext \in Words
      BY <3>1 DEF Requests
    <3>3. ByGroup(verdict, FALSE) \in BOOLEAN
      BY DEF ByGroup
    <3>4. new \in Rows
      BY <3>2, <3>3, AccountTyped
    <3>5. ~new.initial /\ new.row = "live"
      BY DEF Account
    <3>6. UNCHANGED NotSignIn
      BY <1>8 DEF InsertAccount
    <3> HIDE DEF new
    <3> QED
      BY <1>7, <2>1, <3>4, <3>5, <3>6
  <2>2. CASE /\ request' = [request EXCEPT ![s] = again]
             /\ UNCHANGED <<userVars, signInVars>>
    BY <1>8, <2>2, OnlySession DEF InsertAccount, NotSignIn
  <2>3. CASE Refused(s)
    BY <1>1, <1>8, <2>3 DEF InsertAccount
  <2> QED
    BY <1>8, <2>1, <2>2, <2>3 DEF InsertAccount
<1>9. ASSUME NEW s \in Sessions, request[s].op = "ldap",
             NEW p \in request[s].profiles, NEW rights \in BOOLEAN,
             sync_user(s, p, rights)
      PROVE  Harmless
  <2> DEFINE r == request[s]
             row(u) == IF u \in r.account THEN r.rows[u] ELSE user[u]
             new == Account(<<r.word, 1>>, "ldap", p[1], lower[r.word], rights)
  <2>1. UNCHANGED NotSignIn
    BY <1>9 DEF sync_user
  <2>2. CASE Insert(new) /\ Done(s)
    <3>1. /\ r.word \in Words /\ lower[r.word] \in Words
          /\ r.profiles \subseteq Ids \X ProviderRows
      BY <1>9, Spellings DEF TypeInv, RequestsTyped, Requests
    <3>2. p \in Ids \X ProviderRows
      BY <3>1
    <3>3. p[1] \in 0..MaxProviders
      BY <3>2
    <3>4. new \in Rows
      BY <3>1, <3>3, AccountTyped, FirstName
    <3>5. ~new.initial /\ new.row = "live"
      BY DEF Account
    <3> HIDE DEF new
    <3> QED
      BY <1>7, <2>1, <2>2, <3>4, <3>5
  <2>3. ASSUME NEW u \in Matching(<<r.word, 1>>),
               user' = [user EXCEPT ![u].admin =
                          @ \/ (rights /\ ~row(u).admin)],
               Done(s), UNCHANGED users
        PROVE  Harmless
    <3>1. u \in Users
      BY AccountsAreUsers
    <3>2. ASSUME NEW a \in BOOLEAN, user[u].admin => a,
                 user' = [user EXCEPT ![u].admin = a]
          PROVE  NobodyLoses
      BY <2>3, <3>1, <3>2 DEF NobodyLoses, TypeInv, AccountsTyped, Rows
    <3>3. NobodyLoses
      BY <2>3, <3>2
    <3> QED
      BY <2>1, <2>3, <3>3, SessionEnds DEF NotSignIn
  <2>4. CASE Refused(s)
    BY <1>1, <2>1, <2>4
  <2> QED
    BY <1>9, <2>2, <2>3, <2>4 DEF sync_user
<1> QED
  BY <1>2, <1>3, <1>4, <1>5, <1>6, <1>8, <1>9, Spellings DEF SignInPages

\* What is known of the numbers and the sessions in every step below.
LEMMA Numbers ==
  ASSUME AccessInv
  PROVE  /\ users \in Nat /\ boot.adopt \in Nat
         /\ \A s \in Sessions :
              request[s].op \in {"update", "delete"} =>
                request[s].id \in Users /\ request[s].id <= users
         /\ \A u \in LiveUsers : u \in Users /\ u <= users
         /\ user \in [Users -> Rows] /\ DOMAIN request = Sessions
  BY AccountsAssumption
  DEF AccountsAssumption, AccessInv, TypeInv, AccountsTyped, RequestsTyped,
      Requests, StartTyped, BootTypes, RowsAreGiven, LiveUsers, Live

\* The setup makes the initial administrator, and is the first to.
LEMMA SetupKeeps ==
  ASSUME AccessInv, TypeInv', NEW s \in Sessions,
         \/ create_initial_admin(s)
         \/ \E w \in Words : CommitSetup(s, <<w, 1>>)
  PROVE  AccessInv' /\ AccessKept
<1>1. CASE create_initial_admin(s)
  <2>1. setups = 0
    BY <1>1
    DEF create_initial_admin, is_done, AccessInv, SetUpOnce, Initial
  <2>2. /\ UNCHANGED <<user, users, crossed, boot, setups>>
        /\ \A t \in Sessions :
             request'[t] = IF t = s THEN [op |-> "setup"] ELSE request[t]
    BY <1>1, Numbers DEF create_initial_admin, Reads
  <2>3. RowsAreGiven' /\ InitialIsSpared' /\ SetUpOnce'
    BY <2>1, <2>2
    DEF AccessInv, RowsAreGiven, InitialIsSpared, Takes, SetUpOnce
  <2> QED
    BY <2>2, <2>3
    DEF AccessInv, AccessKept, Initial, LiveUsers, Live, IsWayIn
<1>2. ASSUME NEW w \in Words, CommitSetup(s, <<w, 1>>)
      PROVE  AccessInv' /\ AccessKept
  <2> DEFINE first == Account(<<w, 1>>, "local", 0, w, TRUE)
             new   == [first EXCEPT !.initial = TRUE]
  <2>1. /\ new \in Rows /\ new.row = "live" /\ new.initial
        /\ new.source = "local" /\ new.admin /\ new.active
    <3>1. first \in Rows
      BY FirstAccountTyped
    <3>2. first.row = "live" /\ first.source = "local" /\ first.admin = TRUE
          /\ first.active = TRUE
      BY DEF Account
    <3> HIDE DEF first
    <3> QED
      BY <3>1, <3>2 DEF Rows
  <2>2. Insert(new)
    BY <1>2 DEF CommitSetup
  <2> HIDE DEF new
  <2>3. /\ users' = users + 1 /\ users + 1 \in Users
        /\ \A u \in Users : user'[u] = IF u = users + 1 THEN new ELSE user[u]
        /\ user[users + 1].row = "none"
    BY <2>1, <2>2, NewIsNext
  <2>4. /\ UNCHANGED <<crossed, boot>>
        /\ setups' = setups + 1 /\ setups = 0
        /\ \A t \in Sessions :
             request'[t] = IF t = s THEN Idle ELSE request[t]
    BY <1>2, Numbers DEF CommitSetup, Done, AccessInv, SetUpOnce
  <2>5. \A t \in Sessions : request'[t].op # "setup"
    BY <1>2, <2>4 DEF CommitSetup, AccessInv, TypeInv, StartTyped
  <2>6. RowsAreGiven'
    BY <2>3, <2>4, Numbers DEF AccessInv, RowsAreGiven, TypeInv, AccountsTyped
  <2>7. InitialIsSpared'
    <3>1. ASSUME NEW t \in Sessions, Takes(request'[t])
          PROVE  /\ request'[t] = request[t]
                 /\ request[t].id \in Users /\ request[t].id # users + 1
      BY <2>4, <3>1, Numbers DEF Takes
    <3> QED
      BY <2>3, <2>4, <3>1 DEF AccessInv, InitialIsSpared
  <2>8. PICK n \in Users : n = users + 1
    BY <2>3
  <2>9. SetUpOnce'
    <3>1. user'[n] = new
      BY <2>3, <2>8
    <3>2. n \in Initial'
      BY <2>1, <3>1 DEF Initial, LiveUsers, Live
    <3>3. IsWayIn(n)'
      BY <2>1, <3>1 DEF IsWayIn, Live
    <3>4. n \notin crossed
      BY <2>8, Numbers DEF AccessInv, RowsAreGiven
    <3>5. boot.adopt # n
      BY <2>8, Numbers DEF AccessInv, RowsAreGiven
    <3>6. setups' = 1
      BY <2>4
    <3> QED
      BY <2>4, <2>5, <3>2, <3>3, <3>4, <3>5, <3>6 DEF SetUpOnce
  <2>10. AccessKept
    BY <2>3 DEF AccessKept, Initial, LiveUsers, Live, IsWayIn
  <2> QED
    BY <2>6, <2>7, <2>9, <2>10 DEF AccessInv
<1> QED
  BY <1>1, <1>2

\* Nobody is adopted while there is an initial administrator, and whoever is was
\* not spared before.
LEMMA StartKeeps ==
  ASSUME AccessInv, TypeInv', Start
  PROVE  AccessInv' /\ AccessKept
<1>1. CASE bootstrap
  <2>1. UNCHANGED <<user, users, crossed, setups, request>>
    BY <1>1 DEF bootstrap
  <2>2. boot'.adopt \in Adopted \cup {0}
    BY <1>1 DEF bootstrap
  <2>3. Adopted \subseteq LiveUsers /\ (Initial # {} => Adopted = {})
    BY DEF Adopted, Oldest
  <2>4. RowsAreGiven'
    BY <2>1, <2>2, <2>3, Numbers DEF AccessInv, RowsAreGiven
  <2>5. InitialIsSpared'
    BY <2>1 DEF AccessInv, InitialIsSpared
  <2>6. SetUpOnce'
    <3>1. Initial' = Initial /\ \A u : IsWayIn(u)' = IsWayIn(u)
      BY <2>1 DEF Initial, LiveUsers, Live, IsWayIn
    <3>2. Initial # {} => boot'.adopt = 0
      BY <2>2, <2>3
    <3>3. \A u \in Initial : u # 0
      BY DEF Initial, LiveUsers
    <3> QED
      BY <2>1, <3>1, <3>2, <3>3 DEF AccessInv, SetUpOnce
  <2> QED
    BY <2>1, <2>4, <2>5, <2>6
    DEF AccessInv, AccessKept, Initial, LiveUsers, Live, IsWayIn
<1>2. CASE CommitBootstrap
  <2>1. /\ UNCHANGED <<users, setups, request>>
        /\ boot'.adopt = 0
    <3>1. NotBooting.adopt = 0 /\ BootDue.adopt = 0
      BY DEF NotBooting, BootDue
    <3>2. boot' \in {NotBooting, BootDue}
      BY <1>2 DEF CommitBootstrap
    <3> QED
      BY <1>2, <3>1, <3>2 DEF CommitBootstrap
  <2>2. CASE UNCHANGED <<user, crossed>>
    <3>1. RowsAreGiven' /\ InitialIsSpared'
      BY <2>1, <2>2, Numbers DEF AccessInv, RowsAreGiven, InitialIsSpared
    <3>2. Initial' = Initial /\ \A u : IsWayIn(u)' = IsWayIn(u)
      BY <2>2 DEF Initial, LiveUsers, Live, IsWayIn
    <3>3. \A u \in Initial : u # 0
      BY DEF Initial, LiveUsers
    <3> QED
      BY <2>1, <2>2, <3>1, <3>2, <3>3 DEF AccessInv, SetUpOnce, AccessKept
  <2>3. CASE /\ {boot.promote, boot.adopt} \cap Users \subseteq LiveUsers
             /\ \A u \in Users :
                  /\ user'[u].row = user[u].row
                  /\ user'[u].source = user[u].source
                  /\ user'[u].active = user[u].active
                  /\ user'[u].admin = (user[u].admin \/ u = boot.promote)
                  /\ user'[u].initial = (user[u].initial \/ u = boot.adopt)
             /\ crossed' = crossed \cup
                             {u \in {boot.adopt} \cap Users : Crosses(u)}
    <3>1. RowsAreGiven'
      BY <2>1, <2>3, Numbers DEF AccessInv, RowsAreGiven
    <3>2. InitialIsSpared'
      <4>1. ASSUME NEW s \in Sessions, Takes(request[s]),
                   user'[request[s].id].initial
            PROVE  request[s].id \in crossed'
        <5>1. request[s].op \in {"update", "delete"} /\ request[s].id \in Users
          BY <4>1, Numbers DEF Takes
        <5>2. CASE user[request[s].id].initial
          BY <2>3, <4>1, <5>2 DEF AccessInv, InitialIsSpared
        <5>3. CASE request[s].id = boot.adopt
          BY <2>3, <5>1, <5>3 DEF Crosses
        <5> QED
          BY <2>3, <4>1, <5>1, <5>2, <5>3
      <4> QED
        BY <2>1, <4>1 DEF InitialIsSpared
    <3>3. \A u \in Initial :
            u \in Initial' /\ (IsWayIn(u) => IsWayIn(u)') /\ u # 0
      <4> SUFFICES ASSUME NEW u \in Initial
                   PROVE  /\ u \in Initial' /\ (IsWayIn(u) => IsWayIn(u)')
                          /\ u # 0
        OBVIOUS
      <4>1. u \in Users /\ Live(u) /\ user[u].initial /\ u # 0
        BY DEF Initial, LiveUsers
      <4>2. Live(u)' /\ user'[u].initial
        BY <2>3, <4>1 DEF Live
      <4>3. IsWayIn(u) => IsWayIn(u)'
        BY <2>3, <4>1, <4>2 DEF IsWayIn
      <4> QED
        BY <4>1, <4>2, <4>3 DEF Initial, LiveUsers
    <3>4. SetUpOnce'
      BY <2>1, <2>3, <3>3 DEF AccessInv, SetUpOnce
    <3> QED
      BY <3>1, <3>2, <3>3, <3>4 DEF AccessInv, AccessKept
  <2>4. ASSUME NEW one \in BOOLEAN,
               user' = [u \in Users |->
                          [user[u] EXCEPT
                             !.admin = @ \/ u = boot.promote,
                             !.initial = @ \/ u = boot.adopt,
                             !.provider = IF one /\ u \in Legacy THEN 1
                                          ELSE @]]
        PROVE  \A u \in Users :
                 /\ user'[u].row = user[u].row
                 /\ user'[u].source = user[u].source
                 /\ user'[u].active = user[u].active
                 /\ user'[u].admin = (user[u].admin \/ u = boot.promote)
                 /\ user'[u].initial = (user[u].initial \/ u = boot.adopt)
    <3>1. ASSUME NEW row \in Rows, NEW a \in BOOLEAN, NEW i \in BOOLEAN,
                 NEW id
          PROVE  LET new == [row EXCEPT !.admin = a, !.initial = i,
                                        !.provider = id]
                 IN  /\ new.row = row.row /\ new.source = row.source
                     /\ new.active = row.active
                     /\ new.admin = a /\ new.initial = i
      BY DEF Rows
    <3>2. \A u \in Users :
            /\ user[u] \in Rows
            /\ (user[u].admin \/ u = boot.promote) \in BOOLEAN
            /\ (user[u].initial \/ u = boot.adopt) \in BOOLEAN
      BY Numbers
    <3> SUFFICES ASSUME NEW u \in Users
                 PROVE  /\ user'[u].row = user[u].row
                        /\ user'[u].source = user[u].source
                        /\ user'[u].active = user[u].active
                        /\ user'[u].admin = (user[u].admin \/ u = boot.promote)
                        /\ user'[u].initial = (user[u].initial \/ u = boot.adopt)
      OBVIOUS
    <3> DEFINE a  == user[u].admin \/ u = boot.promote
               i  == user[u].initial \/ u = boot.adopt
               id == IF one /\ u \in Legacy THEN 1 ELSE user[u].provider
    <3>3. user'[u] = [user[u] EXCEPT !.admin = a, !.initial = i, !.provider = id]
      BY <2>4
    <3>4. user[u] \in Rows /\ a \in BOOLEAN /\ i \in BOOLEAN
      BY <3>2
    <3> HIDE DEF a, i, id
    <3>5. /\ user'[u].row = user[u].row /\ user'[u].source = user[u].source
          /\ user'[u].active = user[u].active
          /\ user'[u].admin = a /\ user'[u].initial = i
      BY <3>1, <3>3, <3>4
    <3> QED
      BY <3>5 DEF a, i
  <2> QED
    BY <1>2, <2>2, <2>3, <2>4 DEF CommitBootstrap
<1> QED
  BY <1>1, <1>2 DEF Start

\* The initial administrator of the setup is there as long as nobody loses it.
LEMMA SetUpStays ==
  ASSUME AccessInv, AccessKept, UNCHANGED <<setups, crossed, boot>>,
         \A s \in Sessions : request'[s].op = "setup" => request[s].op = "setup"
  PROVE  SetUpOnce'
<1>1. /\ setups' \in {0, 1}
      /\ \A s \in Sessions : request'[s].op = "setup" => setups' = 0
  BY DEF AccessInv, SetUpOnce
<1>2. ASSUME setups' = 1
      PROVE  \E u \in Initial' \ crossed' : IsWayIn(u)' /\ boot'.adopt # u
  <2>1. PICK u \in Initial \ crossed : IsWayIn(u) /\ boot.adopt # u
    BY <1>2 DEF AccessInv, SetUpOnce
  <2> QED
    BY <2>1 DEF AccessKept
<1> QED
  BY <1>1, <1>2 DEF SetUpOnce

\* The checks of the Users page: only a request on somebody else takes away.
LEMMA ChecksKeep ==
  ASSUME AccessInv, NEW s \in Sessions, NEW u \in LiveUsers, NEW r,
         r.op \in {"update", "delete"}, r.id = u,
         Takes(r) => ~user[u].initial, Reads(s, r),
         UNCHANGED <<user, users, setups, crossed, boot>>, TypeInv'
  PROVE  AccessInv' /\ AccessKept
<1>1. \A t \in Sessions : request'[t] = IF t = s THEN r ELSE request[t]
  BY Numbers DEF Reads
<1>2. u \in Users /\ u <= users
  BY Numbers
<1>3. RowsAreGiven'
  BY <1>1, <1>2 DEF AccessInv, RowsAreGiven
<1>4. InitialIsSpared'
  BY <1>1 DEF AccessInv, InitialIsSpared
<1>5. AccessKept
  BY DEF AccessKept, Initial, LiveUsers, Live, IsWayIn
<1>6. SetUpOnce'
  BY <1>1, <1>5, SetUpStays
<1> QED
  BY <1>3, <1>4, <1>5, <1>6 DEF AccessInv

\* The writes of the Users page: of one account, by who has ended.
LEMMA WritesKeep ==
  ASSUME AccessInv, TypeInv', NEW s \in Sessions, Done(s),
         UNCHANGED <<users, setups, crossed, boot>>,
         \A u \in Users :
           /\ user'[u].row = "none" <=> user[u].row = "none"
           /\ user'[u].initial = user[u].initial,
         \A u \in Initial \ crossed :
           IsWayIn(u) => Live(u)' /\ IsWayIn(u)'
  PROVE  AccessInv' /\ AccessKept
<1>1. \A t \in Sessions : request'[t] = IF t = s THEN Idle ELSE request[t]
  BY Numbers DEF Done
<1>2. RowsAreGiven'
  BY <1>1, Numbers DEF AccessInv, RowsAreGiven
<1>3. InitialIsSpared'
  <2>1. ASSUME NEW t \in Sessions, Takes(request'[t])
        PROVE  request'[t] = request[t] /\ request[t].id \in Users
    BY <1>1, <2>1, Numbers DEF Takes
  <2> QED
    BY <2>1 DEF AccessInv, InitialIsSpared
<1>4. AccessKept
  BY DEF AccessKept, Initial, LiveUsers
<1>5. SetUpOnce'
  BY <1>1, <1>4, SetUpStays
<1> QED
  BY <1>2, <1>3, <1>4, <1>5 DEF AccessInv

LEMMA UsersPageKeeps ==
  ASSUME AccessInv, TypeInv', UsersPage
  PROVE  AccessInv' /\ AccessKept
<1>1. ASSUME NEW s \in Sessions, NEW me \in Users, NEW u \in Users,
             delete_user(s, me, u)
      PROVE  AccessInv' /\ AccessKept
  <2> DEFINE r == [op |-> "delete", id |-> u]
  <2>1. u \in LiveUsers /\ ~user[u].initial /\ Reads(s, r)
    BY <1>1 DEF delete_user, IsProtected
  <2>2. UNCHANGED <<user, users, setups, crossed, boot>>
    BY <1>1 DEF delete_user
  <2>3. r.op \in {"update", "delete"} /\ r.id = u
    OBVIOUS
  <2> HIDE DEF r
  <2> QED
    BY <2>1, <2>2, <2>3, ChecksKeep
<1>2. ASSUME NEW s \in Sessions, NEW me \in Users, NEW u \in Users,
             NEW admin \in BOOLEAN, NEW active \in BOOLEAN,
             update(s, me, u, admin, active)
      PROVE  AccessInv' /\ AccessKept
  <2> DEFINE r == [op |-> "update", id |-> u, admin |-> admin,
                   active |-> active, was_admin |-> user[u].admin,
                   was_active |-> user[u].active]
  <2>1. u \in LiveUsers /\ Reads(s, r)
    BY <1>2 DEF update
  <2>2. UNCHANGED <<user, users, setups, crossed, boot>>
    BY <1>2 DEF update
  <2>3. r.op \in {"update", "delete"} /\ r.id = u
    OBVIOUS
  <2>4. Takes(r) => ~user[u].initial
    BY <1>2 DEF update, Takes, LosesAccess, IsProtected
  <2> HIDE DEF r
  <2> QED
    BY <2>1, <2>2, <2>3, <2>4, ChecksKeep
<1>3. ASSUME NEW s \in Sessions, CommitUpdate(s)
      PROVE  AccessInv' /\ AccessKept
  <2> DEFINE r == request[s]
             a == Written(r.admin, r.was_admin, user[r.id].admin)
             b == Written(r.active, r.was_active, user[r.id].active)
  <2>1. /\ r.op = "update" /\ Done(s) /\ r.id \in Users
        /\ UNCHANGED <<users, setups, crossed, boot>>
    BY <1>3, Numbers DEF CommitUpdate
  <2>2. /\ r.admin \in BOOLEAN /\ r.active \in BOOLEAN
        /\ r.was_admin \in BOOLEAN /\ r.was_active \in BOOLEAN
    BY <2>1 DEF AccessInv, TypeInv, RequestsTyped, Requests
  <2>3. CASE ~Live(r.id)
    <3>1. UNCHANGED user
      BY <1>3, <2>3 DEF CommitUpdate
    <3> QED
      BY <2>1, <3>1, WritesKeep DEF Initial, LiveUsers, Live, IsWayIn
  <2>4. CASE Live(r.id)
    <3>1. user' = [user EXCEPT ![r.id].admin = a, ![r.id].active = b]
      BY <1>3, <2>4 DEF CommitUpdate
    <3>2. a \in BOOLEAN /\ b \in BOOLEAN
      BY <2>1, <2>2, Numbers DEF Written, Rows
    <3> HIDE DEF a, b
    <3>3. \A u \in Users :
            /\ u # r.id => user'[u] = user[u]
            /\ user'[u].row = user[u].row
            /\ user'[u].initial = user[u].initial
            /\ user'[u].source = user[u].source
      BY <2>1, <3>1, Numbers DEF Rows
    <3>4. user'[r.id].admin = a /\ user'[r.id].active = b
      BY <2>1, <3>1, <3>2, Numbers DEF Rows
    <3>5. ASSUME NEW u \in Initial \ crossed, IsWayIn(u)
          PROVE  Live(u)' /\ IsWayIn(u)'
      <4>1. u \in Users /\ user[u].initial
        BY DEF Initial, LiveUsers
      <4>2. CASE u # r.id
        BY <3>3, <3>5, <4>1, <4>2 DEF Live, IsWayIn
      <4>3. CASE u = r.id
        <5>1. ~Takes(r)
          BY <4>1, <4>3 DEF AccessInv, InitialIsSpared
        <5>2. (r.was_admin => r.admin) /\ (r.was_active => r.active)
          BY <2>1, <2>2, <5>1 DEF Takes
        <5>3. user[u].admin /\ user[u].active
          BY <3>5 DEF IsWayIn
        <5>4. a = TRUE /\ b = TRUE
          BY <2>2, <4>3, <5>2, <5>3, Numbers DEF a, b, Written
        <5> QED
          BY <3>3, <3>4, <3>5, <4>1, <4>3, <5>4 DEF Live, IsWayIn
      <4> QED
        BY <4>2, <4>3
    <3> QED
      BY <2>1, <3>3, <3>5, WritesKeep
  <2> QED
    BY <2>3, <2>4
<1>4. ASSUME NEW s \in Sessions, CommitDelete(s)
      PROVE  AccessInv' /\ AccessKept
  <2> DEFINE id  == request[s].id
             row == IF user[id].row = "live" THEN "gone" ELSE user[id].row
  <2>1. /\ request[s].op = "delete" /\ Done(s) /\ id \in Users
        /\ UNCHANGED <<users, setups, crossed, boot>>
        /\ user' = [user EXCEPT ![id].row = row]
    BY <1>4, Numbers DEF CommitDelete
  <2>2. \A u \in Users :
          /\ u # id => user'[u] = user[u]
          /\ user'[u].initial = user[u].initial
          /\ user'[u].row = "none" <=> user[u].row = "none"
    BY <2>1, Numbers DEF Rows
  <2>3. ASSUME NEW u \in Initial \ crossed
        PROVE  u \in Users /\ u # id
    BY <2>1, <2>3
    DEF Initial, LiveUsers, AccessInv, InitialIsSpared, Takes
  <2>4. \A u \in Initial \ crossed : IsWayIn(u) => Live(u)' /\ IsWayIn(u)'
    BY <2>2, <2>3 DEF IsWayIn, Live
  <2> QED
    BY <2>1, <2>2, <2>4, WritesKeep
<1>5. ASSUME NEW me \in Users, NEW w \in Words, NEW admin \in BOOLEAN,
             create(me, <<w, 1>>, admin)
      PROVE  AccessInv' /\ AccessKept
  BY <1>5, PagesAreHarmless, HarmlessKeeps DEF AccessInv
<1> QED
  BY <1>1, <1>2, <1>3, <1>4, <1>5, AccountsAreUsers, Spellings DEF UsersPage

LEMMA AccessInit == Init => AccessInv
<1> SUFFICES ASSUME Init
             PROVE  AccessInv
  OBVIOUS
<1>1. TypeInv
  BY TypeInit
<1>2. crossed = {} /\ \A s \in Sessions : request[s] = Idle
  BY DEF Init
<1>3. InitialIsSpared
  BY <1>2 DEF InitialIsSpared, Takes
<1>4. boot \in {NotBooting, BootDue}
  BY DEF Init, Fresh, Running, Upgraded
<1>5. boot.adopt = 0
  BY <1>4 DEF NotBooting, BootDue
<1>6. users \in Nat
  BY <1>1, Numbers, AccountsAssumption
  DEF AccountsAssumption, TypeInv, AccountsTyped
<1>7. CASE Fresh
  <2>1. NoUser.row = "none"
    BY DEF NoUser, Account
  <2>2. \A u \in Users : user[u].row = "none"
    BY <1>7, <2>1 DEF Fresh
  <2>3. setups = 0
    BY <1>7 DEF Fresh
  <2>4. RowsAreGiven
    BY <1>2, <1>5, <1>6, <2>2 DEF RowsAreGiven
  <2>5. SetUpOnce
    BY <1>2, <2>3 DEF SetUpOnce
  <2> QED
    BY <1>1, <1>3, <2>4, <2>5 DEF AccessInv
<1>8. CASE Running
  <2> DEFINE row == Account(<<Someone, 1>>, "local", 0, Someone, TRUE)
  <2>1. NoUser.row = "none"
    BY DEF NoUser, Account
  <2>2. PICK other \in Words :
          user = [u \in Users |->
                    IF u = 1 THEN [row EXCEPT !.initial = TRUE]
                    ELSE IF u = 2
                    THEN Account(<<other, 1>>, "oidc", 1, other, FALSE)
                    ELSE NoUser]
    BY <1>8, Spellings DEF Running
  <2>3. 1 \in Users /\ users = 2
    BY <1>8, AccountsAssumption DEF Running, AccountsAssumption
  <2>4. user[1] = [row EXCEPT !.initial = TRUE]
    BY <2>2, <2>3
  <2>5. /\ user[1].row = "live" /\ user[1].source = "local"
        /\ user[1].admin = TRUE /\ user[1].active = TRUE
        /\ user[1].initial = TRUE
    BY <2>4 DEF Account
  <2>6. \A u \in Users : user[u].row # "none" => u <= 2
    <3>1. \A u \in Users : u # 1 /\ u # 2 => user[u] = NoUser
      BY <2>2
    <3> QED
      BY <2>1, <3>1
  <2>7. RowsAreGiven
    BY <1>2, <1>5, <2>3, <2>6 DEF RowsAreGiven
  <2>8. 1 \in Initial /\ IsWayIn(1)
    BY <2>3, <2>5 DEF Initial, LiveUsers, Live, IsWayIn
  <2>9. setups = 1
    BY <1>8 DEF Running
  <2>10. SetUpOnce
    BY <1>2, <1>5, <2>8, <2>9 DEF SetUpOnce
  <2> QED
    BY <1>1, <1>3, <2>7, <2>10 DEF AccessInv
<1>9. CASE Upgraded
  <2>1. NoUser.row = "none"
    BY DEF NoUser, Account
  <2>2. PICK first \in BOOLEAN, second \in BOOLEAN, name \in Names :
          user = [u \in Users |->
                    IF u = 1
                    THEN Account(<<Someone, 1>>, "ldap", 0, Someone, first)
                    ELSE IF u = 2
                    THEN Account(name, "local", 0, Someone, second)
                    ELSE NoUser]
    BY <1>9, Spellings DEF Upgraded, Names
  <2>3. users = 2 /\ setups = 0
    BY <1>9 DEF Upgraded
  <2>4. \A u \in Users : user[u].row # "none" => u <= 2
    BY <2>1, <2>2
  <2>5. RowsAreGiven
    BY <1>2, <1>5, <2>3, <2>4 DEF RowsAreGiven
  <2>6. SetUpOnce
    BY <1>2, <2>3 DEF SetUpOnce
  <2> QED
    BY <1>1, <1>3, <2>5, <2>6 DEF AccessInv
<1> QED
  BY <1>7, <1>8, <1>9 DEF Init

LEMMA AccessStep ==
  AccessInv /\ [Next]_vars => AccessInv' /\ AccessKept
<1> SUFFICES ASSUME AccessInv, [Next]_vars
             PROVE  AccessInv' /\ AccessKept
  OBVIOUS
<1>1. TypeInv /\ TypeInv'
  BY TypeStep DEF AccessInv
<1>2. CASE Setup
  <2>1. ASSUME NEW s \in Sessions, AbortSetup(s)
        PROVE  AccessInv' /\ AccessKept
    BY <1>1, <2>1, PagesAreHarmless, HarmlessKeeps
  <2> QED
    BY <1>1, <1>2, <2>1, SetupKeeps, Spellings DEF Setup
<1>3. CASE Start
  BY <1>1, <1>3, StartKeeps
<1>4. CASE UsersPage
  BY <1>1, <1>4, UsersPageKeeps
<1>5. CASE AuthenticationPage
  BY <1>1, <1>5, PagesAreHarmless, HarmlessKeeps
<1>6. CASE CommandLine
  BY <1>1, <1>6, CommandsAreHarmless, HarmlessKeeps
<1>7. CASE SignInPages
  BY <1>1, <1>7, SignInsAreHarmless, HarmlessKeeps
<1>8. CASE UNCHANGED vars
  <2>1. Harmless
    BY <1>8 DEF Harmless, NobodyLoses
  <2> QED
    BY <1>1, <2>1, HarmlessKeeps
<1> QED
  BY <1>2, <1>3, <1>4, <1>5, <1>6, <1>7, <1>8 DEF Next

\* Setup is done once, and leaves an initial administrator with access ever
\* after, whatever pages, commands and starting processes do at the same time.
THEOREM WayInIsGuaranteed == Spec => []GuaranteedWayIn
<1>1. AccessInv => GuaranteedWayIn
  BY DEF AccessInv, SetUpOnce, GuaranteedWayIn
<1> QED
  BY <1>1, AccessInit, AccessStep, PTL DEF Spec

\* An initial administrator who has access keeps it, unless it was adopted while
\* a request was already taking its access away.
THEOREM InitialAdminStays == Spec => InitialAdminKeepsAccess
<1> DEFINE Keeps == \A u \in Initial \ crossed : IsWayIn(u) => IsWayIn(u)'
<1>1. AccessInv /\ [Next]_vars => AccessInv' /\ [Keeps]_vars
  BY AccessStep DEF AccessKept
<1>2. Spec => [][Keeps]_vars
  BY <1>1, AccessInit, PTL DEF Spec
<1> QED
  BY <1>2 DEF InitialAdminKeepsAccess

=============================================================================
