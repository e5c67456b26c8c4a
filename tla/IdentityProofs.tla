---------------------------- MODULE IdentityProofs ----------------------------
(***************************************************************************)
(* That no account is signed in to by two people, for any number of        *)
(* accounts, providers, sessions and requests, on either database.         *)
(***************************************************************************)
EXTENDS AccountsProofs

USE DEF Users, Ids, Kinds, Idle, userVars, providerVars, formVars, requestVars,
        startVars, signInVars, vars

-----------------------------------------------------------------------------
(* The invariant *)

\* What the provider calls the person of an account: a directory knows people
\* by the name that the account has, in whatever case.
Called(row) == IF row.source = "ldap" THEN lower[row.name[1]] ELSE row.ext

Due == boot.op \in {"due", "migrates"}

\* The account has one person, whom its provider made known when its creation
\* was stamp, and who is still there on SQLite, where ids are given again.
Belongs(u, stamp) ==
  /\ usedBy[u] = {Person(user[u].source, stamp, Called(user[u]))}
  /\ user[u].provider # 0 =>
       IF IS_SQLITE
       THEN provider[user[u].source][user[u].provider].stamp = stamp
       ELSE user[u].provider = stamp
  /\ Due /\ user[u].source = "ldap" => stamp = 1

EverybodyBelongs ==
  \A u \in LiveUsers \ stray :
    user[u].source # "local" =>
      \E stamp \in 1..MaxProviders : Belongs(u, stamp)

\* A provider that is written and not committed is deleted with the accounts
\* there are of it, new, or the one that has the id.
FlushFits(r) ==
  r.op = "flushed" =>
    IF IS_SQLITE
    THEN /\ r.row.stamp = 0 => CutLoose(r.kind, r.id) \subseteq r.cut
         /\ r.row.stamp # 0 =>
              provider[r.kind][r.id].stamp \in {0, r.row.stamp}
    ELSE r.row.stamp \in {0, r.id}

\* Whom a login has read to be of a directory, that directory made known.
LoginFits(r) ==
  r.op = "ldap" =>
    \A p \in r.profiles, u \in r.account \ stray :
      r.rows[u].source = "ldap" /\ r.rows[u].provider = p[1] =>
        usedBy[u] = {Person("ldap", p[2].stamp, lower[r.word])}

RequestsFit ==
  \A s \in Sessions : FlushFits(request[s]) /\ LoginFits(request[s])

\* SQLite has one writer.
OneFlush ==
  IS_SQLITE =>
    \A s, t \in Sessions :
      request[s].op = "flushed" /\ request[t].op = "flushed" => s = t

\* PostgreSQL never gives an id again.
StampsAreIds ==
  ~IS_SQLITE =>
    \A k \in Kinds, i \in Ids : provider[k][i].stamp \in {0, i}

\* A database is upgraded before the first request, and on SQLite a process that
\* starts is the only one.
Apart == Due \/ (IS_SQLITE /\ boot.op # "idle")

BootIsApart ==
  /\ Apart => \A s \in Sessions : request[s].op \in {"idle", "setup"}
  /\ Due => provider["ldap"][1].stamp \in {0, 1}

NobodyYet == \A u \in Users : u > users => usedBy[u] = {}

PersonInv ==
  /\ AccessInv
  /\ EverybodyBelongs /\ RequestsFit /\ OneFlush /\ StampsAreIds
  /\ BootIsApart /\ NobodyYet /\ NobodyElsesAccount

-----------------------------------------------------------------------------
(* Most steps *)

\* The accounts there were are still who they were, as far as they are there;
\* whoever is new is local.
SameAccounts ==
  \A u \in Users :
    user'[u].row = "live" /\ user'[u].source # "local" =>
      /\ user[u].row = "live"
      /\ user'[u].name = user[u].name /\ user'[u].ext = user[u].ext
      /\ user'[u].source = user[u].source
      /\ user'[u].provider \in {user[u].provider, 0}

\* What a session goes on to.
GoesOn(s) ==
  /\ FlushFits(request'[s]) /\ LoginFits(request'[s])
  /\ request'[s].op \in {"idle", "setup"} \/ ~Apart
  /\ IS_SQLITE /\ request'[s].op = "flushed" =>
       \A t \in Sessions : request'[t].op = "flushed" => t = s

SessionsGoOn == \A s \in Sessions : request'[s] = request[s] \/ GoesOn(s)

StampsStay == \A k \in Kinds, i \in Ids :
                provider'[k][i].stamp = provider[k][i].stamp

\* Nobody signs in that is new to an account.
NobodyNew ==
  /\ users <= users' /\ stray \subseteq stray'
  /\ \A u \in Users : usedBy'[u] = usedBy[u] \/ (u \in stray' /\ u <= users')

Plain ==
  /\ UNCHANGED <<database, boot>>
  /\ SameAccounts /\ SessionsGoOn /\ StampsStay /\ NobodyNew

\* The types that the proofs read.
PersonTypes ==
  /\ users \in Nat
  /\ user \in [Users -> Rows] /\ DOMAIN request = Sessions
  /\ usedBy \in [Users -> SUBSET (Kinds \X (1..MaxProviders) \X Words)]
  /\ stray \subseteq Users
  /\ provider \in [Kinds -> [Ids -> ProviderRows]]
  /\ \A u \in Users : user[u].source # "local" => user[u].source \in Kinds
  /\ \A u \in Users : user[u].provider # 0 => user[u].provider \in Ids
  /\ \A s \in Sessions :
       /\ request[s].op = "flushed" =>
            /\ request[s].kind \in Kinds /\ request[s].id \in Ids
            /\ request[s].row \in ProviderRows
            /\ request[s].cut \subseteq Users
       /\ request[s].op = "ldap" =>
            /\ request[s].word \in Words
            /\ request[s].profiles \subseteq Ids \X ProviderRows
            /\ \A p \in request[s].profiles : p[2].stamp \in 1..MaxProviders
            /\ request[s].account \subseteq Users
       /\ request[s].op \in {"oidc", "insert"} =>
            /\ request[s].id \in Ids /\ request[s].ext \in Words
            /\ request[s].stamp \in 1..MaxProviders

LEMMA PersonTyped == TypeInv => PersonTypes
<1> SUFFICES ASSUME TypeInv
             PROVE  PersonTypes
  OBVIOUS
<1>1. /\ users \in Nat /\ user \in [Users -> Rows] /\ stray \subseteq Users
      /\ usedBy \in [Users -> SUBSET (Kinds \X (1..MaxProviders) \X Words)]
      /\ DOMAIN request = Sessions
      /\ provider \in [Kinds -> [Ids -> ProviderRows]]
      /\ \A s \in Sessions : request[s] \in Requests
  BY AccountsAssumption
  DEF AccountsAssumption, TypeInv, AccountsTyped, PeopleTyped, ProvidersTyped,
      RequestsTyped
<1>2. \A u \in Users : /\ user[u].source # "local" => user[u].source \in Kinds
                       /\ user[u].provider # 0 => user[u].provider \in Ids
  <2>1. \A u \in Users : /\ user[u].source \in {"local", "ldap", "oidc"}
                         /\ user[u].provider \in 0..MaxProviders
    BY <1>1 DEF Rows
  <2> QED
    BY <2>1, AccountsAssumption DEF AccountsAssumption
<1>3. ASSUME NEW s \in Sessions
      PROVE  /\ request[s].op = "flushed" =>
                  /\ request[s].kind \in Kinds /\ request[s].id \in Ids
                  /\ request[s].row \in ProviderRows
                  /\ request[s].cut \subseteq Users
             /\ request[s].op = "ldap" =>
                  /\ request[s].word \in Words
                  /\ request[s].profiles \subseteq Ids \X ProviderRows
                  /\ \A p \in request[s].profiles :
                       p[2].stamp \in 1..MaxProviders
                  /\ request[s].account \subseteq Users
             /\ request[s].op \in {"oidc", "insert"} =>
                  /\ request[s].id \in Ids /\ request[s].ext \in Words
                  /\ request[s].stamp \in 1..MaxProviders
  <2>1. request[s] \in Requests
    BY <1>1
  <2>2. CASE request[s].op = "flushed"
    BY <2>1, <2>2 DEF Requests
  <2>3. CASE request[s].op = "ldap"
    <3>1. /\ request[s].word \in Words
          /\ request[s].profiles \subseteq Ids \X ProviderRows
          /\ request[s].account \subseteq Users
      BY <2>1, <2>3 DEF Requests
    <3>2. ASSUME NEW p \in request[s].profiles
          PROVE  p[2].stamp \in 1..MaxProviders
      <4>1. p[2] \in ProviderRows
        BY <3>1
      <4>2. p[2].stamp \in 0..MaxProviders /\ p[2].stamp # 0
        BY <2>3, <4>1 DEF ProviderRows, TypeInv, ProfilesAreThere
      <4> QED
        BY <4>2, AccountsAssumption DEF AccountsAssumption
    <3> QED
      BY <2>3, <3>1, <3>2
  <2>4. CASE request[s].op = "oidc"
    BY <2>1, <2>4 DEF Requests
  <2>5. CASE request[s].op = "insert"
    BY <2>1, <2>5 DEF Requests
  <2> QED
    BY <2>2, <2>3, <2>4, <2>5
<1> QED
  BY <1>1, <1>2, <1>3 DEF PersonTypes

LEMMA PersonTypedNext == TypeInv' => PersonTypes'
  BY PersonTyped, PTL

\* Such a step keeps everybody's account.
LEMMA PlainKeeps ==
  ASSUME PersonInv, AccessInv', Plain
  PROVE  PersonInv'
<1>0. TypeInv /\ TypeInv' /\ (IS_SQLITE' <=> IS_SQLITE)
      /\ (Due' <=> Due) /\ (Apart' <=> Apart)
      /\ PersonTypes /\ PersonTypes'
  BY PersonTyped, PersonTypedNext
  DEF PersonInv, AccessInv, Plain, IS_SQLITE, Due, Apart
<1>1. EverybodyBelongs'
  <2> SUFFICES ASSUME NEW u \in Users, user'[u].row = "live", u \notin stray',
                      user'[u].source # "local"
               PROVE  \E stamp \in 1..MaxProviders : Belongs(u, stamp)'
    BY DEF EverybodyBelongs, LiveUsers, Live
  <2>1. /\ user[u].row = "live" /\ u \notin stray
        /\ user'[u].name = user[u].name /\ user'[u].ext = user[u].ext
        /\ user'[u].source = user[u].source
        /\ user'[u].provider \in {user[u].provider, 0}
        /\ usedBy'[u] = usedBy[u]
    BY DEF Plain, SameAccounts, NobodyNew
  <2>2. PICK stamp \in 1..MaxProviders : Belongs(u, stamp)
    BY <2>1 DEF PersonInv, EverybodyBelongs, LiveUsers, Live
  <2>3. user'[u].provider # 0 =>
          /\ user[u].provider = user'[u].provider
          /\ provider'[user'[u].source][user'[u].provider].stamp =
               provider[user[u].source][user[u].provider].stamp
    BY <1>0, <2>1 DEF PersonTypes, Plain, StampsStay
  <2>4. Belongs(u, stamp)'
    BY <1>0, <2>1, <2>2, <2>3 DEF Belongs, Called
  <2> QED
    BY <2>4
<1>2. RequestsFit'
  <2> SUFFICES ASSUME NEW s \in Sessions
               PROVE  FlushFits(request[s])' /\ LoginFits(request[s])'
    BY DEF RequestsFit
  <2>1. FlushFits(request'[s]) /\ LoginFits(request'[s])
    <3>1. CASE request'[s] = request[s]
      BY <3>1 DEF PersonInv, RequestsFit
    <3>2. CASE GoesOn(s)
      BY <3>2 DEF GoesOn
    <3> QED
      BY <3>1, <3>2 DEF Plain, SessionsGoOn
  <2>2. LoginFits(request[s])'
    <3>1. request'[s].op = "ldap" => request'[s].account \subseteq Users
      BY <1>0 DEF PersonTypes
    <3>2. \A u \in Users \ stray' : u \notin stray /\ usedBy'[u] = usedBy[u]
      BY DEF Plain, NobodyNew
    <3> QED
      BY <2>1, <3>1, <3>2 DEF LoginFits
  <2>3. FlushFits(request[s])'
    <3>1. CASE request'[s].op # "flushed"
      BY <3>1 DEF FlushFits
    <3>2. CASE request'[s].op = "flushed"
      <4>1. request'[s].kind \in Kinds /\ request'[s].id \in Ids
        BY <1>0, <3>2 DEF PersonTypes
      <4>2. \A k \in Kinds, i \in Ids : CutLoose(k, i)' \subseteq CutLoose(k, i)
        BY DEF CutLoose, LiveUsers, Live, Plain, SameAccounts
      <4>3. CutLoose(request[s].kind, request[s].id)' \subseteq
              CutLoose(request'[s].kind, request'[s].id)
        BY <4>1, <4>2 DEF CutLoose, LiveUsers, Live
      <4>4. provider'[request'[s].kind][request'[s].id].stamp =
              provider[request'[s].kind][request'[s].id].stamp
        BY <4>1 DEF Plain, StampsStay
      <4> QED
        BY <1>0, <2>1, <4>3, <4>4 DEF FlushFits
    <3> QED
      BY <3>1, <3>2
  <2> QED
    BY <2>2, <2>3
<1>3. OneFlush'
  BY <1>0 DEF PersonInv, OneFlush, Plain, SessionsGoOn, GoesOn
<1>4. StampsAreIds'
  BY <1>0 DEF PersonInv, StampsAreIds, Plain, StampsStay
<1>5. BootIsApart'
  <2>1. 1 \in Ids
    BY AccountsAssumption DEF AccountsAssumption
  <2>2. provider'["ldap"][1].stamp = provider["ldap"][1].stamp
    BY <2>1 DEF Plain, StampsStay
  <2> QED
    BY <1>0, <2>2 DEF PersonInv, BootIsApart, Plain, SessionsGoOn, GoesOn
<1>6. NobodyYet'
  <2>1. \A u \in Users : u > users' => u > users /\ ~(u <= users')
    BY <1>0 DEF PersonTypes, Plain, NobodyNew
  <2> QED
    BY <2>1 DEF PersonInv, NobodyYet, Plain, NobodyNew
<1>7. NobodyElsesAccount'
  BY DEF PersonInv, NobodyElsesAccount, Plain, NobodyNew
<1> QED
  BY <1>1, <1>2, <1>3, <1>4, <1>5, <1>6, <1>7 DEF PersonInv

\* A local account that is new, or one that is edited, leaves who the others are.
LEMMA LocalIsNew ==
  ASSUME AccessInv, PersonTypes, NEW r \in Rows, Insert(r), r.source = "local"
  PROVE  SameAccounts /\ users <= users'
<1>1. /\ users' = users + 1
      /\ \A u \in Users : user'[u] = IF u = users + 1 THEN r ELSE user[u]
  BY NewIsNext DEF AccessInv
<1>2. users <= users'
  BY <1>1 DEF PersonTypes
<1> QED
  BY <1>1, <1>2 DEF SameAccounts

LEMMA OneEdited ==
  ASSUME PersonTypes, NEW u \in Users, NEW row,
         user' = [user EXCEPT ![u] = row],
         row.row = "live" => user[u].row = "live",
         row.source # "local" =>
           /\ row.name = user[u].name /\ row.ext = user[u].ext
           /\ row.source = user[u].source
           /\ row.provider = user[u].provider
  PROVE  SameAccounts
  BY DEF PersonTypes, SameAccounts

\* A session goes on to what neither writes a provider nor asks a directory.
LEMMA SessionGoes ==
  ASSUME PersonTypes, NEW s \in Sessions, NEW r,
         request' = [request EXCEPT ![s] = r],
         r.op \notin {"flushed", "ldap"},
         r.op \in {"idle", "setup"} \/ ~Apart
  PROVE  SessionsGoOn
  BY DEF PersonTypes, SessionsGoOn, GoesOn, FlushFits, LoginFits

LEMMA SessionRests ==
  ASSUME PersonTypes, NEW s \in Sessions, Done(s)
  PROVE  SessionsGoOn
<1>1. Idle.op = "idle"
  OBVIOUS
<1> QED
  BY <1>1, SessionGoes DEF Done

LEMMA NobodySigns ==
  ASSUME PersonTypes, UNCHANGED <<usedBy, stray>>, users <= users'
  PROVE  NobodyNew
  BY DEF NobodyNew

\* No page is open while a database is upgraded.
LEMMA OpenIsNotApart ==
  ASSUME NEW op, Open(op)
  PROVE  ~Apart
  BY DEF Open, Apart, Due

LEMMA AtWorkIsNotApart ==
  ASSUME PersonInv, NEW s \in Sessions, request[s].op \notin {"idle", "setup"}
  PROVE  ~Apart
  BY DEF PersonInv, BootIsApart

\* A session that only reads.
LEMMA ReadingIsPlain ==
  ASSUME PersonTypes, NEW s \in Sessions, NEW r, NEW op,
         Reads(s, r), r.op \notin {"flushed", "ldap"}, Open(op),
         UNCHANGED <<database, userVars, providerVars, boot, signInVars>>
  PROVE  Plain
<1>1. SessionsGoOn
  BY SessionGoes, OpenIsNotApart DEF Reads
<1>2. SameAccounts /\ StampsStay
  BY DEF SameAccounts, StampsStay
<1>3. NobodyNew
  BY NobodySigns DEF PersonTypes
<1> QED
  BY <1>1, <1>2, <1>3 DEF Plain

\* One that ends, having changed at most accounts in a way that is allowed.
LEMMA EndingIsPlain ==
  ASSUME PersonTypes, NEW s \in Sessions, Done(s), SameAccounts,
         users <= users',
         UNCHANGED <<database, provider, boot, signInVars>>
  PROVE  Plain
<1>1. SessionsGoOn
  BY SessionRests
<1>2. StampsStay
  BY DEF StampsStay
<1>3. NobodyNew
  BY NobodySigns
<1> QED
  BY <1>1, <1>2, <1>3 DEF Plain

\* And one that is over at once.
LEMMA AtOnceIsPlain ==
  ASSUME PersonTypes, SameAccounts, StampsStay, users <= users',
         UNCHANGED <<database, request, boot, signInVars>>
  PROVE  Plain
<1>1. SessionsGoOn
  BY DEF SessionsGoOn
<1>2. NobodyNew
  BY NobodySigns
<1> QED
  BY <1>1, <1>2 DEF Plain

LEMMA SetupIsPlain ==
  ASSUME PersonInv, PersonTypes, Setup
  PROVE  Plain
<1>0. users <= users /\ AccessInv
  BY DEF PersonTypes, PersonInv
<1>1. ASSUME NEW s \in Sessions, create_initial_admin(s)
      PROVE  Plain
  <2> DEFINE r == [op |-> "setup"]
  <2>1. r.op = "setup"
    OBVIOUS
  <2>2. request' = [request EXCEPT ![s] = r]
    BY <1>1 DEF create_initial_admin, Reads
  <2>3. SessionsGoOn
    BY <2>1, <2>2, SessionGoes
  <2>4. SameAccounts /\ StampsStay
    BY <1>1 DEF create_initial_admin, SameAccounts, StampsStay
  <2>5. NobodyNew
    BY <1>0, <1>1, NobodySigns DEF create_initial_admin
  <2> QED
    BY <1>1, <2>3, <2>4, <2>5 DEF create_initial_admin, Plain
<1>2. ASSUME NEW s \in Sessions, NEW w \in Words, CommitSetup(s, <<w, 1>>)
      PROVE  Plain
  <2> DEFINE first == Account(<<w, 1>>, "local", 0, w, TRUE)
             new   == [first EXCEPT !.initial = TRUE]
  <2>1. new \in Rows /\ new.source = "local"
    <3>1. first \in Rows /\ first.source = "local"
      BY FirstAccountTyped DEF Account
    <3> HIDE DEF first
    <3> QED
      BY <3>1 DEF Rows
  <2>2. Insert(new)
    BY <1>2 DEF CommitSetup
  <2>3. SameAccounts /\ users <= users'
    <3> HIDE DEF new
    <3> QED
      BY <1>0, <2>1, <2>2, LocalIsNew
  <2> QED
    BY <1>2, <2>3, EndingIsPlain DEF CommitSetup
<1>3. ASSUME NEW s \in Sessions, AbortSetup(s)
      PROVE  Plain
  <2>1. SameAccounts
    BY <1>3 DEF AbortSetup, SameAccounts
  <2> QED
    BY <1>0, <1>3, <2>1, EndingIsPlain DEF AbortSetup
<1> QED
  BY <1>1, <1>2, <1>3, Spellings DEF Setup

LEMMA UsersPageIsPlain ==
  ASSUME PersonInv, PersonTypes, UsersPage
  PROVE  Plain
<1>0. users <= users /\ AccessInv
  BY DEF PersonTypes, PersonInv
<1>1. ASSUME NEW s \in Sessions, NEW me \in Users, NEW u \in Users,
             delete_user(s, me, u)
      PROVE  Plain
  <2> DEFINE r == [op |-> "delete", id |-> u]
  <2>1. r.op = "delete" /\ Reads(s, r) /\ Open("delete")
    BY <1>1 DEF delete_user, IsAdminPage
  <2>2. UNCHANGED <<database, userVars, providerVars, boot, signInVars>>
    BY <1>1 DEF delete_user
  <2> HIDE DEF r
  <2> QED
    BY <2>1, <2>2, ReadingIsPlain
<1>2. ASSUME NEW s \in Sessions, NEW me \in Users, NEW u \in Users,
             NEW admin \in BOOLEAN, NEW active \in BOOLEAN,
             update(s, me, u, admin, active)
      PROVE  Plain
  <2> DEFINE r == [op |-> "update", id |-> u, admin |-> admin,
                   active |-> active, was_admin |-> user[u].admin,
                   was_active |-> user[u].active]
  <2>1. r.op = "update" /\ Reads(s, r) /\ Open("update")
    BY <1>2 DEF update, IsAdminPage
  <2>2. UNCHANGED <<database, userVars, providerVars, boot, signInVars>>
    BY <1>2 DEF update
  <2> HIDE DEF r
  <2> QED
    BY <2>1, <2>2, ReadingIsPlain
<1>3. ASSUME NEW s \in Sessions, CommitUpdate(s)
      PROVE  Plain
  <2> DEFINE r == request[s]
             a == Written(r.admin, r.was_admin, user[r.id].admin)
             b == Written(r.active, r.was_active, user[r.id].active)
  <2>1. r.op = "update" /\ r.id \in Users
    BY <1>0, <1>3, Numbers DEF CommitUpdate
  <2>2. SameAccounts
    <3>1. CASE ~Live(r.id)
      BY <1>3, <3>1 DEF CommitUpdate, SameAccounts
    <3>2. CASE Live(r.id)
      <4>1. user' = [user EXCEPT ![r.id].admin = a, ![r.id].active = b]
        BY <1>3, <3>2 DEF CommitUpdate
      <4> HIDE DEF a, b
      <4>2. \A u \in Users :
              /\ user'[u].row = user[u].row /\ user'[u].name = user[u].name
              /\ user'[u].ext = user[u].ext
              /\ user'[u].source = user[u].source
              /\ user'[u].provider = user[u].provider
        BY <2>1, <4>1 DEF PersonTypes, Rows
      <4> QED
        BY <4>2 DEF SameAccounts
    <3> QED
      BY <3>1, <3>2
  <2> QED
    BY <1>0, <1>3, <2>2, EndingIsPlain DEF CommitUpdate
<1>4. ASSUME NEW s \in Sessions, CommitDelete(s)
      PROVE  Plain
  <2> DEFINE id  == request[s].id
             row == IF user[id].row = "live" THEN "gone" ELSE user[id].row
  <2>1. id \in Users
    BY <1>0, <1>4, Numbers DEF CommitDelete
  <2>2. user' = [user EXCEPT ![id].row = row]
    BY <1>4 DEF CommitDelete
  <2>3. row = "live" => user[id].row = "live"
    OBVIOUS
  <2> HIDE DEF row
  <2>4. \A u \in Users :
          /\ user'[u].row = "live" => user[u].row = "live"
          /\ user'[u].name = user[u].name /\ user'[u].ext = user[u].ext
          /\ user'[u].source = user[u].source
          /\ user'[u].provider = user[u].provider
    BY <2>1, <2>2, <2>3 DEF PersonTypes, Rows
  <2>5. SameAccounts
    BY <2>4 DEF SameAccounts
  <2> QED
    BY <1>0, <1>4, <2>5, EndingIsPlain DEF CommitDelete
<1>5. ASSUME NEW me \in Users, NEW w \in Words, NEW admin \in BOOLEAN,
             create(me, <<w, 1>>, admin)
      PROVE  Plain
  <2> DEFINE r == Account(<<w, 1>>, "local", 0, w, admin)
  <2>1. r \in Rows /\ r.source = "local"
    BY FirstAccountTyped DEF Account
  <2>2. Insert(r)
    BY <1>5 DEF create
  <2> HIDE DEF r
  <2>3. SameAccounts /\ users <= users'
    BY <1>0, <2>1, <2>2, LocalIsNew
  <2>4. StampsStay
    BY <1>5 DEF create, StampsStay
  <2> QED
    BY <1>5, <2>3, <2>4, AtOnceIsPlain DEF create
<1> QED
  BY <1>1, <1>2, <1>3, <1>4, <1>5, AccountsAreUsers, Spellings DEF UsersPage

\* A form about a provider writes what fits the accounts and the row there is.
LEMMA FlushIsPlain ==
  ASSUME PersonInv, PersonTypes, NEW s \in Sessions, NEW k \in Kinds,
         NEW i \in Ids, NEW row, NEW cut, MayFlush(s, k, i),
         Flush(s, k, i, row, cut), ~Apart,
         IF IS_SQLITE
         THEN /\ row.stamp = 0 => CutLoose(k, i) \subseteq cut
              /\ row.stamp # 0 => provider[k][i].stamp \in {0, row.stamp}
         ELSE row.stamp \in {0, i},
         UNCHANGED <<database, userVars, provider, boot, signInVars>>
  PROVE  Plain
<1> DEFINE shows == KeepsAWayIn([provider EXCEPT ![k][i] = row])
           r == [op |-> "flushed", kind |-> k, id |-> i, row |-> row,
                 cut |-> cut, shows |-> shows]
<1>1. /\ request' = [request EXCEPT ![s] = r]
      /\ IS_SQLITE => \A t \in Sessions \ {s} : request[t].op # "flushed"
  BY DEF Flush, MayFlush, MayWrite
<1>2. r.op = "flushed" /\ FlushFits(r) /\ LoginFits(r)
  <2> HIDE DEF shows
  <2> QED
    BY DEF FlushFits, LoginFits
<1> HIDE DEF r
<1>3. SessionsGoOn
  <2>1. \A t \in Sessions : request'[t] = IF t = s THEN r ELSE request[t]
    BY <1>1 DEF PersonTypes
  <2>2. GoesOn(s)
    BY <1>1, <1>2, <2>1 DEF GoesOn
  <2> QED
    BY <2>1, <2>2 DEF SessionsGoOn
<1>4. SameAccounts /\ StampsStay
  BY DEF SameAccounts, StampsStay
<1>5. NobodyNew
  BY NobodySigns DEF PersonTypes
<1> QED
  BY <1>3, <1>4, <1>5 DEF Plain

LEMMA FormsArePlain ==
  ASSUME PersonInv, PersonTypes, NEW s \in Sessions, NEW me \in Users,
         NEW k \in Kinds, NEW i \in Ids,
         \/ delete_provider(s, me, k, i)
         \/ \E on, auto \in BOOLEAN :
              \/ create_provider(s, me, k, i, on, auto)
              \/ update_provider(s, me, k, i, on, auto)
  PROVE  Plain
<1>1. CASE delete_provider(s, me, k, i)
  <2>1. /\ Flushes(s, k, i, NoProvider, CutLoose(k, i)) /\ Open("remove")
        /\ UNCHANGED <<database, userVars, provider, boot, signInVars>>
    BY <1>1 DEF delete_provider, IsAdminPage
  <2>2. NoProvider.stamp = 0
    BY DEF NoProvider
  <2> QED
    BY <2>1, <2>2, OpenIsNotApart, FlushIsPlain DEF Flushes
<1>2. ASSUME NEW on \in BOOLEAN, NEW auto \in BOOLEAN,
             create_provider(s, me, k, i, on, auto)
      PROVE  Plain
  <2> DEFINE row == Applied(created[k] + 1, on, auto)
  <2>1. /\ Flushes(s, k, i, row, {}) /\ Open("save") /\ IsNextId(k, i)
        /\ UNCHANGED <<database, userVars, provider, boot, signInVars>>
    BY <1>2 DEF create_provider, IsAdminPage
  <2>2. row.stamp = created[k] + 1 /\ row.stamp # 0
    BY AccountsAssumption
    DEF AccountsAssumption, PersonInv, AccessInv, TypeInv, ProvidersTyped,
        Applied
  <2>3. IF IS_SQLITE THEN provider[k][i].stamp = 0 ELSE row.stamp = i
    <3>1. CASE IS_SQLITE
      <4>1. \A j \in Providers(k) : j < i
        BY <2>1, <3>1 DEF IsNextId
      <4>2. i \in Nat
        OBVIOUS
      <4>3. i \notin Providers(k)
        BY <4>1, <4>2
      <4> QED
        BY <3>1, <4>3 DEF Providers
    <3> QED
      BY <2>1, <2>2, <3>1 DEF IsNextId
  <2> HIDE DEF row
  <2> QED
    BY <2>1, <2>2, <2>3, OpenIsNotApart, FlushIsPlain DEF Flushes
<1>3. ASSUME NEW on \in BOOLEAN, NEW auto \in BOOLEAN,
             update_provider(s, me, k, i, on, auto)
      PROVE  Plain
  <2> DEFINE r == [op |-> "edit", kind |-> k, id |-> i, was |-> provider[k][i],
                   form |-> Applied(provider[k][i].stamp, on, auto)]
  <2>1. r.op = "edit" /\ Reads(s, r) /\ Open("save")
    BY <1>3 DEF update_provider, IsAdminPage
  <2>2. UNCHANGED <<database, userVars, providerVars, boot, signInVars>>
    BY <1>3 DEF update_provider
  <2> HIDE DEF r
  <2> QED
    BY <2>1, <2>2, ReadingIsPlain
<1> QED
  BY <1>1, <1>2, <1>3

\* A form that is saved is written into the row there is, or into none.
LEMMA SavingIsPlain ==
  ASSUME PersonInv, PersonTypes, NEW s \in Sessions,
         SaveProvider(s) \/ SaveNothing(s) \/ SaveUnchanged(s)
  PROVE  Plain
<1>1. CASE SaveProvider(s)
  <2> DEFINE r   == request[s]
             is  == provider[r.kind][r.id]
             row == Applied(is.stamp, Written(r.form.login, r.was.login, is.login),
                            Written(r.form.auto, r.was.auto, is.auto))
  <2>1. /\ r.op = "edit" /\ is.stamp # 0
        /\ MayFlush(s, r.kind, r.id) /\ Flush(s, r.kind, r.id, row, {})
        /\ UNCHANGED <<database, userVars, provider, boot, signInVars>>
    BY <1>1 DEF SaveProvider
  <2>2. r.kind \in Kinds /\ r.id \in Ids
    BY <2>1 DEF PersonInv, AccessInv, TypeInv, RequestsTyped, Requests
  <2>3. row.stamp = is.stamp
    BY DEF Applied
  <2>4. ~IS_SQLITE => row.stamp \in {0, r.id}
    BY <2>2, <2>3 DEF PersonInv, StampsAreIds
  <2>5. ~Apart
    BY <2>1, AtWorkIsNotApart
  <2>6. row.stamp # 0 /\ provider[r.kind][r.id].stamp = row.stamp
    BY <2>1, <2>3
  <2> HIDE DEF r, is, row
  <2> QED
    BY <2>1, <2>2, <2>4, <2>5, <2>6, FlushIsPlain
<1>2. CASE SaveNothing(s) \/ SaveUnchanged(s)
  <2>1. UNCHANGED <<user, users>> /\ users \in Nat
    BY <1>2 DEF SaveNothing, SaveUnchanged, PersonTypes
  <2>2. SameAccounts /\ users <= users'
    BY <2>1 DEF SameAccounts
  <2> QED
    BY <1>2, <2>2, EndingIsPlain DEF SaveNothing, SaveUnchanged
<1> QED
  BY <1>1, <1>2

LEMMA AuthenticationPageIsPlain ==
  ASSUME PersonInv, PersonTypes, AuthenticationPage,
         ~\E s \in Sessions : CommitProvider(s)
  PROVE  Plain
<1>0. users <= users
  BY DEF PersonTypes
<1>1. ASSUME NEW me \in Users, show_local_form(me)
      PROVE  Plain
  <2>1. SameAccounts /\ StampsStay
    BY <1>1 DEF show_local_form, SameAccounts, StampsStay
  <2> QED
    BY <1>0, <1>1, <2>1, AtOnceIsPlain DEF show_local_form
<1>2. ASSUME NEW s \in Sessions, NEW me \in Users, set_local_form(s, me)
      PROVE  Plain
  <2> DEFINE r == [op |-> "hide"]
  <2>1. r.op = "hide" /\ Reads(s, r) /\ Open("form")
    BY <1>2 DEF set_local_form, IsAdminPage
  <2>2. UNCHANGED <<database, userVars, providerVars, boot, signInVars>>
    BY <1>2 DEF set_local_form
  <2> HIDE DEF r
  <2> QED
    BY <2>1, <2>2, ReadingIsPlain
<1>3. ASSUME NEW s \in Sessions, CommitHide(s)
      PROVE  Plain
  <2>1. SameAccounts
    BY <1>3 DEF CommitHide, SameAccounts
  <2> QED
    BY <1>0, <1>3, <2>1, EndingIsPlain DEF CommitHide
<1> QED
  BY <1>1, <1>2, <1>3, FormsArePlain, SavingIsPlain, AccountsAreUsers
  DEF AuthenticationPage

LEMMA CommandLineIsPlain ==
  ASSUME PersonInv, PersonTypes, CommandLine
  PROVE  Plain
<1>0. users <= users /\ AccessInv
  BY DEF PersonTypes, PersonInv
<1>1. ASSUME NEW op, NEW u \in Users, NEW row, Sets(op, u, row),
             row.source # "local" =>
               /\ row.name = user[u].name /\ row.ext = user[u].ext
               /\ row.source = user[u].source
               /\ row.provider = user[u].provider
      PROVE  Plain
  <2>1. user[u].row = "live"
    BY <1>1 DEF Sets, LiveUsers, Live
  <2>2. SameAccounts
    BY <1>1, <2>1, OneEdited DEF Sets
  <2>3. StampsStay
    BY <1>1 DEF Sets, StampsStay
  <2> QED
    BY <1>0, <1>1, <2>2, <2>3, AtOnceIsPlain DEF Sets
<1>2. ASSUME NEW u \in Users, set_password(u)
      PROVE  Plain
  BY <1>1, <1>2 DEF set_password, PersonTypes, Rows
<1>3. ASSUME NEW u \in Users, reset_initial_admin(u)
      PROVE  Plain
  BY <1>1, <1>3 DEF reset_initial_admin, PersonTypes, Rows
<1>4. ASSUME NEW u \in Users, promote(u)
      PROVE  Plain
  BY <1>1, <1>4 DEF promote, PersonTypes, Rows
<1>5. ASSUME NEW w \in Words, create_admin(<<w, 1>>)
      PROVE  Plain
  <2> DEFINE r == Account(<<w, 1>>, "local", 0, w, TRUE)
  <2>1. r \in Rows /\ r.source = "local"
    BY FirstAccountTyped DEF Account
  <2>2. Insert(r)
    BY <1>5 DEF create_admin
  <2> HIDE DEF r
  <2>3. SameAccounts /\ users <= users'
    BY <1>0, <2>1, <2>2, LocalIsNew
  <2>4. StampsStay
    BY <1>5 DEF create_admin, StampsStay
  <2> QED
    BY <1>5, <2>3, <2>4, AtOnceIsPlain DEF create_admin
<1>6. CASE disable_ldap_login \/ disable_sso
  <2>1. PICK k \in Kinds : provider' = SwitchedOff(k)
    BY <1>6 DEF disable_ldap_login, disable_sso
  <2>2. \A j \in Kinds, i \in Ids :
          provider'[j][i] = IF j = k
                            THEN [provider[k][i] EXCEPT !.login = FALSE]
                            ELSE provider[j][i]
    BY <2>1 DEF SwitchedOff, PersonTypes
  <2>3. \A row \in ProviderRows :
          [row EXCEPT !.login = FALSE].stamp = row.stamp
    BY DEF ProviderRows
  <2>4. StampsStay
    BY <2>2, <2>3 DEF StampsStay, PersonTypes
  <2>5. SameAccounts
    BY <1>6 DEF disable_ldap_login, disable_sso, SameAccounts
  <2> QED
    BY <1>0, <1>6, <2>4, <2>5, AtOnceIsPlain DEF disable_ldap_login, disable_sso
<1> QED
  BY <1>2, <1>3, <1>4, <1>5, <1>6, Spellings DEF CommandLine

-----------------------------------------------------------------------------
(* Sign-in *)

LEMMA RefusedIsPlain ==
  ASSUME PersonTypes, NEW s \in Sessions, Refused(s), UNCHANGED NotSignIn
  PROVE  Plain
<1>1. SameAccounts /\ users <= users'
  BY DEF Refused, SameAccounts, PersonTypes
<1> QED
  BY <1>1, EndingIsPlain DEF Refused, NotSignIn

\* Whom a provider knows by an account that is of it has it already.
LEMMA TheSamePerson ==
  ASSUME PersonInv, PersonTypes, NEW u \in LiveUsers \ stray,
         user[u].source # "local",
         NEW i \in Ids, user[u].provider = i,
         provider[user[u].source][i].stamp # 0
  PROVE  usedBy[u] = {Person(user[u].source,
                             provider[user[u].source][i].stamp,
                             Called(user[u]))}
<1>1. u \in Users /\ user[u].source \in Kinds /\ i # 0
  BY DEF LiveUsers, PersonTypes
<1>2. PICK stamp \in 1..MaxProviders : Belongs(u, stamp)
  BY DEF PersonInv, EverybodyBelongs
<1>3. provider[user[u].source][i].stamp = stamp
  BY <1>1, <1>2 DEF Belongs, PersonInv, StampsAreIds
<1> QED
  BY <1>2, <1>3 DEF Belongs

\* An account that is there is signed in to by the person it has.
LEMMA SignsInAgain ==
  ASSUME PersonInv, PersonTypes, NEW s \in Sessions, NEW u \in LiveUsers,
         NEW k \in Kinds, NEW i \in Ids, NEW stamp, NEW ext, NEW admin,
         SignsIn(u, Person(k, stamp, ext), i),
         u \notin stray /\ provider[k][i].stamp = stamp =>
           usedBy[u] = {Person(k, stamp, ext)},
         user' = [user EXCEPT ![u].admin = admin],
         Done(s), UNCHANGED users, UNCHANGED NotSignIn
  PROVE  Plain
<1>1. u \in Users /\ u <= users
  BY Numbers DEF PersonInv
<1>2. Person(k, stamp, ext)[1] = k /\ Person(k, stamp, ext)[2] = stamp
  BY DEF Person
<1>3. NobodyNew
  <2>1. /\ users <= users' /\ stray \subseteq stray'
        /\ \A v \in Users : v # u => usedBy'[v] = usedBy[v]
    BY DEF SignsIn, PersonTypes
  <2>2. CASE provider[k][i].stamp = stamp /\ u \notin stray
    <3>1. usedBy'[u] = usedBy[u] \cup {Person(k, stamp, ext)}
      BY <1>1 DEF SignsIn, PersonTypes
    <3>2. usedBy'[u] = usedBy[u]
      BY <2>2, <3>1
    <3> QED
      BY <2>1, <3>2 DEF NobodyNew
  <2>3. CASE ~(provider[k][i].stamp = stamp /\ u \notin stray)
    <3>1. u \in stray'
      BY <1>2, <2>3 DEF SignsIn
    <3> QED
      BY <1>1, <2>1, <3>1 DEF NobodyNew
  <2> QED
    BY <2>2, <2>3
<1>4. SameAccounts
  <2>1. \A v \in Users :
          /\ user'[v].row = user[v].row /\ user'[v].name = user[v].name
          /\ user'[v].ext = user[v].ext /\ user'[v].source = user[v].source
          /\ user'[v].provider = user[v].provider
    BY <1>1 DEF PersonTypes, Rows
  <2> QED
    BY <2>1 DEF SameAccounts
<1>5. SessionsGoOn /\ StampsStay
  BY SessionRests DEF StampsStay, NotSignIn
<1> QED
  BY <1>3, <1>4, <1>5 DEF Plain, NotSignIn

\* Whom a directory's name finds is called so there: a word that SQLite leaves as
\* it is differs from what Python makes of any.
LEMMA MatchesAreCalled ==
  ASSUME PersonTypes, NEW w \in Words, NEW n, NEW u \in Matching(<<w, n>>),
         user[u].source = "ldap"
  PROVE  Called(user[u]) = lower[w]
<1> DEFINE own == user[u].name[1]
<1>1. u \in Users /\ db_lower(own) = lower[w]
  BY DEF Matching, LiveUsers
<1>2. own \in Words
  BY <1>1 DEF PersonTypes, Rows, Names
<1>3. /\ lower[lower[w]] = lower[w]
      /\ own \in NonAscii => lower[own] # own
  BY AccountsAssumption DEF AccountsAssumption
<1>4. lower[own] = lower[w]
  BY <1>1, <1>3 DEF db_lower
<1> QED
  BY <1>4 DEF Called

\* What a login reads is so then.
LEMMA LoginIsPlain ==
  ASSUME PersonInv, PersonTypes, NEW s \in Sessions, NEW w \in Words, login(s, w)
  PROVE  Plain
<1> DEFINE on == {<<i, provider["ldap"][i]>> : i \in Enabled("ldap")}
<1>0. PICK found \in FirstOf(Matching(<<w, 1>>)) :
        Reads(s, [op |-> "ldap", word |-> w, profiles |-> on, rows |-> user,
                  account |-> found])
  BY DEF login
<1> DEFINE r == [op |-> "ldap", word |-> w, profiles |-> on,
                 rows |-> user, account |-> found]
<1>1. request' = [request EXCEPT ![s] = r] /\ ~Apart
  BY <1>0, OpenIsNotApart DEF login, Reads
<1>2. \A p \in on : /\ p[1] \in Ids /\ p[2] = provider["ldap"][p[1]]
                    /\ p[2].stamp # 0
  BY DEF Enabled, Providers
<1>3. LoginFits(r)
  <2>0. /\ r.op = "ldap" /\ r.word = w /\ r.profiles = on
        /\ r.rows = user /\ r.account \subseteq Matching(<<w, 1>>)
    BY DEF FirstOf
  <2> HIDE DEF on, r
  <2> SUFFICES ASSUME NEW p \in r.profiles, NEW u \in r.account \ stray,
                      r.rows[u].source = "ldap", r.rows[u].provider = p[1]
               PROVE  usedBy[u] = {Person("ldap", p[2].stamp, lower[r.word])}
    BY DEF LoginFits
  <2>1. /\ u \in LiveUsers \ stray /\ u \in Matching(<<w, 1>>)
        /\ user[u].source = "ldap" /\ user[u].provider = p[1]
    BY <2>0 DEF Matching
  <2>2. Called(user[u]) = lower[w]
    BY <2>1, MatchesAreCalled
  <2>3. p[1] \in Ids /\ p[2] = provider["ldap"][p[1]] /\ p[2].stamp # 0
    BY <1>2, <2>0
  <2>4. usedBy[u] = {Person("ldap", provider["ldap"][p[1]].stamp,
                            Called(user[u]))}
    BY <2>1, <2>3, TheSamePerson
  <2> QED
    BY <2>0, <2>2, <2>3, <2>4
<1>4. r.op = "ldap" /\ FlushFits(r)
  BY DEF FlushFits
<1> HIDE DEF r, on
<1>5. SessionsGoOn
  <2>1. \A t \in Sessions : request'[t] = IF t = s THEN r ELSE request[t]
    BY <1>1 DEF PersonTypes
  <2> QED
    BY <1>1, <1>3, <1>4, <2>1 DEF SessionsGoOn, GoesOn
<1>6. SameAccounts /\ StampsStay
  BY DEF login, SameAccounts, StampsStay
<1>7. NobodyNew
  BY NobodySigns DEF login, PersonTypes
<1> QED
  BY <1>5, <1>6, <1>7 DEF login, Plain

\* The steps of a sign-in that read, and those that end without anybody.
LEMMA AskingIsPlain ==
  ASSUME PersonInv, PersonTypes, NEW s \in Sessions,
         \/ \E i \in Ids, w \in Words : oidc_callback(s, i, w)
         \/ \E w \in Words : ChooseName(s, w)
         \/ RejectLogin(s)
         \/ RejectCallback(s)
  PROVE  Plain
<1>1. ASSUME NEW i \in Ids, NEW w \in Words, oidc_callback(s, i, w)
      PROVE  Plain
  <2> DEFINE r == [op |-> "oidc", id |-> i,
                   stamp |-> provider["oidc"][i].stamp,
                   auto |-> provider["oidc"][i].auto, ext |-> w,
                   attempt |-> 1]
  <2>1. r.op = "oidc" /\ Reads(s, r) /\ Open("callback")
    BY <1>1 DEF oidc_callback
  <2>2. UNCHANGED <<database, userVars, providerVars, boot, signInVars>>
    BY <1>1 DEF oidc_callback
  <2> HIDE DEF r
  <2> QED
    BY <2>1, <2>2, ReadingIsPlain
<1>2. ASSUME NEW w \in Words, ChooseName(s, w)
      PROVE  Plain
  <2> DEFINE q == request[s]
             r == [op |-> "insert", id |-> q.id, stamp |-> q.stamp,
                   auto |-> q.auto, ext |-> q.ext, attempt |-> q.attempt,
                   name |-> _unique_username(w), since |-> users]
  <2>1. CASE ~q.auto
    BY <1>2, <2>1, RefusedIsPlain DEF ChooseName
  <2>2. CASE q.auto
    <3>1. q.op = "oidc" /\ request' = [request EXCEPT ![s] = r]
          /\ UNCHANGED <<userVars, signInVars, NotSignIn>>
      BY <1>2, <2>2 DEF ChooseName
    <3>2. r.op = "insert" /\ ~Apart
      BY <3>1, AtWorkIsNotApart
    <3> HIDE DEF r
    <3>3. SessionsGoOn
      BY <3>1, <3>2, SessionGoes
    <3>4. SameAccounts /\ StampsStay
      BY <3>1 DEF SameAccounts, StampsStay, NotSignIn
    <3>5. NobodyNew
      BY <3>1, NobodySigns DEF PersonTypes
    <3> QED
      BY <3>1, <3>3, <3>4, <3>5 DEF Plain, NotSignIn
  <2> QED
    BY <2>1, <2>2
<1> QED
  BY <1>1, <1>2, RefusedIsPlain DEF RejectLogin, RejectCallback

LEMMA FindingIsPlain ==
  ASSUME PersonInv, PersonTypes, NEW s \in Sessions, NEW verdict \in Verdicts,
         FindAccount(s, verdict)
  PROVE  Plain
<1> DEFINE r == request[s]
<1>1. PICK u \in Known(r.id, r.ext) :
        IF user[u].active
        THEN /\ user' = [user EXCEPT ![u].admin = ByGroup(verdict, @)]
             /\ SignsIn(u, Person("oidc", r.stamp, r.ext), r.id)
             /\ Done(s)
             /\ UNCHANGED users
        ELSE Refused(s)
  BY DEF FindAccount
<1>2. r.op = "oidc" /\ UNCHANGED NotSignIn
  BY DEF FindAccount
<1>3. r.id \in Ids /\ r.stamp \in 1..MaxProviders
  BY <1>2 DEF PersonTypes
<1>4. /\ u \in LiveUsers /\ user[u].source = "oidc"
      /\ user[u].provider = r.id /\ Called(user[u]) = r.ext
  BY DEF Known, Called
<1>5. CASE user[u].active
  <2>1. u \notin stray /\ provider["oidc"][r.id].stamp = r.stamp =>
          usedBy[u] = {Person("oidc", r.stamp, r.ext)}
    <3> SUFFICES ASSUME u \notin stray, provider["oidc"][r.id].stamp = r.stamp
                 PROVE  usedBy[u] = {Person("oidc", r.stamp, r.ext)}
      OBVIOUS
    <3>1. r.stamp # 0
      BY <1>3
    <3>2. usedBy[u] = {Person(user[u].source,
                              provider[user[u].source][r.id].stamp,
                              Called(user[u]))}
      BY <1>3, <1>4, <3>1, TheSamePerson
    <3> QED
      BY <1>4, <3>2
  <2>2. PICK admin : user' = [user EXCEPT ![u].admin = admin]
    BY <1>1, <1>5
  <2> QED
    BY <1>1, <1>2, <1>3, <1>4, <1>5, <2>1, <2>2, SignsInAgain
<1> QED
  BY <1>1, <1>2, <1>5, RefusedIsPlain

\* A directory vouches for a person of its own, whether the account was read
\* before or after it answered.
LEMMA SyncingIsPlain ==
  ASSUME PersonInv, PersonTypes, NEW s \in Sessions, request[s].op = "ldap",
         NEW p \in request[s].profiles, NEW rights \in BOOLEAN,
         NEW u \in Matching(<<request[s].word, 1>>),
         LET row == IF u \in request[s].account THEN request[s].rows[u]
                    ELSE user[u]
         IN  /\ MaySignIn(row, p[1])
             /\ user' = [user EXCEPT ![u].admin = @ \/ (rights /\ ~row.admin)],
         SignsIn(u, Person("ldap", p[2].stamp, lower[request[s].word]), p[1]),
         Done(s), UNCHANGED users, UNCHANGED NotSignIn
  PROVE  Plain
<1> DEFINE r == request[s]
           row == IF u \in r.account THEN r.rows[u] ELSE user[u]
<1>1. /\ p[1] \in Ids /\ p[2].stamp \in 1..MaxProviders
      /\ p[1] # 0 /\ p[2].stamp # 0
  BY DEF PersonTypes
<1>2. u \in LiveUsers /\ r.word \in Words
  BY DEF Matching, PersonTypes
<1>3. u \notin stray /\ provider["ldap"][p[1]].stamp = p[2].stamp =>
        usedBy[u] = {Person("ldap", p[2].stamp, lower[r.word])}
  <2> SUFFICES ASSUME u \notin stray, provider["ldap"][p[1]].stamp = p[2].stamp
               PROVE  usedBy[u] = {Person("ldap", p[2].stamp, lower[r.word])}
    OBVIOUS
  <2>1. CASE u \in r.account
    <3>1. r.rows[u].source = "ldap" /\ r.rows[u].provider = p[1]
      BY <2>1 DEF MaySignIn
    <3> QED
      BY <2>1, <3>1 DEF PersonInv, RequestsFit, LoginFits
  <2>2. CASE u \notin r.account
    <3>1. user[u].source = "ldap" /\ user[u].provider = p[1]
      BY <2>2 DEF MaySignIn
    <3>2. Called(user[u]) = lower[r.word]
      BY <1>2, <3>1, MatchesAreCalled
    <3>3. usedBy[u] = {Person(user[u].source,
                              provider[user[u].source][p[1]].stamp,
                              Called(user[u]))}
      BY <1>1, <1>2, <3>1, TheSamePerson
    <3> QED
      BY <3>1, <3>2, <3>3
  <2> QED
    BY <2>1, <2>2
<1>4. PICK admin : user' = [user EXCEPT ![u].admin = admin]
  OBVIOUS
<1> QED
  BY <1>1, <1>2, <1>3, <1>4, SignsInAgain

\* An account that is made for somebody is theirs.
LEMMA NewAccountKeeps ==
  ASSUME PersonInv, PersonTypes, AccessInv', NEW s \in Sessions,
         request[s].op \in {"ldap", "insert"}, MayWrite(s),
         NEW k \in Kinds, NEW i \in Ids, NEW stamp \in 1..MaxProviders,
         NEW new \in Rows, Insert(new), new.source = k, new.provider = i,
         SignsIn(users + 1, Person(k, stamp, Called(new)), i),
         Done(s), UNCHANGED NotSignIn
  PROVE  PersonInv'
<1> DEFINE n == users + 1
           person == Person(k, stamp, Called(new))
<1>1. /\ users' = n /\ n \in Users
      /\ \A u \in Users : user'[u] = IF u = n THEN new ELSE user[u]
  BY NewIsNext DEF PersonInv, AccessInv
<1>2. person[1] = k /\ person[2] = stamp
  BY DEF Person
<1>3. usedBy[n] = {}
  BY <1>1 DEF PersonInv, NobodyYet, PersonTypes
<1>4. /\ \A u \in Users : u # n => usedBy'[u] = usedBy[u]
      /\ usedBy'[n] = {person}
      /\ stray \subseteq stray'
  BY <1>1, <1>3 DEF SignsIn, PersonTypes
<1>5. n \notin stray' => provider[k][i].stamp = stamp
  BY <1>2 DEF SignsIn
<1>6. /\ \A t \in Sessions : request'[t] = IF t = s THEN Idle ELSE request[t]
      /\ Idle.op = "idle"
      /\ (IS_SQLITE' <=> IS_SQLITE) /\ (Due' <=> Due) /\ (Apart' <=> Apart)
      /\ UNCHANGED <<provider, boot, database>>
  BY DEF PersonTypes, Done, NotSignIn, IS_SQLITE, Due, Apart
<1>7. ~Apart /\ ~Due
  BY AtWorkIsNotApart DEF Apart
<1> HIDE DEF n, person
<1>8. EverybodyBelongs'
  <2>1. ASSUME NEW u \in Users, user'[u].row = "live", u \notin stray',
               user'[u].source # "local"
        PROVE  \E st \in 1..MaxProviders : Belongs(u, st)'
    <3>1. CASE u = n
      <4>1. provider[k][i].stamp = stamp /\ usedBy'[u] = {person}
            /\ user'[u] = new
        BY <1>1, <1>4, <1>5, <2>1, <3>1
      <4>2. ~IS_SQLITE => i = stamp
        BY <4>1 DEF PersonInv, StampsAreIds
      <4>3. Belongs(u, stamp)'
        BY <1>6, <1>7, <4>1, <4>2 DEF Belongs, person
      <4> QED
        BY <4>3
    <3>2. CASE u # n
      <4>1. user'[u] = user[u] /\ u \notin stray /\ usedBy'[u] = usedBy[u]
        BY <1>1, <1>4, <2>1, <3>2
      <4>2. PICK st \in 1..MaxProviders : Belongs(u, st)
        BY <2>1, <4>1 DEF PersonInv, EverybodyBelongs, LiveUsers, Live
      <4>3. Belongs(u, st)'
        BY <1>6, <4>1, <4>2 DEF Belongs
      <4> QED
        BY <4>3
    <3> QED
      BY <3>1, <3>2
  <2> QED
    BY <2>1 DEF EverybodyBelongs, LiveUsers, Live
<1>9. RequestsFit'
  <2> SUFFICES ASSUME NEW t \in Sessions
               PROVE  FlushFits(request[t])' /\ LoginFits(request[t])'
    BY DEF RequestsFit
  <2>1. CASE t = s
    BY <1>6, <2>1 DEF FlushFits, LoginFits
  <2>2. CASE t # s
    <3>1. request'[t] = request[t] /\ FlushFits(request[t])
          /\ LoginFits(request[t])
      BY <1>6, <2>2 DEF PersonInv, RequestsFit
    <3>2. FlushFits(request[t])'
      BY <1>6, <2>2, <3>1 DEF FlushFits, MayWrite
    <3>3. ASSUME request[t].op = "ldap",
                 NEW p \in request[t].profiles,
                 NEW u \in request[t].account, u \notin stray',
                 request[t].rows[u].source = "ldap",
                 request[t].rows[u].provider = p[1]
          PROVE  usedBy'[u] = {Person("ldap", p[2].stamp, lower[request[t].word])}
      <4>1. u \in Users /\ u \notin stray
        BY <1>4, <3>3 DEF PersonTypes
      <4>2. usedBy[u] = {Person("ldap", p[2].stamp, lower[request[t].word])}
        BY <3>1, <3>3, <4>1 DEF LoginFits
      <4>3. u # n
        BY <1>3, <4>2
      <4> QED
        BY <1>4, <4>1, <4>2, <4>3
    <3>4. LoginFits(request[t])'
      BY <3>1, <3>3 DEF LoginFits
    <3> QED
      BY <3>2, <3>4
  <2> QED
    BY <2>1, <2>2
<1>10. OneFlush' /\ StampsAreIds' /\ BootIsApart'
  BY <1>6, <1>7 DEF PersonInv, OneFlush, StampsAreIds, BootIsApart
<1>11. NobodyYet'
  <2>1. \A u \in Users : u > n => u > users /\ u # n
    BY DEF n, PersonTypes
  <2> QED
    BY <1>1, <1>4, <2>1 DEF PersonInv, NobodyYet
<1>12. NobodyElsesAccount'
  <2>1. \A u \in Users \ stray' : u = n => \A a, b \in usedBy'[u] : a = b
    BY <1>4
  <2>2. \A u \in Users \ stray' : u # n => \A a, b \in usedBy'[u] : a = b
    BY <1>4 DEF PersonInv, NobodyElsesAccount
  <2> QED
    BY <2>1, <2>2 DEF NobodyElsesAccount
<1> QED
  BY <1>8, <1>9, <1>10, <1>11, <1>12 DEF PersonInv

\* The two steps of a sign-in that may make an account.
LEMMA SyncKeeps ==
  ASSUME PersonInv, PersonTypes, AccessInv', NEW s \in Sessions,
         request[s].op = "ldap", NEW p \in request[s].profiles,
         NEW rights \in BOOLEAN, sync_user(s, p, rights)
  PROVE  PersonInv'
<1> DEFINE r == request[s]
           name == <<r.word, 1>>
           new == Account(name, "ldap", p[1], lower[r.word], rights)
           person == Person("ldap", p[2].stamp, lower[r.word])
<1>1. MayWrite(s) /\ UNCHANGED NotSignIn
  BY DEF sync_user
<1>2. CASE Insert(new) /\ SignsIn(users + 1, person, p[1]) /\ Done(s)
  <2>1. /\ p[1] \in Ids /\ p[2].stamp \in 1..MaxProviders
        /\ r.word \in Words /\ lower[r.word] \in Words
    BY Spellings DEF PersonTypes
  <2>2. p[1] \in 0..MaxProviders
    BY <2>1
  <2>3. new \in Rows
    BY <2>1, <2>2, AccountTyped, FirstName
  <2>4. new.source = "ldap" /\ new.provider = p[1] /\ Called(new) = lower[r.word]
    BY DEF Account, Called
  <2>5. "ldap" \in Kinds /\ SignsIn(users + 1, Person("ldap", p[2].stamp,
                                              Called(new)), p[1])
    BY <1>2, <2>4
  <2> HIDE DEF new
  <2> QED
    BY <1>1, <1>2, <2>1, <2>3, <2>4, <2>5, NewAccountKeeps
<1>3. ASSUME NEW u \in Matching(name),
             LET row == IF u \in r.account THEN r.rows[u] ELSE user[u]
             IN  /\ MaySignIn(row, p[1])
                 /\ user' = [user EXCEPT ![u].admin =
                               @ \/ (rights /\ ~row.admin)],
             SignsIn(u, person, p[1]), Done(s), UNCHANGED users
      PROVE  PersonInv'
  BY <1>1, <1>3, SyncingIsPlain, PlainKeeps
<1>4. CASE Refused(s)
  BY <1>1, <1>4, RefusedIsPlain, PlainKeeps
<1> QED
  BY <1>2, <1>3, <1>4 DEF sync_user

LEMMA InsertKeeps ==
  ASSUME PersonInv, PersonTypes, AccessInv', NEW s \in Sessions,
         NEW verdict \in Verdicts, InsertAccount(s, verdict)
  PROVE  PersonInv'
<1> DEFINE r == request[s]
           new == Account(r.name, "oidc", r.id, r.ext, ByGroup(verdict, FALSE))
           again == [op |-> "oidc", id |-> r.id, stamp |-> r.stamp,
                     auto |-> provider["oidc"][r.id].auto, ext |-> r.ext,
                     attempt |-> r.attempt + 1]
<1>1. r.op = "insert" /\ MayWrite(s) /\ UNCHANGED NotSignIn
  BY DEF InsertAccount
<1>2. CASE /\ Insert(new) /\ Done(s)
           /\ SignsIn(users + 1, Person("oidc", r.stamp, r.ext), r.id)
  <2>1. /\ r.id \in Ids /\ r.stamp \in 1..MaxProviders /\ r.ext \in Words
        /\ r.name \in Names
    BY <1>1
    DEF PersonTypes, PersonInv, AccessInv, TypeInv, RequestsTyped, Requests
  <2>2. r.id \in 0..MaxProviders /\ ByGroup(verdict, FALSE) \in BOOLEAN
    <3>1. r.id \in 0..MaxProviders
      BY <2>1
    <3>2. ByGroup(verdict, FALSE) \in BOOLEAN
      BY DEF ByGroup
    <3> QED
      BY <3>1, <3>2
  <2>3. new \in Rows
    BY <2>1, <2>2, AccountTyped
  <2>4. new.source = "oidc" /\ new.provider = r.id /\ Called(new) = r.ext
    BY DEF Account, Called
  <2>5. "oidc" \in Kinds /\ SignsIn(users + 1, Person("oidc", r.stamp,
                                              Called(new)), r.id)
    BY <1>2, <2>4
  <2> HIDE DEF new
  <2> QED
    BY <1>1, <1>2, <2>1, <2>3, <2>4, <2>5, NewAccountKeeps
<1>3. CASE /\ request' = [request EXCEPT ![s] = again]
           /\ UNCHANGED <<userVars, signInVars>>
  <2>1. again.op = "oidc" /\ ~Apart
    BY <1>1, AtWorkIsNotApart
  <2> HIDE DEF again
  <2>2. SessionsGoOn
    BY <1>3, <2>1, SessionGoes
  <2>3. SameAccounts /\ StampsStay
    BY <1>1, <1>3 DEF SameAccounts, StampsStay, NotSignIn
  <2>4. NobodyNew
    BY <1>3, NobodySigns DEF PersonTypes
  <2>5. Plain
    BY <1>1, <2>2, <2>3, <2>4 DEF Plain, NotSignIn
  <2> QED
    BY <2>5, PlainKeeps
<1>4. CASE Refused(s)
  BY <1>1, <1>4, RefusedIsPlain, PlainKeeps
<1> QED
  BY <1>2, <1>3, <1>4 DEF InsertAccount

LEMMA SignInPagesKeep ==
  ASSUME PersonInv, PersonTypes, AccessInv', SignInPages
  PROVE  PersonInv'
<1>1. ASSUME NEW s \in Sessions, NEW w \in Words, login(s, w)
      PROVE  PersonInv'
  BY <1>1, LoginIsPlain, PlainKeeps
<1>2. ASSUME NEW s \in Sessions,
             \/ \E i \in Ids, w \in Words : oidc_callback(s, i, w)
             \/ \E w \in Words : ChooseName(s, w)
             \/ RejectLogin(s)
             \/ RejectCallback(s)
      PROVE  PersonInv'
  BY <1>2, AskingIsPlain, PlainKeeps
<1>3. ASSUME NEW s \in Sessions, NEW verdict \in Verdicts,
             FindAccount(s, verdict)
      PROVE  PersonInv'
  BY <1>3, FindingIsPlain, PlainKeeps
<1> QED
  BY <1>1, <1>2, <1>3, InsertKeeps, SyncKeeps, Spellings DEF SignInPages

-----------------------------------------------------------------------------
(* Providers that change, and a process that starts *)

\* Whoever had the provider before keeps an id that is theirs, or none.
LEMMA CommitKeeps ==
  ASSUME PersonInv, PersonTypes, AccessInv', NEW s \in Sessions,
         CommitProvider(s)
  PROVE  PersonInv'
<1> DEFINE r == request[s]
<1>1. /\ r.op = "flushed" /\ r.kind \in Kinds /\ r.id \in Ids
      /\ FlushFits(r)
  BY DEF CommitProvider, PersonTypes, PersonInv, RequestsFit
<1>2. /\ \A k \in Kinds, i \in Ids :
           provider'[k][i] = IF k = r.kind /\ i = r.id THEN r.row
                             ELSE provider[k][i]
      /\ \A t \in Sessions : request'[t] = IF t = s THEN Idle ELSE request[t]
      /\ Idle.op = "idle"
      /\ UNCHANGED <<database, users, boot, usedBy, stray>>
  BY <1>1 DEF CommitProvider, PersonTypes, Done
<1>3. \A u \in Users :
        /\ user'[u].row = user[u].row /\ user'[u].name = user[u].name
        /\ user'[u].ext = user[u].ext /\ user'[u].source = user[u].source
        /\ user'[u].provider = IF u \in r.cut THEN 0 ELSE user[u].provider
  BY DEF CommitProvider, PersonTypes, Rows
<1>4. ~Apart /\ ~Due /\ (Due' <=> Due) /\ (Apart' <=> Apart)
      /\ (IS_SQLITE' <=> IS_SQLITE)
  BY <1>1, <1>2, AtWorkIsNotApart DEF Apart, Due, IS_SQLITE
<1>5. EverybodyBelongs'
  <2> SUFFICES ASSUME NEW u \in Users, user'[u].row = "live", u \notin stray',
                      user'[u].source # "local"
               PROVE  \E stamp \in 1..MaxProviders : Belongs(u, stamp)'
    BY DEF EverybodyBelongs, LiveUsers, Live
  <2>1. /\ u \in LiveUsers \ stray /\ user[u].source # "local"
        /\ user[u].source \in Kinds
    BY <1>2, <1>3 DEF LiveUsers, Live, PersonTypes
  <2>2. PICK stamp \in 1..MaxProviders : Belongs(u, stamp)
    BY <2>1 DEF PersonInv, EverybodyBelongs
  <2>3. Called(user'[u]) = Called(user[u]) /\ usedBy'[u] = usedBy[u]
        /\ user'[u].source = user[u].source
    BY <1>2, <1>3 DEF Called
  <2>4. ASSUME user'[u].provider # 0
        PROVE  IF IS_SQLITE
               THEN provider'[user[u].source][user'[u].provider].stamp = stamp
               ELSE user'[u].provider = stamp
    <3>1. /\ u \notin r.cut /\ user'[u].provider = user[u].provider
          /\ user[u].provider # 0 /\ user[u].provider \in Ids
      BY <1>3, <2>4 DEF PersonTypes
    <3>2. CASE ~IS_SQLITE
      BY <2>2, <3>1, <3>2 DEF Belongs
    <3>3. CASE IS_SQLITE
      <4>1. provider[user[u].source][user[u].provider].stamp = stamp
        BY <2>2, <3>1, <3>3 DEF Belongs
      <4>2. CASE ~(user[u].source = r.kind /\ user[u].provider = r.id)
        BY <1>2, <2>1, <3>1, <3>3, <4>1, <4>2
      <4>3. CASE user[u].source = r.kind /\ user[u].provider = r.id
        <5>1. u \in CutLoose(r.kind, r.id)
          BY <2>1, <4>3 DEF CutLoose
        <5>2. r.row.stamp # 0
          BY <1>1, <3>1, <3>3, <5>1 DEF FlushFits
        <5>3. provider[r.kind][r.id].stamp \in {0, r.row.stamp}
          BY <1>1, <3>3, <5>2 DEF FlushFits
        <5>4. r.row.stamp = stamp
          BY <4>1, <4>3, <5>3
        <5>5. provider'[r.kind][r.id] = r.row
          BY <1>1, <1>2
        <5> QED
          BY <3>1, <3>3, <4>3, <5>4, <5>5
      <4> QED
        BY <4>2, <4>3
    <3> QED
      BY <3>2, <3>3
  <2>5. Belongs(u, stamp)'
    BY <1>4, <2>2, <2>3, <2>4 DEF Belongs
  <2> QED
    BY <2>5
<1>6. RequestsFit'
  <2> SUFFICES ASSUME NEW t \in Sessions
               PROVE  FlushFits(request[t])' /\ LoginFits(request[t])'
    BY DEF RequestsFit
  <2>1. CASE t = s
    BY <1>2, <2>1 DEF FlushFits, LoginFits
  <2>2. CASE t # s
    <3>1. request'[t] = request[t] /\ FlushFits(request[t])
          /\ LoginFits(request[t])
      BY <1>2, <2>2 DEF PersonInv, RequestsFit
    <3>2. IS_SQLITE => request[t].op # "flushed"
      BY <1>1, <2>2 DEF PersonInv, OneFlush
    <3>3. FlushFits(request[t])'
      BY <1>4, <3>1, <3>2 DEF FlushFits
    <3>4. LoginFits(request[t])'
      BY <1>2, <3>1 DEF LoginFits
    <3> QED
      BY <3>3, <3>4
  <2> QED
    BY <2>1, <2>2
<1>7. OneFlush'
  BY <1>2, <1>4 DEF PersonInv, OneFlush
<1>8. StampsAreIds'
  <2>1. ~IS_SQLITE => r.row.stamp \in {0, r.id}
    BY <1>1 DEF FlushFits
  <2> QED
    BY <1>2, <1>4, <2>1 DEF PersonInv, StampsAreIds
<1>9. BootIsApart'
  BY <1>4 DEF BootIsApart
<1>10. NobodyYet' /\ NobodyElsesAccount'
  BY <1>2 DEF PersonInv, NobodyYet, NobodyElsesAccount
<1> QED
  BY <1>5, <1>6, <1>7, <1>8, <1>9, <1>10 DEF PersonInv

LEMMA StartKeepsEverybody ==
  ASSUME PersonInv, PersonTypes, AccessInv', Start
  PROVE  PersonInv'
<1>1. CASE bootstrap
  <2>1. /\ UNCHANGED <<database, user, users, provider, request, usedBy, stray>>
        /\ (Due' <=> Due) /\ (IS_SQLITE' <=> IS_SQLITE)
    BY <1>1 DEF bootstrap, Due, IS_SQLITE
  <2>2. EverybodyBelongs'
    BY <2>1 DEF PersonInv, EverybodyBelongs, LiveUsers, Live, Belongs
  <2>3. RequestsFit'
    BY <2>1
    DEF PersonInv, RequestsFit, FlushFits, LoginFits, CutLoose, LiveUsers, Live
  <2>4. OneFlush' /\ StampsAreIds' /\ NobodyYet' /\ NobodyElsesAccount'
    BY <2>1
    DEF PersonInv, OneFlush, StampsAreIds, NobodyYet, NobodyElsesAccount
  <2>5. BootIsApart'
    BY <1>1, <2>1 DEF bootstrap, Busy, PersonInv, BootIsApart, Apart
  <2> QED
    BY <2>2, <2>3, <2>4, <2>5 DEF PersonInv
<1>2. CASE CommitBootstrap
  <2> DEFINE one == boot.op = "migrates" /\ 1 \in Providers("ldap")
  <2>1. /\ UNCHANGED <<database, users, provider, request, usedBy, stray>>
        /\ (IS_SQLITE' <=> IS_SQLITE) /\ boot.op \in {"reads", "migrates"}
        /\ boot.op = "migrates" => Due
    BY <1>2 DEF CommitBootstrap, Due, IS_SQLITE
  <2>2. (Due' => Due) /\ (Apart' => Apart)
    <3>1. \/ boot' = NotBooting
          \/ boot' = BootDue /\ boot.op # "reads"
      BY <1>2 DEF CommitBootstrap
    <3>2. NotBooting.op = "idle" /\ BootDue.op = "due"
      BY DEF NotBooting, BootDue
    <3>3. CASE boot' = NotBooting
      BY <3>2, <3>3 DEF Due, Apart
    <3>4. CASE boot' = BootDue /\ boot.op # "reads"
      BY <2>1, <3>4 DEF Due, Apart
    <3> QED
      BY <3>1, <3>3, <3>4
  <2>3. \/ UNCHANGED user
        \/ /\ ~Due'
           /\ \A u \in Users :
                /\ user'[u].row = user[u].row /\ user'[u].name = user[u].name
                /\ user'[u].ext = user[u].ext
                /\ user'[u].source = user[u].source
                /\ user'[u].provider = IF one /\ u \in Legacy THEN 1
                                       ELSE user[u].provider
    <3>1. CASE UNCHANGED user
      BY <3>1
    <3>2. CASE /\ user' = [u \in Users |->
                             [user[u] EXCEPT
                                !.admin = @ \/ u = boot.promote,
                                !.initial = @ \/ u = boot.adopt,
                                !.provider = IF one /\ u \in Legacy THEN 1
                                             ELSE @]]
               /\ boot' = NotBooting
      <4> HIDE DEF one
      <4>1. ASSUME NEW row \in Rows, NEW a, NEW i, NEW id
            PROVE  LET new == [row EXCEPT !.admin = a, !.initial = i,
                                          !.provider = id]
                   IN  /\ new.row = row.row /\ new.name = row.name
                       /\ new.ext = row.ext /\ new.source = row.source
                       /\ new.provider = id
        BY DEF Rows
      <4>2. ASSUME NEW u \in Users
            PROVE  /\ user'[u].row = user[u].row
                   /\ user'[u].name = user[u].name
                   /\ user'[u].ext = user[u].ext
                   /\ user'[u].source = user[u].source
                   /\ user'[u].provider = IF one /\ u \in Legacy THEN 1
                                          ELSE user[u].provider
        <5> DEFINE a  == user[u].admin \/ u = boot.promote
                   i  == user[u].initial \/ u = boot.adopt
                   id == IF one /\ u \in Legacy THEN 1 ELSE user[u].provider
        <5>1. user'[u] = [user[u] EXCEPT !.admin = a, !.initial = i,
                                         !.provider = id]
          BY <3>2
        <5>2. user[u] \in Rows
          BY DEF PersonTypes
        <5> HIDE DEF a, i, id
        <5>3. /\ user'[u].row = user[u].row /\ user'[u].name = user[u].name
              /\ user'[u].ext = user[u].ext
              /\ user'[u].source = user[u].source
              /\ user'[u].provider = id
          BY <4>1, <5>1, <5>2
        <5> QED
          BY <5>3 DEF id
      <4>3. ~Due'
        BY <3>2 DEF Due, NotBooting
      <4> QED
        BY <4>2, <4>3
    <3> QED
      BY <1>2, <3>1, <3>2 DEF CommitBootstrap
  <2> HIDE DEF one
  <2>4. EverybodyBelongs'
    <3> SUFFICES ASSUME NEW u \in Users, user'[u].row = "live",
                        u \notin stray', user'[u].source # "local"
                 PROVE  \E stamp \in 1..MaxProviders : Belongs(u, stamp)'
      BY DEF EverybodyBelongs, LiveUsers, Live
    <3>1. /\ u \in LiveUsers \ stray /\ user[u].source # "local"
          /\ user'[u].source = user[u].source
          /\ Called(user'[u]) = Called(user[u])
      BY <2>1, <2>3 DEF LiveUsers, Live, Called
    <3>2. PICK stamp \in 1..MaxProviders : Belongs(u, stamp)
      BY <3>1 DEF PersonInv, EverybodyBelongs
    <3>3. CASE user'[u].provider = user[u].provider
      <4>1. Belongs(u, stamp)'
        BY <2>1, <2>2, <3>1, <3>2, <3>3 DEF Belongs
      <4> QED
        BY <4>1
    <3>4. CASE user'[u].provider # user[u].provider
      <4>1. one /\ u \in Legacy /\ user'[u].provider = 1 /\ ~Due'
        BY <2>3, <3>4
      <4>2. Due /\ user[u].source = "ldap" /\ provider["ldap"][1].stamp # 0
        BY <2>1, <4>1 DEF one, Legacy, Providers
      <4>3. stamp = 1 /\ provider["ldap"][1].stamp = 1
        BY <3>2, <4>2 DEF Belongs, PersonInv, BootIsApart
      <4>4. Belongs(u, stamp)'
        BY <2>1, <3>1, <3>2, <4>1, <4>2, <4>3 DEF Belongs
      <4> QED
        BY <4>4
    <3> QED
      BY <3>3, <3>4
  <2>5. RequestsFit'
    <3> SUFFICES ASSUME NEW t \in Sessions
                 PROVE  FlushFits(request[t])' /\ LoginFits(request[t])'
      BY DEF RequestsFit
    <3>1. request'[t] = request[t] /\ FlushFits(request[t])
          /\ LoginFits(request[t])
      BY <2>1 DEF PersonInv, RequestsFit
    <3>2. IS_SQLITE => request[t].op # "flushed"
      BY <2>1 DEF PersonInv, BootIsApart, Apart
    <3>3. FlushFits(request[t])'
      BY <2>1, <3>1, <3>2 DEF FlushFits
    <3>4. LoginFits(request[t])'
      BY <2>1, <3>1 DEF LoginFits
    <3> QED
      BY <3>3, <3>4
  <2>6. OneFlush' /\ StampsAreIds' /\ NobodyYet' /\ NobodyElsesAccount'
    BY <2>1
    DEF PersonInv, OneFlush, StampsAreIds, NobodyYet, NobodyElsesAccount
  <2>7. BootIsApart'
    BY <2>1, <2>2 DEF PersonInv, BootIsApart
  <2> QED
    BY <2>4, <2>5, <2>6, <2>7 DEF PersonInv
<1> QED
  BY <1>1, <1>2 DEF Start

-----------------------------------------------------------------------------
(* All of them *)

LEMMA PersonInit == Init => PersonInv
<1> SUFFICES ASSUME Init
             PROVE  PersonInv
  OBVIOUS
<1>1. AccessInv
  BY AccessInit
<1>2. /\ \A s \in Sessions : request[s].op = "idle"
      /\ stray = {}
  BY DEF Init
<1>3. RequestsFit /\ OneFlush
  BY <1>2 DEF RequestsFit, FlushFits, LoginFits, OneFlush
<1>4. 1 \in Ids /\ 1 \in 1..MaxProviders /\ 1 \in Users /\ 2 \in Users
  BY AccountsAssumption DEF AccountsAssumption
<1>5. /\ NoProvider.stamp = 0 /\ Applied(1, TRUE, TRUE).stamp = 1
      /\ NoUser.row = "none"
  BY DEF NoProvider, Applied, NoUser, Account
<1>6. /\ \A k \in Kinds, i \in Ids :
           \/ provider[k][i] = NoProvider
           \/ provider[k][i] = Applied(1, TRUE, TRUE) /\ i = 1
      /\ provider["ldap"][1].stamp \in {0, 1}
  <2>1. \/ provider = [k \in Kinds |-> [i \in Ids |-> NoProvider]]
        \/ provider = [k \in Kinds |-> One]
        \/ provider = [k \in Kinds |-> IF k = "ldap" THEN One
                                       ELSE [i \in Ids |-> NoProvider]]
    BY DEF Init, Fresh, Running, Upgraded
  <2>2. \A k \in Kinds, i \in Ids : provider[k][i] \in {NoProvider, One[i]}
    BY <2>1
  <2>3. \A i \in Ids : One[i] = IF i = 1 THEN Applied(1, TRUE, TRUE)
                                ELSE NoProvider
    BY DEF One
  <2>4. \A k \in Kinds, i \in Ids :
          \/ provider[k][i] = NoProvider
          \/ provider[k][i] = Applied(1, TRUE, TRUE) /\ i = 1
    BY <2>2, <2>3
  <2>5. provider["ldap"][1].stamp \in {0, 1}
    <3>1. provider["ldap"][1] \in {NoProvider, Applied(1, TRUE, TRUE)}
      BY <1>4, <2>4
    <3> QED
      BY <1>5, <3>1
  <2> QED
    BY <2>4, <2>5
<1>7. StampsAreIds
  BY <1>5, <1>6 DEF StampsAreIds
<1>8. BootIsApart
  BY <1>2, <1>6 DEF BootIsApart
<1>9. CASE Fresh
  <2>1. \A u \in Users : user[u].row = "none" /\ usedBy[u] = {}
    BY <1>5, <1>9 DEF Fresh
  <2> QED
    BY <1>1, <1>3, <1>7, <1>8, <2>1
    DEF PersonInv, EverybodyBelongs, LiveUsers, Live, NobodyYet,
        NobodyElsesAccount
<1>10. CASE Running
  <2>1. PICK other \in Words :
          /\ user = [u \in Users |->
                       IF u = 1
                       THEN [Account(<<Someone, 1>>, "local", 0, Someone, TRUE)
                               EXCEPT !.initial = TRUE]
                       ELSE IF u = 2
                       THEN Account(<<other, 1>>, "oidc", 1, other, FALSE)
                       ELSE NoUser]
          /\ usedBy = [u \in Users |->
                         IF u = 2 THEN {Person("oidc", 1, other)} ELSE {}]
    BY <1>10, Spellings DEF Running
  <2>2. /\ user[1].source = "local"
        /\ user[2].source = "oidc" /\ user[2].provider = 1
        /\ user[2].ext = other
        /\ \A u \in Users : u # 1 /\ u # 2 => user[u].row = "none"
        /\ usedBy[2] = {Person("oidc", 1, other)}
        /\ \A u \in Users : u # 2 => usedBy[u] = {}
    <3>1. user[2] = Account(<<other, 1>>, "oidc", 1, other, FALSE)
      BY <1>4, <2>1
    <3>2. user[1].source = "local"
      BY <1>4, <2>1 DEF Account
    <3> QED
      BY <1>4, <1>5, <2>1, <3>1, <3>2 DEF Account
  <2>3. provider["oidc"][1].stamp = 1 /\ users = 2 /\ boot.op = "idle"
    BY <1>4, <1>5, <1>10 DEF Running, One, NotBooting
  <2>4. Belongs(2, 1)
    BY <1>4, <2>2, <2>3 DEF Belongs, Called, Due
  <2>5. EverybodyBelongs
    <3>1. \A u \in LiveUsers : u \in Users /\ (u = 1 \/ u = 2)
      BY <2>2 DEF LiveUsers, Live
    <3> QED
      BY <1>4, <2>2, <2>4, <3>1 DEF EverybodyBelongs
  <2>6. NobodyYet /\ NobodyElsesAccount
    BY <2>2, <2>3 DEF NobodyYet, NobodyElsesAccount
  <2> QED
    BY <1>1, <1>3, <1>7, <1>8, <2>5, <2>6 DEF PersonInv
<1>11. CASE Upgraded
  <2>1. PICK first \in BOOLEAN, second \in BOOLEAN, name \in Names :
          user = [u \in Users |->
                    IF u = 1
                    THEN Account(<<Someone, 1>>, "ldap", 0, Someone, first)
                    ELSE IF u = 2
                    THEN Account(name, "local", 0, Someone, second)
                    ELSE NoUser]
    BY <1>11, Spellings DEF Upgraded, Names
  <2>2. /\ user[2].source = "local"
        /\ user[1].source = "ldap" /\ user[1].provider = 0
        /\ user[1].name = <<Someone, 1>>
        /\ \A u \in Users : u # 1 /\ u # 2 => user[u].row = "none"
    <3>1. user[1] = Account(<<Someone, 1>>, "ldap", 0, Someone, first)
      BY <1>4, <2>1
    <3>2. user[2] = Account(name, "local", 0, Someone, second)
      BY <1>4, <2>1
    <3> QED
      BY <1>4, <1>5, <2>1, <3>1, <3>2 DEF Account
  <2>3. /\ usedBy[1] = {Person("ldap", 1, Someone)}
        /\ \A u \in Users : u # 1 => usedBy[u] = {}
        /\ users = 2
    BY <1>4, <1>11 DEF Upgraded
  <2>4. Belongs(1, 1)
    BY <2>2, <2>3, Spellings DEF Belongs, Called
  <2>5. EverybodyBelongs
    <3>1. \A u \in LiveUsers : u \in Users /\ (u = 1 \/ u = 2)
      BY <2>2 DEF LiveUsers, Live
    <3> QED
      BY <1>4, <2>2, <2>4, <3>1 DEF EverybodyBelongs
  <2>6. NobodyYet /\ NobodyElsesAccount
    BY <2>3 DEF NobodyYet, NobodyElsesAccount
  <2> QED
    BY <1>1, <1>3, <1>7, <1>8, <2>5, <2>6 DEF PersonInv
<1> QED
  BY <1>9, <1>10, <1>11 DEF Init

LEMMA PersonStep ==
  PersonInv /\ [Next]_vars => PersonInv'
<1> SUFFICES ASSUME PersonInv, [Next]_vars
             PROVE  PersonInv'
  OBVIOUS
<1>1. AccessInv'
  BY AccessStep DEF PersonInv
<1>2. PersonTypes
  BY PersonTyped DEF PersonInv, AccessInv
<1>3. CASE Setup
  BY <1>1, <1>2, <1>3, SetupIsPlain, PlainKeeps
<1>4. CASE Start
  BY <1>1, <1>2, <1>4, StartKeepsEverybody
<1>5. CASE UsersPage
  BY <1>1, <1>2, <1>5, UsersPageIsPlain, PlainKeeps
<1>6. CASE AuthenticationPage
  <2>1. CASE \E s \in Sessions : CommitProvider(s)
    BY <1>1, <1>2, <2>1, CommitKeeps
  <2>2. CASE ~\E s \in Sessions : CommitProvider(s)
    BY <1>1, <1>2, <1>6, <2>2, AuthenticationPageIsPlain, PlainKeeps
  <2> QED
    BY <2>1, <2>2
<1>7. CASE CommandLine
  BY <1>1, <1>2, <1>7, CommandLineIsPlain, PlainKeeps
<1>8. CASE SignInPages
  BY <1>1, <1>2, <1>8, SignInPagesKeep
<1>9. CASE UNCHANGED vars
  <2>1. SameAccounts /\ StampsStay /\ users <= users'
    BY <1>2, <1>9 DEF SameAccounts, StampsStay, PersonTypes
  <2>2. Plain
    BY <1>2, <1>9, <2>1, AtOnceIsPlain
  <2> QED
    BY <1>1, <2>2, PlainKeeps
<1> QED
  BY <1>3, <1>4, <1>5, <1>6, <1>7, <1>8, <1>9 DEF Next

\* No account is ever signed in to by two people, however providers are deleted,
\* their ids given again, and sign-ins overtaken by either; except for one used
\* by a sign-in that outlived its provider.
THEOREM AccountsAreNobodyElses == Spec => []NobodyElsesAccount
<1>1. PersonInv => NobodyElsesAccount
  BY DEF PersonInv
<1> QED
  BY <1>1, PersonInit, PersonStep, PTL DEF Spec

=============================================================================
