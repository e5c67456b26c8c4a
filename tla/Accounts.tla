------------------------------- MODULE Accounts -------------------------------
(***************************************************************************)
(* Accounts, providers and sign-in: the handlers, the start of a process   *)
(* and the command line over one database, and what must hold of them      *)
(* together.                                                               *)
(***************************************************************************)
EXTENDS SignIn

CONSTANTS
  Starts,    \* the databases considered: "fresh", "running", "upgraded"
  Typed,     \* bound: the words that are typed, or people are known by
  Claimed    \* bound: the words that OpenID Connect providers claim

ASSUME SpellingAssumption ==
  /\ Typed \subseteq Words /\ Claimed \subseteq Words
  /\ \E w \in Typed : lower[w] = w

\* The person whose account an upgraded database has.
Someone == CHOOSE w \in Typed : lower[w] = w

\* Nobody has ever signed in.
Fresh ==
  /\ user = [u \in Users |-> NoUser] /\ users = 0
  /\ created = [k \in Kinds |-> 0]
  /\ provider = [k \in Kinds |-> [i \in Ids |-> NoProvider]]
  /\ setups = 0
  /\ usedBy = [u \in Users |-> {}]
  /\ boot = NotBooting

One == [i \in Ids |-> IF i = 1 THEN Applied(1, TRUE, TRUE) ELSE NoProvider]

\* It is set up, with a provider of each kind; somebody else has signed in by
\* OpenID Connect.
Running ==
  /\ users = 2
  /\ \E other \in Typed \ {Someone} :
       /\ user = [u \in Users |->
                    IF u = 1
                    THEN [Account(<<Someone, 1>>, "local", 0, Someone, TRUE)
                            EXCEPT !.initial = TRUE]
                    ELSE IF u = 2
                    THEN Account(<<other, 1>>, "oidc", 1, other, FALSE)
                    ELSE NoUser]
       /\ usedBy = [u \in Users |->
                      IF u = 2 THEN {Person("oidc", 1, other)} ELSE {}]
  /\ created = [k \in Kinds |-> 1]
  /\ provider = [k \in Kinds |-> One]
  /\ setups = 1
  /\ boot = NotBooting

\* An older version has left a directory, an account of it and a local one,
\* either an administrator or not: nothing tells yet whose directory it is, nor
\* who is the initial administrator.
Upgraded ==
  /\ users = 2
  /\ \E first, second \in BOOLEAN,
        name \in (Typed \X (1..MaxNumber)) \ {<<Someone, 1>>} :
       user = [u \in Users |->
                 IF u = 1 THEN Account(<<Someone, 1>>, "ldap", 0, Someone, first)
                 ELSE IF u = 2
                 THEN Account(name, "local", 0, Someone, second)
                 ELSE NoUser]
  /\ created = [k \in Kinds |-> IF k = "ldap" THEN 1 ELSE 0]
  /\ provider = [k \in Kinds |-> IF k = "ldap" THEN One
                                 ELSE [i \in Ids |-> NoProvider]]
  /\ setups = 0
  /\ usedBy = [u \in Users |-> IF u = 1 THEN {Person("ldap", 1, Someone)} ELSE {}]
  /\ boot = BootDue

Init ==
  /\ database \in Databases
  /\ \/ "fresh" \in Starts /\ Fresh
     \/ "running" \in Starts /\ Running
     \/ "upgraded" \in Starts /\ Upgraded
  /\ show_form = TRUE /\ lateHide = FALSE
  /\ request = [s \in Sessions |-> Idle] /\ requests = 0
  /\ setupLock = NoSession
  /\ stray = {} /\ crossed = {}

Setup ==
  \E s \in Sessions :
    \/ create_initial_admin(s)
    \/ \E w \in Typed : CommitSetup(s, <<w, 1>>)
    \/ AbortSetup(s)

Start == bootstrap \/ CommitBootstrap

\* The Users page; new local accounts have names without a number.
UsersPage ==
  \E s \in Sessions :
    \/ \E me \in ActiveAdmins, u \in LiveUsers :
         \/ delete_user(s, me, u)
         \/ \E admin, active \in BOOLEAN : update(s, me, u, admin, active)
    \/ CommitUpdate(s)
    \/ CommitDelete(s)
    \/ \E me \in ActiveAdmins, w \in Typed, admin \in BOOLEAN :
         create(me, <<w, 1>>, admin)

AuthenticationPage ==
  \E s \in Sessions :
    \/ \E me \in ActiveAdmins :
         \/ show_local_form(me)
         \/ set_local_form(s, me)
         \/ \E k \in Kinds, i \in Ids :
              \/ delete_provider(s, me, k, i)
              \/ \E on, auto \in BOOLEAN :
                   \/ create_provider(s, me, k, i, on, auto)
                   \/ update_provider(s, me, k, i, on, auto)
    \/ CommitHide(s)
    \/ SaveProvider(s)
    \/ SaveNothing(s)
    \/ SaveUnchanged(s)
    \/ CommitProvider(s)

CommandLine ==
  \/ \E u \in Users : set_password(u) \/ reset_initial_admin(u) \/ promote(u)
  \/ \E w \in Typed : create_admin(<<w, 1>>)
  \/ disable_ldap_login
  \/ disable_sso

SignInPages ==
  \E s \in Sessions :
    \/ \E w \in Typed : login(s, w)
    \/ RejectLogin(s)
    \/ \E i \in Ids, w \in Typed : oidc_callback(s, i, w)
    \/ \E w \in Claimed : ChooseName(s, w)
    \/ RejectCallback(s)
    \/ \E verdict \in Verdicts :
         FindAccount(s, verdict) \/ InsertAccount(s, verdict)
    \/ request[s].op = "ldap" /\ \E p \in request[s].profiles, rights \in BOOLEAN :
         sync_user(s, p, rights)

Next ==
  \/ Setup
  \/ Start
  \/ UsersPage
  \/ AuthenticationPage
  \/ CommandLine
  \/ SignInPages

Spec == Init /\ [][Next]_vars

-----------------------------------------------------------------------------
(* Properties *)

\* What a session holds of the database, by what it is doing.
Requests ==
  [op : {"idle", "setup", "hide"}] \cup
  [op : {"delete"}, id : Users] \cup
  [op : {"update"}, id : Users, admin : BOOLEAN, active : BOOLEAN,
   was_admin : BOOLEAN, was_active : BOOLEAN] \cup
  [op : {"edit"}, kind : Kinds, id : Ids, was : ProviderRows,
   form : ProviderRows] \cup
  [op : {"flushed"}, kind : Kinds, id : Ids, row : ProviderRows,
   cut : SUBSET Users, shows : BOOLEAN] \cup
  [op : {"ldap"}, word : Words, profiles : SUBSET (Ids \X ProviderRows),
   rows : [Users -> Rows], account : SUBSET Users] \cup
  [op : {"oidc"}, id : Ids, stamp : 1..MaxProviders, auto : BOOLEAN,
   ext : Words, attempt : 1..3] \cup
  [op : {"insert"}, id : Ids, stamp : 1..MaxProviders, auto : BOOLEAN,
   ext : Words, attempt : 1..3, name : Names, since : 0..MaxUsers]

\* Every variable has its type; the session that sets up holds the lock, and an
\* OpenID Connect sign-in is tried three times at most.
TypeOK ==
  /\ database \in Databases
  /\ user \in [Users -> Rows] /\ users \in 0..MaxUsers
  /\ provider \in [Kinds -> [Ids -> ProviderRows]]
  /\ created \in [Kinds -> 0..MaxProviders]
  /\ show_form \in BOOLEAN /\ lateHide \in BOOLEAN
  /\ DOMAIN request = Sessions
  /\ \A s \in Sessions : request[s] \in Requests
  /\ requests \in 0..MaxRequests
  /\ setupLock \in Sessions \cup {NoSession}
  /\ \A s \in Sessions : request[s].op = "setup" => setupLock = s
  /\ boot \in [op : {"idle", "due", "reads", "migrates"},
               promote : Users \cup {0}, adopt : Users \cup {0}]
  /\ setups \in Nat
  /\ usedBy \in [Users -> SUBSET (Kinds \X (1..MaxProviders) \X Words)]
  /\ stray \subseteq Users /\ crossed \subseteq Users

IsWayIn(u) ==
  Live(u) /\ user[u].source = "local" /\ user[u].admin /\ user[u].active

\* First-run setup is done once, however many have opened its page, and there
\* is an initial administrator with access ever after: "It is the guaranteed way
\* in" (models.py:82-84, setup.py:41-47).
GuaranteedWayIn ==
  /\ setups <= 1
  /\ setups = 1 => \E u \in Initial : IsWayIn(u)

\* An initial administrator with access keeps it, whatever the pages do at the
\* same time, sign-ins and their groups included.  Except for one adopted while
\* a request was working on it as one that is not protected.  (users.py:185-193,
\* 211-227.)
InitialAdminKeepsAccess ==
  [][\A u \in Initial \ crossed : IsWayIn(u) => IsWayIn(u)']_vars

\* No account is signed in to by two people: not by the same name in a second
\* directory, nor by one in a provider that was given the id of a deleted one.
\* Except for an account that a sign-in has used when its provider was already
\* gone.  (ldap_auth.py:321-328, auth_providers.py:392-396.)
NobodyElsesAccount ==
  \A u \in Users \ stray : \A a, b \in usedBy[u] : a = b

\* A name that lower() folds in the database as in Python: any on PostgreSQL, and
\* on SQLite any without a capital letter outside of ASCII.
IsFolded(name) == db_lower(name[1]) = lower[name[1]]

\* A new account's insert fails only because another account was made since its
\* name was chosen: trying again is not in vain.  Except on SQLite for a name
\* that lower() does not fold there: it is never found taken, fails at every try,
\* and its owner gets no "name-2".  (oidc_auth.py:244-283.)
RetriesHaveACause ==
  [][\A s \in Sessions :
       /\ request[s].op = "insert" /\ request'[s] # request[s]
       /\ users' = users /\ IsFolded(request[s].name)
       => users > request[s].since]_vars

\* While directories are open to sign-in, their people find the form.  Except
\* when hiding it has crossed a change of the providers.  (auth_providers.py:59-67.)
FormIsThere == Enabled("ldap") # {} /\ ~lateHide => ShowsForm

=============================================================================
