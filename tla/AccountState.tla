----------------------------- MODULE AccountState -----------------------------
(***************************************************************************)
(* The accounts that people sign in with (table "users"), the identity     *)
(* providers they come from, and the requests that work on them.           *)
(*                                                                         *)
(* An account is its id, never given twice here; a username is a pair of   *)
(* what a person is called and a number, which _unique_username counts up. *)
(* People of a directory, or of an OpenID Connect provider, are known by   *)
(* what they are called there: the same word at another provider is another*)
(* person.                                                                 *)
(*                                                                         *)
(* A username is looked up with its case folded, but it is unique as it is *)
(* spelt: words are spellings, and the database may fold fewer letters than*)
(* Python does.                                                            *)
(***************************************************************************)
EXTENDS Integers, FiniteSets

CONSTANTS
  Databases,      \* the databases considered: "sqlite", "postgresql"
  Words,          \* what people are called, as it is spelt
  lower,          \* what lower() makes of a word in Python
  NonAscii,       \* the words with a capital letter outside of ASCII
  MaxNumber,      \* bound: the largest number in a username
  MaxUsers,       \* bound: how many accounts are ever created
  MaxProviders,   \* bound: how many providers of a kind are ever created
  Sessions,       \* requests that may be in progress at the same time
  NoSession       \* nobody is setting up

ASSUME AccountsAssumption ==
  /\ Databases \subseteq {"sqlite", "postgresql"}
  /\ Words \subseteq STRING /\ Words # {}
  /\ lower \in [Words -> Words]
  /\ \A w \in Words : lower[lower[w]] = lower[w]
  /\ NonAscii \subseteq {w \in Words : lower[w] # w}
  /\ MaxNumber \in Nat \ {0} /\ MaxUsers \in Nat \ {0, 1}
  /\ MaxProviders \in Nat \ {0}
  /\ NoSession \notin Sessions

VARIABLES
  database,     \* which of the databases it is
  \* The database:
  user,         \* users, by id
  users,        \* how many accounts were created
  provider,     \* ldap_profiles and oidc_providers, by kind and id
  created,      \* how many providers of each kind were created
  show_form,    \* the setting auth_show_local_form
  \* The requests and the start of a process:
  request,      \* what each session has read and not yet committed
  requests,     \* how many requests were begun
  setupLock,    \* the session that holds the lock of the setup
  boot,         \* what a starting process has read and not yet committed
  \* History, read by no action:
  setups,       \* how often a setup was completed
  usedBy,       \* the people that signed in with each account
  stray,        \* accounts used by a sign-in that outlived its provider
  crossed,      \* adopted while a request that had read them was in progress
  lateHide      \* the form was hidden by what no longer held

userVars     == <<user, users>>
providerVars == <<provider, created>>
formVars     == <<show_form, lateHide>>
requestVars  == <<request, requests>>
startVars    == <<setupLock, boot, setups, crossed>>
signInVars   == <<usedBy, stray>>

vars == <<database, userVars, providerVars, formVars, requestVars, startVars,
          signInVars>>

-----------------------------------------------------------------------------
(* Accounts *)

IS_SQLITE == database = "sqlite"

Users == 1..MaxUsers

Names == Words \X (1..MaxNumber)

\* "provider" and "ext" are "auth_provider_id" (0: none) and "external_id".
Rows ==
  [row : {"none", "live", "gone"}, name : Names, source : {"local", "ldap",
   "oidc"}, provider : 0..MaxProviders, ext : Words, admin : BOOLEAN,
   active : BOOLEAN, initial : BOOLEAN]

\* An account that was just made.  What the provider calls the person does not
\* matter to a local account: it has a name all the same.
Account(name, source, id, ext, admin) ==
  [row |-> "live", name |-> name, source |-> source, provider |-> id,
   ext |-> ext, admin |-> admin, active |-> TRUE, initial |-> FALSE]

NoUser ==
  [Account(CHOOSE n \in Names : TRUE, "local", 0, CHOOSE w \in Words : TRUE,
           FALSE) EXCEPT !.row = "none"]

Live(u) == user[u].row = "live"

LiveUsers == {u \in Users : Live(u)}

\* is_done: its cache tells nothing else, as the last account stays.
is_done == LiveUsers # {}

\* The account that has the name for the unique index.
Named(name) == {u \in LiveUsers : user[u].name = name}

\* What lower() makes of a word in the database: SQLite's knows ASCII only.
db_lower(w) == IF IS_SQLITE /\ w \in NonAscii THEN w ELSE lower[w]

\* "WHERE lower(username) = ?", with the name in lower case.
Matching(name) ==
  {u \in LiveUsers : /\ db_lower(user[u].name[1]) = lower[name[1]]
                     /\ user[u].name[2] = name[2]}

\* The first row of a result, if there is one.
FirstOf(S) == IF S = {} THEN {{}} ELSE {{u} : u \in S}

ActiveAdmins == {u \in LiveUsers : user[u].admin /\ user[u].active}

Initial == {u \in LiveUsers : user[u].initial}

\* The first of a set of accounts, in the order of their ids.
Oldest(S) == {u \in S : \A v \in S : u <= v}

\* A row is added, by the next id.
Insert(row) ==
  /\ users < MaxUsers
  /\ users' = users + 1
  /\ user' = [user EXCEPT ![users + 1] = row]

-----------------------------------------------------------------------------
(* Providers *)

Kinds == {"ldap", "oidc"}

Ids == 1..MaxProviders

\* "stamp" is the creation of the provider that has the id, 0 when none has;
\* "login": switched on, and for LDAP open to sign-in.
ProviderRows == [stamp : 0..MaxProviders, login : BOOLEAN, auto : BOOLEAN]

NoProvider == [stamp |-> 0, login |-> FALSE, auto |-> FALSE]

Providers(k) == {i \in Ids : provider[k][i].stamp # 0}

\* enabled_providers, login_profiles
Enabled(k) == {i \in Providers(k) : provider[k][i].login}

\* The id of the next provider.  SQLite takes one more than the largest there
\* is: for ldap_profiles, and for the oidc_providers of a database that is older
\* than sqlite_autoincrement in models.py.
IsNextId(k, i) ==
  IF IS_SQLITE THEN /\ i = 1 \/ i - 1 \in Providers(k)
                    /\ \A j \in Providers(k) : j < i
  ELSE i = created[k] + 1

\* can_hide_local_form, were the providers p: there is another way in, and LDAP
\* accounts, who use the form, have none to lose.
can_hide_local_form(p) ==
  /\ \E i \in Ids : p["oidc"][i].login
  /\ \A i \in Ids : ~p["ldap"][i].login

\* _login_page without ?local=1.
ShowsForm == show_form \/ Enabled("oidc") = {}

-----------------------------------------------------------------------------
(* Requests *)

Idle == [op |-> "idle"]

Busy(s) == request[s].op # "idle"

\* The changes of a session that has flushed are not committed: on SQLite
\* nobody else writes until they are.
MayWrite(s) ==
  IS_SQLITE => \A t \in Sessions \ {s} : request[t].op # "flushed"

\* What starting processes know: nothing, or an upgraded database is waiting
\* for the first of them.
NotBooting == [op |-> "idle", promote |-> 0, adopt |-> 0]
BootDue    == [op |-> "due", promote |-> 0, adopt |-> 0]

=============================================================================
