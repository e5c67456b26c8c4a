-------------------------------- MODULE SignIn --------------------------------
(***************************************************************************)
(* Signing in through a directory (app/services/auth.py, ldap_auth.py) and *)
(* through OpenID Connect (app/services/oidc_auth.py, app/routers/auth.py).*)
(* Both read the provider, wait for its answer, and then find or make the  *)
(* account.  A local password changes no state that is modelled.           *)
(***************************************************************************)
EXTENDS AccountRequests

\* The person a provider answers with.
Person(k, stamp, ext) == <<k, stamp, ext>>

\* Somebody signs in with an account.  Did the provider outlast the sign-in?
SignsIn(u, person, id) ==
  /\ usedBy' = [usedBy EXCEPT ![u] = @ \cup {person}]
  /\ stray' = IF provider[person[1]][id].stamp = person[2] THEN stray
              ELSE stray \cup {u}

\* A sign-in that ends with nobody signed in.
Refused(s) ==
  /\ Done(s)
  /\ UNCHANGED <<userVars, signInVars>>

NotSignIn == <<database, providerVars, formVars, requests, startVars>>

-----------------------------------------------------------------------------
(* Directories *)

\* authenticate: an account of that name that is not local, or none, and the
\* directories open to sign-in, as they are now ...
login(s, word) ==
  /\ Open("login")
  /\ Enabled("ldap") # {}
  /\ \E found \in FirstOf(Matching(<<word, 1>>)) :
       /\ \A u \in found : user[u].source # "local"
       /\ Reads(s, [op |-> "ldap", word |-> word,
                    profiles |-> {<<i, provider["ldap"][i]>> :
                                    i \in Enabled("ldap")},
                    rows |-> user, account |-> found])
  /\ UNCHANGED <<database, userVars, providerVars, formVars, startVars,
                 signInVars>>

\* (Mistake: whichever directory vouches for the name.)
MaySignIn_Anyone(row, i) == row.source = "ldap" /\ row.active

\* sync_user lets an account in: one of this very directory, and not disabled.
MaySignIn(row, i) ==
  /\ row.source = "ldap"
  /\ row.provider = i
  /\ row.active

\* ... and sync_user, once one of them has accepted the password, which it does
\* for ASCII names only.  A row that was read before it answered is still what it
\* was then.  Rights are given here, never taken.
sync_user(s, p, is_admin) ==
  LET r    == request[s]
      name == <<r.word, 1>>
      row(u) == IF u \in r.account THEN r.rows[u] ELSE user[u]
      person == Person("ldap", p[2].stamp, lower[r.word])
  IN  /\ r.op = "ldap"
      /\ p \in r.profiles
      /\ r.word \notin NonAscii
      /\ MayWrite(s)
      /\ \/ /\ Matching(name) = {}
            /\ IF p[2].auto /\ Named(name) = {}
               THEN /\ Insert(Account(name, "ldap", p[1], lower[r.word],
                                      is_admin))
                    /\ SignsIn(users + 1, person, p[1])
                    /\ Done(s)
               ELSE Refused(s)
         \/ \E u \in Matching(name) :
              IF MaySignIn(row(u), p[1])
              THEN /\ user' = [user EXCEPT ![u].admin =
                                 @ \/ (is_admin /\ ~row(u).admin)]
                   /\ SignsIn(u, person, p[1])
                   /\ Done(s)
                   /\ UNCHANGED users
              ELSE Refused(s)
      /\ UNCHANGED NotSignIn

\* None of them has.
RejectLogin(s) ==
  /\ request[s].op = "ldap"
  /\ Refused(s)
  /\ UNCHANGED NotSignIn

-----------------------------------------------------------------------------
(* OpenID Connect *)

\* oidc_callback: the provider, as it is now, is asked who it is ...
oidc_callback(s, i, ext) ==
  /\ Open("callback")
  /\ i \in Enabled("oidc")
  /\ Reads(s, [op |-> "oidc", id |-> i, stamp |-> provider["oidc"][i].stamp,
               auto |-> provider["oidc"][i].auto, ext |-> ext, attempt |-> 1])
  /\ UNCHANGED <<database, userVars, providerVars, formVars, startVars,
                 signInVars>>

\* The account of a person at the provider of that id.
Known(id, ext) ==
  {u \in LiveUsers : /\ user[u].source = "oidc"
                     /\ user[u].provider = id /\ user[u].ext = ext}

\* (Mistake: the name is taken as it comes.)
_unique_username_AsIs(w) == <<w, 1>>

\* _unique_username: the first that nobody's matches.
_unique_username(w) ==
  LET free == {n \in 1..MaxNumber : Matching(<<w, n>>) = {}}
  IN  <<w, CHOOSE n \in free : \A m \in free : n <= m>>

\* With an admin group, the provider says who is an administrator, both ways.
ByGroup(verdict, was) ==
  IF verdict = "no group" THEN was ELSE verdict = "member"

Verdicts == {"no group", "member", "outsider"}

\* ... and provision_user looks for the account ...
FindAccount(s, verdict) ==
  LET r == request[s]
  IN  /\ r.op = "oidc"
      /\ MayWrite(s)
      /\ \E u \in Known(r.id, r.ext) :
           IF user[u].active
           THEN /\ user' = [user EXCEPT ![u].admin = ByGroup(verdict, @)]
                /\ SignsIn(u, Person("oidc", r.stamp, r.ext), r.id)
                /\ Done(s)
                /\ UNCHANGED users
           ELSE Refused(s)
      /\ UNCHANGED NotSignIn

\* ... or chooses a name for a new one ...
ChooseName(s, w) ==
  LET r == request[s]
  IN  /\ r.op = "oidc"
      /\ Known(r.id, r.ext) = {}
      /\ IF r.auto
         THEN /\ \E n \in 1..MaxNumber : Matching(<<w, n>>) = {}
              /\ request' =
                   [request EXCEPT ![s] =
                      [op |-> "insert", id |-> r.id, stamp |-> r.stamp,
                       auto |-> r.auto, ext |-> r.ext, attempt |-> r.attempt,
                       name |-> _unique_username(w), since |-> users]]
              /\ UNCHANGED <<userVars, signInVars>>
         ELSE Refused(s)
      /\ UNCHANGED NotSignIn

\* The unique indexes have the name, as it is spelt, or the identity already.
Clash(r) == Named(r.name) # {} \/ Known(r.id, r.ext) # {}

\* ... and inserts it.  After a clash it looks again, three times in all, and
\* the rollback has it read the provider again.
InsertAccount(s, verdict) ==
  LET r == request[s]
      p == provider["oidc"][r.id]
  IN  /\ r.op = "insert"
      /\ MayWrite(s)
      /\ \/ /\ ~Clash(r)
            /\ Insert(Account(r.name, "oidc", r.id, r.ext,
                              ByGroup(verdict, FALSE)))
            /\ SignsIn(users + 1, Person("oidc", r.stamp, r.ext), r.id)
            /\ Done(s)
         \/ /\ Clash(r)
            /\ IF r.attempt < 3 /\ p.stamp # 0
               THEN /\ request' =
                         [request EXCEPT ![s] =
                            [op |-> "oidc", id |-> r.id, stamp |-> r.stamp,
                             auto |-> p.auto, ext |-> r.ext,
                             attempt |-> r.attempt + 1]]
                    /\ UNCHANGED <<userVars, signInVars>>
               ELSE Refused(s)
      /\ UNCHANGED NotSignIn

\* The provider has not answered, or not well.
RejectCallback(s) ==
  /\ request[s].op = "oidc" /\ request[s].attempt = 1
  /\ Refused(s)
  /\ UNCHANGED NotSignIn

=============================================================================
