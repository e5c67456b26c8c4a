--------------------------- MODULE ImportingProofs ---------------------------
(***************************************************************************)
(* What imports promise, for every file, paste and directory and not only  *)
(* for those of the runs: the properties of ImportPages.                   *)
(*                                                                         *)
(* An import is a loop.  Its recursive function is shown to exist by       *)
(* building it turn by turn (Looping), and what every turn keeps is kept   *)
(* by the loop by induction over the set of the turns that keep it         *)
(* (StepByStep), which is a least-counterexample argument about numbers.   *)
(***************************************************************************)
EXTENDS ImportPages, FiniteSetTheorems, SequenceTheorems, WellFoundedInduction,
        TLAPS

USE DEF Addresses

-----------------------------------------------------------------------------
(* Numbers and sequences *)

\* A set of numbers has a least one.
LEMMA LeastNumber ==
  ASSUME NEW S \in SUBSET Nat, S # {}
  PROVE  \E n \in S : \A m \in S : n <= m
<1>1. \E x \in S : \A y \in S : ~(<<y, x>> \in OpToRel(<, Nat))
  BY NatLessThanWellFounded, WFMin
<1>2. \A x, y \in Nat : y < x => <<y, x>> \in OpToRel(<, Nat)
  BY DEF OpToRel
<1>3. PICK n \in S : \A m \in S : ~(m < n)
  BY <1>1, <1>2
<1> QED
  BY <1>3

\* Induction up to N, for a set instead of a predicate.
LEMMA StepByStep ==
  ASSUME NEW N \in Nat, NEW S, 0 \in S,
         \A n \in 1..N : n - 1 \in S => n \in S
  PROVE  0..N \subseteq S
<1> DEFINE bad == {n \in 0..N : n \notin S}
<1>1. SUFFICES ASSUME bad # {} PROVE FALSE
  OBVIOUS
<1>2. bad \in SUBSET Nat
  OBVIOUS
<1>3. \E n \in bad : \A m \in bad : n <= m
  <2> HIDE DEF bad
  <2> QED
    BY <1>1, <1>2, LeastNumber
<1>4. PICK n \in bad : \A m \in bad : n <= m
  BY <1>3
<1>5. n # 0 /\ n \in 1..N
  BY <1>4
<1>6. n - 1 \notin bad
  BY <1>4, <1>5
<1> QED
  BY <1>4, <1>5, <1>6

\* A bounded set of numbers has a greatest one, and Max finds it.
LEMMA GreatestNumber ==
  ASSUME NEW S \in SUBSET Nat, S # {}, NEW N \in Nat, \A m \in S : m <= N
  PROVE  Max(S) \in S /\ \A m \in S : m <= Max(S)
<1> DEFINE bounds == {n \in Nat : \A m \in S : m <= n}
<1>1. N \in bounds /\ bounds \in SUBSET Nat
  OBVIOUS
<1>2. \E n \in bounds : \A m \in bounds : n <= m
  <2> HIDE DEF bounds
  <2> QED
    BY <1>1, LeastNumber
<1>3. PICK n \in bounds : \A m \in bounds : n <= m
  BY <1>2
<1>4. n \in S
  <2>1. SUFFICES ASSUME n \notin S PROVE FALSE
    OBVIOUS
  <2>a. PICK m : m \in S
    OBVIOUS
  <2>2. n # 0
    <3>1. m \in Nat /\ m # n /\ m <= n /\ n \in Nat
      BY <1>3, <2>1, <2>a
    <3> QED
      BY <3>1
  <2>3. n - 1 \in bounds
    BY <1>3, <2>1, <2>2
  <2> QED
    BY <1>3, <2>3
<1>5. \E x \in S : \A y \in S : x >= y
  BY <1>3, <1>4
<1> QED
  BY <1>5 DEF Max

\* What every turn of a loop over N things makes of a T, and the T there is
\* after each of them.
Turns(N, T) == [1..N -> [T -> T]]

Iterates(f, N, T, base, turn) ==
  /\ f \in [0..N -> T]
  /\ f[0] = base
  /\ \A n \in 1..N : f[n] = turn[n][f[n - 1]]

\* A loop has a result: what its recursive function says is a function.
LEMMA Looping ==
  ASSUME NEW N \in Nat, NEW T, NEW base \in T, NEW turn \in Turns(N, T)
  PROVE  \E f : Iterates(f, N, T, base, turn)
<1> DEFINE Fits(f, k) == /\ f[0] = base
                         /\ \A n \in 1..k : f[n] = turn[n][f[n - 1]]
           good == {k \in 0..N : \E f \in [0..N -> T] : Fits(f, k)}
<1>0. turn \in [1..N -> [T -> T]]
  BY DEF Turns
<1>1. 0 \in good
  <2>1. [n \in 0..N |-> base] \in [0..N -> T] /\ Fits([n \in 0..N |-> base], 0)
    OBVIOUS
  <2>2. 0 \in 0..N
    OBVIOUS
  <2> HIDE DEF Fits
  <2> QED
    BY <2>1, <2>2
<1>2. ASSUME NEW k \in 1..N, k - 1 \in good PROVE k \in good
  <2>1. PICK f \in [0..N -> T] : Fits(f, k - 1)
    BY <1>2
  <2> DEFINE g == [f EXCEPT ![k] = turn[k][f[k - 1]]]
  <2>2. g \in [0..N -> T]
    BY <1>0
  <2>3. g[0] = base
    BY <2>1
  <2>4. ASSUME NEW n \in 1..k PROVE g[n] = turn[n][g[n - 1]]
    <3>1. CASE n = k
      BY <3>1
    <3>2. CASE n # k
      BY <3>2, <2>1
    <3> QED
      BY <3>1, <3>2
  <2>5. Fits(g, k)
    BY <2>3, <2>4
  <2>6. k \in 0..N
    OBVIOUS
  <2> HIDE DEF Fits, g
  <2> QED
    BY <2>2, <2>5, <2>6
<1>3. N \in good
  <2>1. \A k \in 1..N : k - 1 \in good => k \in good
    BY <1>2
  <2> HIDE DEF good
  <2>2. 0..N \subseteq good
    BY <1>1, <2>1, StepByStep
  <2> QED
    BY <2>2
<1> QED
  BY <1>3 DEF Iterates

\* Picked takes the elements at the places it is given, in order, and no others.
InOrder(order, N, M) ==
  /\ order \in [1..N -> 1..M]
  /\ \A i, j \in 1..N : i < j => order[i] < order[j]

\* What Picked returns: the order in which it visits the places it is given
\* leaves none of them out and goes to no other.
LEMMA PickedIs ==
  ASSUME NEW T, NEW seq \in Seq(T), NEW places
  PROVE  /\ Picked(seq, places) \in Seq(T)
         /\ \E order :
              /\ InOrder(order, Len(Picked(seq, places)), Len(seq))
              /\ \A k \in 1..Len(Picked(seq, places)) :
                   /\ order[k] \in places
                   /\ Picked(seq, places)[k] = seq[order[k]]
              /\ \A i \in places \cap 1..Len(seq) :
                   \E k \in 1..Len(Picked(seq, places)) : order[k] = i
<1> DEFINE N == Len(seq)
           all == Seq(T)
           none == <<>>
           turn == [n \in 1..N |-> [s \in all |->
                      IF n \in places THEN Append(s, seq[n]) ELSE s]]
           upto[n \in 0..Len(seq)] ==
             IF n = 0 THEN <<>>
             ELSE IF n \in places THEN Append(upto[n - 1], seq[n])
             ELSE upto[n - 1]
<1>0. N \in Nat /\ none \in all
  OBVIOUS
<1>1. turn \in Turns(N, all)
  BY DEF Turns
<1>2. PICK f : Iterates(f, N, all, none, turn)
  <2> HIDE DEF turn, N, all, none
  <2> QED
    BY <1>0, <1>1, Looping
<1>3. /\ f \in [0..N -> all] /\ f[0] = <<>>
      /\ \A n \in 1..N : f[n] = IF n \in places THEN Append(f[n - 1], seq[n])
                                ELSE f[n - 1]
  <2>1. /\ f \in [0..N -> all] /\ f[0] = <<>>
        /\ \A n \in 1..N : f[n] = turn[n][f[n - 1]]
    BY <1>2 DEF Iterates
  <2>2. \A n \in 1..N, s \in all :
          turn[n][s] = IF n \in places THEN Append(s, seq[n]) ELSE s
    OBVIOUS
  <2> HIDE DEF turn, all
  <2>3. \A n \in 1..N : f[n - 1] \in all
    <3>1. \A n \in 1..N : n - 1 \in 0..N
      OBVIOUS
    <3> HIDE DEF N
    <3> QED
      BY <2>1, <3>1, Zenon
  <2> QED
    BY <2>1, <2>2, <2>3
<1>4. f = [n \in 0..Len(seq) |->
             IF n = 0 THEN <<>>
             ELSE IF n \in places THEN Append(f[n - 1], seq[n])
             ELSE f[n - 1]]
  <2> HIDE DEF turn
  <2>1. \A n \in 0..N : n # 0 => n \in 1..N
    OBVIOUS
  <2> QED
    BY <1>3, <2>1
<1>5. upto = [n \in 0..Len(seq) |->
             IF n = 0 THEN <<>>
             ELSE IF n \in places THEN Append(upto[n - 1], seq[n])
             ELSE upto[n - 1]]
  BY <1>4, Zenon
<1>6. Picked(seq, places) = upto[N]
  BY DEF Picked
<1> DEFINE Fits(s, order, n) ==
             /\ InOrder(order, Len(s), n)
             /\ \A k \in 1..Len(s) : order[k] \in places /\ s[k] = seq[order[k]]
             /\ \A i \in places \cap 1..n : \E k \in 1..Len(s) : order[k] = i
           good == {n \in 0..N : /\ upto[n] \in all
                                 /\ \E order : Fits(upto[n], order, n)}
<1>7. /\ upto[0] = <<>>
      /\ \A n \in 1..N : upto[n] = IF n \in places THEN Append(upto[n - 1], seq[n])
                                   ELSE upto[n - 1]
  <2> HIDE DEF upto
  <2>1. \A n \in 0..N :
          upto[n] = IF n = 0 THEN <<>>
                    ELSE IF n \in places THEN Append(upto[n - 1], seq[n])
                    ELSE upto[n - 1]
    BY <1>5, Zenon
  <2>2. \A n \in 1..N : n \in 0..N /\ n # 0
    OBVIOUS
  <2> QED
    BY <1>0, <2>1, <2>2
<1> HIDE DEF upto
<1>8. 0 \in good
  <2>1. Fits(<<>>, <<>>, 0)
    BY DEF InOrder
  <2>2. 0 \in 0..N
    OBVIOUS
  <2> HIDE DEF Fits
  <2> QED
    BY <1>0, <1>7, <2>1, <2>2
<1>9. ASSUME NEW n \in 1..N, n - 1 \in good PROVE n \in good
  <2> DEFINE s == upto[n - 1]
  <2>1. PICK order : s \in all /\ Fits(s, order, n - 1)
    BY <1>9
  <2>2. n \in 0..N /\ n - 1 \in Nat
    OBVIOUS
  <2> HIDE DEF s
  <2>3. CASE n \notin places
    <3>1. upto[n] = s
      BY <1>7, <2>3 DEF s
    <3>2. InOrder(order, Len(s), n)
      BY <2>1, <2>2 DEF InOrder
    <3>3. Fits(s, order, n)
      BY <2>1, <3>2, <2>3
    <3> HIDE DEF Fits
    <3> QED
      BY <2>1, <2>2, <3>1, <3>3
  <2>4. CASE n \in places
    <3> DEFINE longer == Append(s, seq[n])
               L == Len(s)
               next == [k \in 1..(L + 1) |-> IF k = L + 1 THEN n ELSE order[k]]
    <3>1. upto[n] = longer
      BY <1>7, <2>4 DEF s
    <3>2. /\ L \in Nat /\ longer \in all /\ Len(longer) = L + 1
          /\ longer[L + 1] = seq[n] /\ \A k \in 1..L : longer[k] = s[k]
      BY <2>1
    <3>3. /\ order \in [1..L -> 1..(n - 1)]
          /\ \A i, j \in 1..L : i < j => order[i] < order[j]
      BY <2>1 DEF InOrder
    <3> HIDE DEF longer, L
    <3>4. next \in [1..(L + 1) -> 1..n]
      BY <3>2, <3>3
    <3>5. \A i, j \in 1..(L + 1) : i < j => next[i] < next[j]
      BY <3>2, <3>3
    <3>6. \A k \in 1..(L + 1) : next[k] \in places /\ longer[k] = seq[next[k]]
      BY <2>1, <2>4, <3>2 DEF L
    <3>7. \A i \in places \cap 1..n : \E k \in 1..(L + 1) : next[k] = i
      <4> SUFFICES ASSUME NEW i \in places \cap 1..n
                   PROVE  \E k \in 1..(L + 1) : next[k] = i
        OBVIOUS
      <4>1. CASE i = n
        BY <3>2, <4>1
      <4>2. CASE i # n
        <5>1. PICK k \in 1..L : order[k] = i
          BY <2>1, <4>2 DEF L
        <5> QED
          BY <3>2, <5>1
      <4> QED
        BY <4>1, <4>2
    <3>8. Fits(longer, next, n)
      <4> HIDE DEF next
      <4> QED
        BY <3>2, <3>4, <3>5, <3>6, <3>7 DEF InOrder
    <3> HIDE DEF Fits, next
    <3> QED
      BY <2>2, <3>1, <3>2, <3>8
  <2> QED
    BY <2>3, <2>4
<1>10. N \in good
  <2>1. \A n \in 1..N : n - 1 \in good => n \in good
    BY <1>9
  <2> HIDE DEF good
  <2>2. 0..N \subseteq good
    BY <1>0, <1>8, <2>1, StepByStep
  <2> QED
    BY <1>0, <2>2
<1>11. PICK order : upto[N] \in all /\ Fits(upto[N], order, N)
  <2> HIDE DEF Fits, N, all
  <2> QED
    BY <1>10
<1>12. Picked(seq, places) \in Seq(T)
  <2> HIDE DEF N
  <2> QED
    BY <1>6, <1>11, Zenon
<1>13. Fits(Picked(seq, places), order, Len(seq))
  <2> HIDE DEF Fits
  <2> QED
    BY <1>6, <1>11, Zenon
<1> QED
  BY <1>12, <1>13

-----------------------------------------------------------------------------
(* One recipient and one row *)

Sources == {"manual", "csv", "ldap"}

\* extra_json carries the DN next to the column: upsert_recipient writes both
\* or neither, and no page edits either of them.
DnAgrees(r) == r.extra["ldap_dn"] = r.ldap_dn

\* Overwriting a recipient leaves a recipient.
LEMMA OverwrittenType ==
  ASSUME NEW r \in Recipients, NEW row \in Rows, NEW source \in Sources
  PROVE  Overwritten(r, row, source) \in Recipients
<1>1. \A f \in Core : Or(row[f], r.core[f]) \in Cells
  BY DEF Or, Rows, Fields, Recipients
<1>2. \A f \in Custom : Or(row[f], r.extra[f]) \in Cells
  BY DEF Or, Rows, Fields, Recipients
<1>3. Or(row["ldap_dn"], r.ldap_dn) \in Cells
  BY ImportingAssumption DEF Or, Rows, Fields, Recipients
<1> QED
  BY <1>1, <1>2, <1>3 DEF Overwritten, Recipients, Sources

\* An import creates recipients whose DN agrees, and keeps it so.
LEMMA DnKeepsAgreeing ==
  ASSUME NEW r \in Recipients, NEW row \in Rows, NEW source \in Sources,
         DnAgrees(r)
  PROVE  /\ DnAgrees(Overwritten(r, row, source))
         /\ DnAgrees(Created(row, source))
<1>1. "ldap_dn" \in Custom
  BY ImportingAssumption
<1> QED
  BY <1>1 DEF DnAgrees, Overwritten, Created, Or, Recipients

\* The preview and the import agree: _would_change, which the review page
\* counts with, tells exactly the recipients upsert_recipient would change.
THEOREM PreviewTellsTheTruth ==
  ASSUME NEW r \in Recipients, NEW row \in Rows, NEW source \in Sources,
         DnAgrees(r)
  PROVE  would_change(r, row, source) <=> Overwritten(r, row, source) # r
<1> DEFINE new == Overwritten(r, row, source)
<1>1. /\ r.core = [f \in Core |-> r.core[f]]
      /\ r.extra = [f \in Custom |-> r.extra[f]]
  BY DEF Recipients
<1>2. /\ new.core = [f \in Core |-> Or(row[f], r.core[f])]
      /\ new.extra = [f \in Custom |-> Or(row[f], r.extra[f])]
      /\ new.ldap_dn = Or(row["ldap_dn"], r.ldap_dn)
      /\ new.source = IF source = "ldap" THEN "ldap" ELSE r.source
      /\ new.suppressed = r.suppressed
      /\ new.lists = r.lists
  BY DEF Overwritten, Recipients
<1>3. new \in Recipients
  BY OverwrittenType
<1>4. new # r <=> \/ new.core # r.core
                  \/ new.extra # r.extra
                  \/ new.ldap_dn # r.ldap_dn
                  \/ new.source # r.source
  BY <1>2, <1>3 DEF Recipients
<1>5. new.core # r.core <=>
        \E f \in Core : row[f] # Blank /\ r.core[f] # row[f]
  BY <1>1, <1>2 DEF Or
<1>6. new.extra # r.extra <=>
        \E f \in Custom : row[f] # Blank /\ r.extra[f] # row[f]
  BY <1>1, <1>2 DEF Or
<1>7. new.ldap_dn # r.ldap_dn <=>
        row["ldap_dn"] # Blank /\ r.ldap_dn # row["ldap_dn"]
  BY <1>2 DEF Or
<1>8. new.source # r.source <=> source = "ldap" /\ r.source # "ldap"
  BY <1>2
<1>9. "ldap_dn" \in Custom /\ r.extra["ldap_dn"] = r.ldap_dn
  BY ImportingAssumption DEF DnAgrees
<1> QED
  BY <1>4, <1>5, <1>6, <1>7, <1>8, <1>9 DEF would_change

\* Importing a row twice is importing it once: after upsert_recipient the same
\* row finds nothing left to change.
THEOREM OverwritingSettles ==
  ASSUME NEW r \in Recipients, NEW row \in Rows, NEW source \in Sources
  PROVE  LET new == Overwritten(r, row, source)
         IN  Overwritten(new, row, source) = new
<1> DEFINE new == Overwritten(r, row, source)
           again == Overwritten(new, row, source)
<1>1. new \in Recipients /\ again \in Recipients
  BY OverwrittenType
<1>2. again.core = new.core
  BY DEF Overwritten, Or, Recipients
<1>3. again.extra = new.extra
  BY DEF Overwritten, Or, Recipients
<1>4. /\ again.ldap_dn = new.ldap_dn /\ again.source = new.source
      /\ again.suppressed = new.suppressed /\ again.lists = new.lists
  BY DEF Overwritten, Or, Recipients
<1> QED
  BY <1>1, <1>2, <1>3, <1>4 DEF Recipients

\* One row cannot take a recipient off the suppression list, take it out of a
\* list, blank a text or touch anybody else.
THEOREM UpsertLosesNothing ==
  ASSUME NEW book0 \in Books, NEW row \in Rows, NEW source \in Sources,
         NEW overwrite \in BOOLEAN, NEW e \in Addresses, book0[e] # Absent
  PROVE  LET new == upsert_recipient(book0, row, source, overwrite).book[e]
         IN  /\ new \in Recipients
             /\ new.suppressed = book0[e].suppressed
             /\ new.lists = book0[e].lists
             /\ \A f \in Core : book0[e].core[f] # Blank => new.core[f] # Blank
             /\ new # book0[e] => overwrite /\ address[row["email"]] = e
<1> DEFINE x == address[row["email"]]
           old == book0[e]
           up == upsert_recipient(book0, row, source, overwrite)
<1>0. old \in Recipients
  BY DEF Books
<1>1. ASSUME up.book[e] = old
      PROVE  /\ up.book[e] \in Recipients
             /\ up.book[e].suppressed = old.suppressed
             /\ up.book[e].lists = old.lists
             /\ \A f \in Core : old.core[f] # Blank => up.book[e].core[f] # Blank
             /\ up.book[e] # old => overwrite /\ x = e
  BY <1>0, <1>1
<1>2. CASE x \notin Emails
  <2>1. up.book = book0
    BY <1>2 DEF upsert_recipient, normalise_email
  <2> QED
    BY <2>1, <1>1
<1>3. CASE x \in Emails /\ x # e
  <2>1. up.book[e] = old
    BY <1>3 DEF upsert_recipient, normalise_email, Books
  <2> QED
    BY <2>1, <1>1
<1>4. CASE x \in Emails /\ x = e
                /\ (~overwrite \/ Overwritten(old, row, source) = old)
  <2>1. up.book = book0
    BY <1>4 DEF upsert_recipient, normalise_email
  <2> QED
    BY <2>1, <1>1
<1>5. CASE x \in Emails /\ x = e
                /\ overwrite /\ Overwritten(old, row, source) # old
  <2>1. up.book[e] = Overwritten(old, row, source)
    BY <1>5 DEF upsert_recipient, normalise_email, Books
  <2>2. Overwritten(old, row, source) \in Recipients
    BY <1>0, OverwrittenType
  <2>3. /\ Overwritten(old, row, source).suppressed = old.suppressed
        /\ Overwritten(old, row, source).lists = old.lists
        /\ \A f \in Core : old.core[f] # Blank =>
             Overwritten(old, row, source).core[f] # Blank
    BY <1>0 DEF Overwritten, Or, Recipients
  <2> QED
    BY <2>1, <2>2, <2>3, <1>5
<1> QED
  BY <1>2, <1>3, <1>4, <1>5

-----------------------------------------------------------------------------
(* Importing many rows *)

\* What importing a row makes of the recipient with its address, or of nobody.
Filed(r, row, source, target, overwrite) ==
  add_to_list(IF r = Absent THEN Created(row, source)
              ELSE IF overwrite THEN Overwritten(r, row, source) ELSE r,
              target)

\* The address a row names.
Email(row) == normalise_email(row["email"])

\* The counts of an import.
Results == [created : Nat, updated : Nat, skipped : Nat, invalid : Nat]

\* What the loop of import_rows carries from row to row.
Tallies == [book : Books, result : Results]

\* Being put in a list leaves a recipient.
LEMMA AddedType ==
  ASSUME NEW r \in Recipients, NEW target \in Targets
  PROVE  add_to_list(r, target) \in Recipients
<1>1. CASE target = NoList
  BY <1>1 DEF add_to_list
<1>2. CASE target # NoList
  <2>1. target \in Lists
    BY <1>2 DEF Targets
  <2>2. r.lists \cup {target} \in SUBSET Lists
    BY <2>1 DEF Recipients
  <2> QED
    BY <1>2, <2>2 DEF add_to_list, Recipients
<1> QED
  BY <1>1, <1>2

\* A new recipient is a recipient.
LEMMA CreatedType ==
  ASSUME NEW row \in Rows, NEW source \in Sources
  PROVE  Created(row, source) \in Recipients
<1>1. \A f \in Core \cup Custom : row[f] \in Cells
  BY DEF Rows, Fields
<1>2. row["ldap_dn"] \in Cells
  BY <1>1, ImportingAssumption
<1>3. {} \in SUBSET Lists
  OBVIOUS
<1> QED
  BY <1>1, <1>2, <1>3 DEF Created, Recipients, Sources

\* A row names an address, or none.
LEMMA EmailType ==
  ASSUME NEW row \in Rows
  PROVE  Email(row) \in Addresses
<1>1. row["email"] \in Cells
  BY DEF Rows, Fields
<1> QED
  BY <1>1, ImportingAssumption DEF Email, normalise_email

\* Filing a row leaves a recipient, whoever was there before.
LEMMA FiledType ==
  ASSUME NEW r \in Recipients \cup {Absent}, NEW row \in Rows,
         NEW source \in Sources, NEW target \in Targets, NEW overwrite
  PROVE  Filed(r, row, source, target, overwrite) \in Recipients
<1>1. Created(row, source) \in Recipients
  BY CreatedType
<1>2. r # Absent => r \in Recipients /\ Overwritten(r, row, source) \in Recipients
  BY OverwrittenType
<1> QED
  BY <1>1, <1>2, AddedType DEF Filed

\* A turn of the loop files its row with the recipient it names, and nobody else.
LEMMA RowIsFiled ==
  ASSUME NEW acc \in Tallies, NEW row \in Rows, NEW source \in Sources,
         NEW target \in Targets, NEW overwrite \in BOOLEAN
  PROVE  LET new == ImportRow(acc, row, source, target, overwrite)
             x   == Email(row)
         IN  /\ new \in Tallies
             /\ new.book = IF x \notin Emails THEN acc.book
                           ELSE [acc.book EXCEPT ![x] =
                                   Filed(@, row, source, target, overwrite)]
<1> DEFINE x == Email(row)
           up == upsert_recipient(acc.book, row, source, overwrite)
           new == ImportRow(acc, row, source, target, overwrite)
           old == acc.book
<1>1. /\ x \in Addresses
      /\ old \in Books
      /\ acc.result \in Results
  BY EmailType DEF Tallies
<1>2. up.outcome \in {"created", "updated", "skipped", "invalid"}
  BY DEF upsert_recipient
<1>3. [acc.result EXCEPT ![up.outcome] = @ + 1] \in Results
  BY <1>1, <1>2 DEF Results
<1>4. new.result \in Results
  BY <1>3 DEF ImportRow
<1>5. CASE x \notin Emails
  <2>1. up.outcome = "invalid"
    BY <1>5 DEF upsert_recipient, Email
  <2>2. new.book = old
    BY <2>1 DEF ImportRow
  <2> QED
    BY <1>1, <1>4, <1>5, <2>2 DEF Tallies, ImportRow
<1>6. CASE x \in Emails
  <2> DEFINE filed == Filed(old[x], row, source, target, overwrite)
  <2>1. x \in Emails /\ old[x] \in Recipients \cup {Absent}
    BY <1>1, <1>6 DEF Books
  <2>2. up.outcome # "invalid"
    BY <1>6 DEF upsert_recipient, Email
  <2>3. new.book = [up.book EXCEPT ![x] = add_to_list(@, target)]
    BY <2>2 DEF ImportRow, Email
  <2>4. /\ up.book \in [Addresses -> Recipients \cup {Absent}]
        /\ \A e \in Addresses \ {x} : up.book[e] = old[e]
        /\ add_to_list(up.book[x], target) = filed
    <3> DEFINE made == Created(row, source)
               over == Overwritten(old[x], row, source)
    <3>1. CASE old[x] = Absent
      <4>1. up.book = [old EXCEPT ![x] = made]
        BY <1>6, <3>1 DEF upsert_recipient, Email
      <4>2. made \in Recipients
        BY CreatedType
      <4>3. filed = add_to_list(made, target)
        BY <3>1 DEF Filed
      <4> HIDE DEF made, filed
      <4> QED
        BY <1>1, <2>1, <4>1, <4>2, <4>3 DEF Books
    <3>2. CASE old[x] # Absent /\ overwrite /\ over # old[x]
      <4>1. up.book = [old EXCEPT ![x] = over]
        BY <1>6, <3>2 DEF upsert_recipient, Email
      <4>2. over \in Recipients
        BY <2>1, <3>2, OverwrittenType
      <4>3. filed = add_to_list(over, target)
        BY <3>2 DEF Filed
      <4> HIDE DEF over, filed
      <4> QED
        BY <1>1, <2>1, <4>1, <4>2, <4>3 DEF Books
    <3>3. CASE old[x] # Absent /\ ~(overwrite /\ over # old[x])
      <4>1. up.book = old
        BY <1>6, <3>3 DEF upsert_recipient, Email
      <4>2. filed = add_to_list(old[x], target)
        BY <3>3 DEF Filed
      <4> HIDE DEF over, filed
      <4> QED
        BY <1>1, <2>1, <4>1, <4>2 DEF Books
    <3> QED
      BY <3>1, <3>2, <3>3
  <2>5. filed \in Recipients
    BY <2>1, FiledType
  <2> HIDE DEF filed, up
  <2>6. new.book = [old EXCEPT ![x] = filed]
    BY <1>1, <2>1, <2>3, <2>4 DEF Books
  <2>7. new.book \in Books
    BY <1>1, <2>5, <2>6 DEF Books
  <2>8. new \in Tallies
    BY <1>4, <2>7 DEF Tallies, ImportRow
  <2> QED
    BY <1>6, <2>6, <2>8 DEF filed
<1> QED
  BY <1>5, <1>6

\* The book after each row of an import.
Imports(after, book0, rows, source, target, overwrite) ==
  /\ after \in [0..Len(rows) -> Tallies]
  /\ after[0].book = book0
  /\ \A n \in 1..Len(rows) :
       after[n] = ImportRow(after[n - 1], rows[n], source, target, overwrite)
  /\ after[Len(rows)] = import_rows(book0, rows, source, target, overwrite)

\* import_rows goes row by row: there is a book after each of them.
LEMMA ImportsRowByRow ==
  ASSUME NEW book0 \in Books, NEW rows \in Seq(Rows), NEW source \in Sources,
         NEW target \in Targets, NEW overwrite \in BOOLEAN
  PROVE  \E after : Imports(after, book0, rows, source, target, overwrite)
<1> DEFINE N == Len(rows)
           base == [book |-> book0, result |-> NoResult]
           turn == [n \in 1..N |-> [acc \in Tallies |->
                      ImportRow(acc, rows[n], source, target, overwrite)]]
           after[n \in 0..Len(rows)] ==
             IF n = 0 THEN [book |-> book0, result |-> NoResult]
             ELSE ImportRow(after[n - 1], rows[n], source, target, overwrite)
<1>0. N \in Nat /\ base \in Tallies /\ \A n \in 1..N : rows[n] \in Rows
  BY DEF Tallies, Results, NoResult
<1>1. turn \in Turns(N, Tallies)
  <2>1. \A n \in 1..N, acc \in Tallies :
          ImportRow(acc, rows[n], source, target, overwrite) \in Tallies
    BY <1>0, RowIsFiled
  <2> QED
    BY <2>1 DEF Turns
<1>2. PICK f : Iterates(f, N, Tallies, base, turn)
  <2> HIDE DEF turn, N, base
  <2> QED
    BY <1>0, <1>1, Looping
<1>3. /\ f \in [0..N -> Tallies] /\ f[0] = base
      /\ \A n \in 1..N :
           f[n] = ImportRow(f[n - 1], rows[n], source, target, overwrite)
  <2>1. /\ f \in [0..N -> Tallies] /\ f[0] = base
        /\ \A n \in 1..N : f[n] = turn[n][f[n - 1]]
    BY <1>2 DEF Iterates
  <2>2. \A n \in 1..N, acc \in Tallies :
          turn[n][acc] = ImportRow(acc, rows[n], source, target, overwrite)
    OBVIOUS
  <2>3. \A n \in 1..N : f[n - 1] \in Tallies
    BY <2>1
  <2> HIDE DEF turn, base
  <2> QED
    BY <2>1, <2>2, <2>3
<1>4. f = [n \in 0..Len(rows) |->
             IF n = 0 THEN [book |-> book0, result |-> NoResult]
             ELSE ImportRow(f[n - 1], rows[n], source, target, overwrite)]
  <2> HIDE DEF turn
  <2>1. \A n \in 0..N : n # 0 => n \in 1..N
    OBVIOUS
  <2> QED
    BY <1>3, <2>1
<1>5. after = [n \in 0..Len(rows) |->
             IF n = 0 THEN [book |-> book0, result |-> NoResult]
             ELSE ImportRow(after[n - 1], rows[n], source, target, overwrite)]
  BY <1>4
<1>6. import_rows(book0, rows, source, target, overwrite) = after[N]
  BY DEF import_rows
<1>7. /\ after[0] = base
      /\ \A n \in 1..N : after[n] =
           ImportRow(after[n - 1], rows[n], source, target, overwrite)
  <2> HIDE DEF after
  <2>1. \A n \in 0..N :
          after[n] = IF n = 0 THEN [book |-> book0, result |-> NoResult]
                     ELSE ImportRow(after[n - 1], rows[n], source, target,
                                    overwrite)
    BY <1>5, Zenon
  <2>2. \A n \in 1..N : n \in 0..N /\ n # 0
    OBVIOUS
  <2> QED
    BY <1>0, <2>1, <2>2
<1> DEFINE good == {n \in 0..N : after[n] \in Tallies}
<1>8. 0..N \subseteq good
  <2> HIDE DEF after, base
  <2>1. 0 \in good
    BY <1>0, <1>7
  <2>2. ASSUME NEW n \in 1..N, n - 1 \in good PROVE n \in good
    <3>1. after[n - 1] \in Tallies
      BY <2>2
    <3>2. rows[n] \in Rows
      BY <1>0
    <3>3. ImportRow(after[n - 1], rows[n], source, target, overwrite) \in Tallies
      BY <3>1, <3>2, RowIsFiled
    <3>4. after[n] \in Tallies
      BY <1>7, <3>3
    <3> QED
      BY <3>4
  <2>3. \A n \in 1..N : n - 1 \in good => n \in good
    BY <2>2
  <2> HIDE DEF good
  <2> QED
    BY <1>0, <2>1, <2>3, StepByStep
<1>9. DOMAIN after = 0..N
  <2> HIDE DEF after
  <2> QED
    BY <1>5
<1>10. after \in [0..N -> Tallies]
  <2> HIDE DEF after
  <2>1. \A n \in 0..N : after[n] \in Tallies
    BY <1>8
  <2> QED
    BY <1>5, <2>1
<1> QED
  <2> HIDE DEF after
  <2>1. Imports(after, book0, rows, source, target, overwrite)
    BY <1>6, <1>7, <1>10 DEF Imports
  <2> QED
    BY <2>1

\* A set of books that every filing of a row stays in is not left by an import.
LEMMA ImportKeeps ==
  ASSUME NEW kept \in SUBSET Books, NEW book0 \in kept,
         NEW rows \in Seq(Rows), NEW source \in Sources,
         NEW target \in Targets, NEW overwrite \in BOOLEAN,
         \A b \in kept, row \in Rows : Email(row) \in Emails =>
           [b EXCEPT ![Email(row)] =
              Filed(@, row, source, target, overwrite)] \in kept
  PROVE  import_rows(book0, rows, source, target, overwrite).book \in kept
<1>1. PICK after : Imports(after, book0, rows, source, target, overwrite)
  BY ImportsRowByRow
<1> DEFINE N == Len(rows)
           good == {n \in 0..N : after[n].book \in kept}
<1>0. N \in Nat
  OBVIOUS
<1>2. 0 \in good
  BY <1>0, <1>1 DEF Imports
<1>3. ASSUME NEW n \in 1..N, n - 1 \in good PROVE n \in good
  <2> DEFINE acc == after[n - 1]
             row == rows[n]
             new == ImportRow(acc, row, source, target, overwrite)
  <2>1. /\ acc \in Tallies /\ row \in Rows /\ acc.book \in kept
        /\ after[n] = new /\ n \in 0..N
    BY <1>0, <1>1, <1>3 DEF Imports
  <2>2. new.book = IF Email(row) \notin Emails THEN acc.book
                   ELSE [acc.book EXCEPT ![Email(row)] =
                           Filed(@, row, source, target, overwrite)]
    <3> HIDE DEF acc, row
    <3> QED
      BY <2>1, RowIsFiled
  <2> HIDE DEF acc, row, new
  <2>3. new.book \in kept
    <3>1. CASE Email(row) \notin Emails
      BY <2>1, <2>2, <3>1
    <3>2. CASE Email(row) \in Emails
      BY <2>1, <2>2, <3>2
    <3> QED
      BY <3>1, <3>2
  <2> QED
    BY <2>1, <2>3
<1>4. N \in good
  <2>1. \A n \in 1..N : n - 1 \in good => n \in good
    BY <1>3
  <2> HIDE DEF good
  <2>2. 0..N \subseteq good
    BY <1>0, <1>2, <2>1, StepByStep
  <2> QED
    BY <1>0, <2>2
<1> QED
  BY <1>1, <1>4 DEF Imports

\* What an import may make of a recipient: no list, no suppression, no text is
\* lost, and without overwriting no text changes.
Gentle(old, new, overwrite) ==
  /\ new \in Recipients
  /\ new.suppressed = old.suppressed
  /\ old.lists \subseteq new.lists
  /\ \A f \in Core : old.core[f] # Blank => new.core[f] # Blank
  /\ \A f \in Custom : old.extra[f] # Blank => new.extra[f] # Blank
  /\ ~overwrite => [new EXCEPT !.lists = old.lists] = old

\* Filing a row is gentle to the recipient it is filed with.
LEMMA FiledIsGentle ==
  ASSUME NEW r \in Recipients, NEW row \in Rows, NEW source \in Sources,
         NEW target \in Targets, NEW overwrite \in BOOLEAN
  PROVE  Gentle(r, Filed(r, row, source, target, overwrite), overwrite)
<1> DEFINE new == Filed(r, row, source, target, overwrite)
           over == Overwritten(r, row, source)
<1>1. r # Absent /\ new \in Recipients
  BY AbsentAssumption, FiledType
<1>2. CASE overwrite
  <2>1. new = add_to_list(over, target)
    BY <1>1, <1>2 DEF Filed
  <2>2. over \in Recipients
    BY OverwrittenType
  <2>3. /\ new.suppressed = over.suppressed /\ over.lists \subseteq new.lists
        /\ new.core = over.core /\ new.extra = over.extra
    <3> HIDE DEF over, new
    <3> QED
      BY <2>1, <2>2 DEF add_to_list, Recipients
  <2>4. /\ over.suppressed = r.suppressed /\ over.lists = r.lists
        /\ over.core = [f \in Core |-> Or(row[f], r.core[f])]
        /\ over.extra = [f \in Custom |-> Or(row[f], r.extra[f])]
    BY DEF Overwritten, Recipients
  <2>5. \A f \in Core : r.core[f] # Blank => new.core[f] # Blank
    <3> HIDE DEF new, over
    <3> QED
      BY <2>3, <2>4 DEF Or
  <2>6. \A f \in Custom : r.extra[f] # Blank => new.extra[f] # Blank
    <3> HIDE DEF new, over
    <3> QED
      BY <2>3, <2>4 DEF Or
  <2>7. Gentle(r, new, overwrite)
    <3> HIDE DEF new, over
    <3> QED
      BY <1>1, <1>2, <2>3, <2>4, <2>5, <2>6 DEF Gentle
  <2> QED
    BY <2>7
<1>3. CASE ~overwrite
  <2>1. new = add_to_list(r, target)
    BY <1>1, <1>3 DEF Filed
  <2>2. /\ new.suppressed = r.suppressed /\ r.lists \subseteq new.lists
        /\ new.core = r.core /\ new.extra = r.extra
        /\ new.ldap_dn = r.ldap_dn /\ new.source = r.source
    <3> HIDE DEF new
    <3> QED
      BY <2>1 DEF add_to_list, Recipients
  <2>3. Gentle(r, new, overwrite)
    <3> HIDE DEF new
    <3>1. [new EXCEPT !.lists = r.lists] = r
      BY <1>1, <2>2 DEF Recipients
    <3> QED
      BY <1>1, <2>2, <3>1 DEF Gentle
  <2> QED
    BY <2>3
<1> QED
  BY <1>2, <1>3

\* Gentle, and gentle again, is gentle.
LEMMA GentleTwice ==
  ASSUME NEW r \in Recipients, NEW s, NEW t, NEW overwrite \in BOOLEAN,
         Gentle(r, s, overwrite), Gentle(s, t, overwrite)
  PROVE  Gentle(r, t, overwrite)
<1>1. /\ s \in Recipients /\ t \in Recipients
      /\ t.suppressed = r.suppressed /\ r.lists \subseteq t.lists
      /\ \A f \in Core : r.core[f] # Blank => t.core[f] # Blank
      /\ \A f \in Custom : r.extra[f] # Blank => t.extra[f] # Blank
  BY DEF Gentle
<1>2. ASSUME ~overwrite PROVE [t EXCEPT !.lists = r.lists] = r
  <2>1. [s EXCEPT !.lists = r.lists] = r /\ [t EXCEPT !.lists = s.lists] = s
    BY <1>2 DEF Gentle
  <2>2. [t EXCEPT !.lists = r.lists] =
          [[t EXCEPT !.lists = s.lists] EXCEPT !.lists = r.lists]
    BY <1>1 DEF Recipients
  <2> QED
    BY <2>1, <2>2
<1> QED
  BY <1>1, <1>2 DEF Gentle

\* Doing nothing is gentle.
LEMMA GentleAtFirst ==
  ASSUME NEW r \in Recipients, NEW overwrite
  PROVE  Gentle(r, r, overwrite)
<1>1. [r EXCEPT !.lists = r.lists] = r
  BY DEF Recipients
<1> QED
  BY <1>1 DEF Gentle

\* Whatever the rows are, the import is gentle to everybody who was there.
LEMMA ImportIsGentle ==
  ASSUME NEW book0 \in Books, NEW rows \in Seq(Rows), NEW source \in Sources,
         NEW target \in Targets, NEW overwrite \in BOOLEAN,
         NEW e \in Addresses, book0[e] # Absent
  PROVE  Gentle(book0[e],
                import_rows(book0, rows, source, target, overwrite).book[e],
                overwrite)
<1> DEFINE r == book0[e]
           kept == {b \in Books : Gentle(r, b[e], overwrite)}
<1>1. r \in Recipients
  BY DEF Books
<1>2. kept \in SUBSET Books /\ book0 \in kept
  BY <1>1, GentleAtFirst
<1>3. ASSUME NEW b \in kept, NEW row \in Rows, Email(row) \in Emails
      PROVE  [b EXCEPT ![Email(row)] =
                Filed(@, row, source, target, overwrite)] \in kept
  <2> DEFINE x == Email(row)
             filed == Filed(b[x], row, source, target, overwrite)
             new == [b EXCEPT ![x] = filed]
  <2>1. /\ x \in Emails /\ b \in Books /\ Gentle(r, b[e], overwrite)
        /\ b[x] \in Recipients \cup {Absent}
    BY <1>3, EmailType DEF Books
  <2>2. filed \in Recipients
    BY <2>1, FiledType
  <2>3. new \in Books
    <3> HIDE DEF filed, x
    <3> QED
      BY <2>1, <2>2 DEF Books
  <2>4. Gentle(r, new[e], overwrite)
    <3>1. CASE x # e
      <4>1. new[e] = b[e]
        <5> HIDE DEF filed, x
        <5> QED
          BY <2>1, <3>1 DEF Books
      <4> QED
        BY <2>1, <4>1
    <3>2. CASE x = e
      <4>1. b[e] \in Recipients
        BY <2>1 DEF Gentle
      <4>2. new[e] = Filed(b[e], row, source, target, overwrite)
        <5> HIDE DEF x
        <5> QED
          BY <2>1, <3>2 DEF Books
      <4>3. Gentle(b[e], new[e], overwrite)
        BY <4>1, <4>2, FiledIsGentle
      <4> QED
        BY <1>1, <2>1, <4>3, GentleTwice
    <3> QED
      BY <3>1, <3>2
  <2> QED
    BY <2>3, <2>4
<1>4. \A b \in kept, row \in Rows : Email(row) \in Emails =>
        [b EXCEPT ![Email(row)] =
           Filed(@, row, source, target, overwrite)] \in kept
  BY <1>3
<1>5. import_rows(book0, rows, source, target, overwrite).book \in kept
  <2> HIDE DEF kept
  <2> QED
    BY <1>2, <1>4, ImportKeeps
<1> QED
  BY <1>5

\* Rows of different people are each filed, with what was there before.
Distinct(rows) ==
  \A i, j \in 1..Len(rows) :
    Email(rows[i]) = Email(rows[j]) /\ Email(rows[i]) \in Emails => i = j

\* When no two rows name the same person, the import files each of them with
\* what the book held before the import, and touches nobody else.
LEMMA DistinctAreFiled ==
  ASSUME NEW book0 \in Books, NEW rows \in Seq(Rows), NEW source \in Sources,
         NEW target \in Targets, NEW overwrite \in BOOLEAN, Distinct(rows)
  PROVE  LET new == import_rows(book0, rows, source, target, overwrite).book
         IN  /\ \A e \in Addresses :
                  (\A i \in 1..Len(rows) :
                     Email(rows[i]) \in Emails => Email(rows[i]) # e) =>
                    new[e] = book0[e]
             /\ \A i \in 1..Len(rows) : Email(rows[i]) \in Emails =>
                  new[Email(rows[i])] = Filed(book0[Email(rows[i])], rows[i],
                                              source, target, overwrite)
<1>1. PICK after : Imports(after, book0, rows, source, target, overwrite)
  BY ImportsRowByRow
<1> DEFINE N == Len(rows)
           x(i) == Email(rows[i])
           Untouched(b, n) == \A e \in Addresses :
             (\A i \in 1..n : x(i) \in Emails => x(i) # e) => b[e] = book0[e]
           Done(b, n) == \A i \in 1..n : x(i) \in Emails =>
             b[x(i)] = Filed(book0[x(i)], rows[i], source, target, overwrite)
           good == {n \in 0..N : Untouched(after[n].book, n) /\ Done(after[n].book, n)}
<1>0. N \in Nat
  OBVIOUS
<1>2. 0 \in good
  <2>1. Untouched(after[0].book, 0) /\ Done(after[0].book, 0)
    BY <1>1 DEF Imports
  <2> HIDE DEF Untouched, Done
  <2> QED
    BY <1>0, <2>1
<1>3. ASSUME NEW n \in 1..N, n - 1 \in good PROVE n \in good
  <2> DEFINE acc == after[n - 1]
             row == rows[n]
             new == ImportRow(acc, row, source, target, overwrite)
  <2>1. /\ acc \in Tallies /\ row \in Rows
        /\ after[n] = new
        /\ Untouched(acc.book, n - 1) /\ Done(acc.book, n - 1)
        /\ n \in 0..N
    BY <1>0, <1>1, <1>3 DEF Imports
  <2>2. new.book = IF Email(row) \notin Emails THEN acc.book
                   ELSE [acc.book EXCEPT ![Email(row)] =
                           Filed(@, row, source, target, overwrite)]
    <3> HIDE DEF acc, row, Untouched, Done
    <3> QED
      BY <2>1, RowIsFiled
  <2>3. acc.book \in Books /\ Email(row) \in Addresses
    <3> HIDE DEF acc, row, Untouched, Done
    <3> QED
    BY <2>1, EmailType DEF Tallies
  <2>4. \A i \in 1..n : i = n \/ i \in 1..(n - 1)
    OBVIOUS
  <2>5. \A i \in 1..(n - 1) : x(i) \in Emails => x(i) # x(n)
    BY DEF Distinct
  <2>6. \A i \in 1..N : x(i) \in Addresses
    <3>1. \A i \in 1..N : rows[i] \in Rows
      OBVIOUS
    <3> QED
      BY <3>1, EmailType
  <2>7. x(n) = Email(row) /\ row = rows[n]
    OBVIOUS
  <2> HIDE DEF acc, row, new, x
  <2>8. CASE Email(row) \notin Emails
    <3>1. new.book = acc.book
      BY <2>2, <2>8
    <3>2. Untouched(new.book, n)
      <4>1. \A i \in 1..(n - 1) : i \in 1..n
        OBVIOUS
      <4> QED
        BY <2>1, <3>1, <4>1
    <3>3. Done(new.book, n)
      BY <2>1, <2>4, <2>7, <2>8, <3>1
    <3> HIDE DEF Untouched, Done
    <3> QED
      BY <2>1, <3>2, <3>3
  <2>9. CASE Email(row) \in Emails
    <3>1. /\ new.book[x(n)] = Filed(acc.book[x(n)], row, source, target, overwrite)
          /\ \A e \in Addresses : e # x(n) => new.book[e] = acc.book[e]
          /\ x(n) \in Emails
      BY <2>2, <2>3, <2>7, <2>9 DEF Books
    <3>2. acc.book[x(n)] = book0[x(n)]
      BY <2>1, <2>5, <2>7, <2>9, <3>1
    <3>3. Untouched(new.book, n)
      <4>1. \A i \in 1..(n - 1) : i \in 1..n
        OBVIOUS
      <4>2. n \in 1..n
        OBVIOUS
      <4> QED
        BY <2>1, <3>1, <4>1, <4>2
    <3>4. Done(new.book, n)
      <4> SUFFICES ASSUME NEW i \in 1..n, x(i) \in Emails
                   PROVE  new.book[x(i)] = Filed(book0[x(i)], rows[i], source,
                                                 target, overwrite)
        OBVIOUS
      <4>1. CASE i = n
        BY <2>7, <3>1, <3>2, <4>1
      <4>2. CASE i # n
        <5>1. i \in 1..(n - 1) /\ i \in 1..N
          BY <2>4, <4>2
        <5>2. x(i) # x(n) /\ x(i) \in Emails
          BY <2>5, <2>6, <5>1
        <5>3. acc.book[x(i)] = Filed(book0[x(i)], rows[i], source, target,
                                     overwrite)
          BY <2>1, <5>1
        <5> QED
          BY <3>1, <5>2, <5>3
      <4> QED
        BY <4>1, <4>2
    <3> HIDE DEF Untouched, Done
    <3> QED
      BY <2>1, <3>3, <3>4
  <2> QED
    BY <2>8, <2>9
<1>4. N \in good
  <2>1. \A n \in 1..N : n - 1 \in good => n \in good
    BY <1>3
  <2> HIDE DEF good
  <2>2. 0..N \subseteq good
    BY <1>0, <1>2, <2>1, StepByStep
  <2> QED
    BY <1>0, <2>2
<1> QED
  BY <1>1, <1>4 DEF Imports

-----------------------------------------------------------------------------
(* The first row of everybody *)

\* The rows of which first_per_email keeps the address.
Firsts(rows) ==
  {i \in DOMAIN rows : is_valid_email(rows[i]["email"]) /\ IsFirst(rows, i)}

\* Two firsts are of two people, and every address has a first.
LEMMA FirstsDiffer ==
  ASSUME NEW rows \in Seq(Rows), NEW i \in Firsts(rows), NEW j \in Firsts(rows),
         Email(rows[i]) = Email(rows[j])
  PROVE  i = j
<1>1. /\ i \in 1..Len(rows) /\ j \in 1..Len(rows)
      /\ \A k \in 1..(i - 1) : Email(rows[k]) # Email(rows[i])
      /\ \A k \in 1..(j - 1) : Email(rows[k]) # Email(rows[j])
  BY DEF Firsts, IsFirst, Email
<1>2. i < j \/ i = j \/ j < i
  BY <1>1
<1>3. ~(i < j) /\ ~(j < i)
  BY <1>1
<1> QED
  BY <1>1, <1>2, <1>3

\* Whoever is named by some row is named by a first one.
LEMMA EverybodyHasAFirst ==
  ASSUME NEW rows \in Seq(Rows), NEW i \in DOMAIN rows,
         Email(rows[i]) \in Emails
  PROVE  \E j \in Firsts(rows) : Email(rows[j]) = Email(rows[i])
<1> DEFINE same == {j \in 1..Len(rows) : Email(rows[j]) = Email(rows[i])}
<1>1. same \in SUBSET Nat /\ same # {}
  OBVIOUS
<1>2. \E n \in same : \A m \in same : n <= m
  <2> HIDE DEF same
  <2> QED
    BY <1>1, LeastNumber
<1>3. PICK n \in same : \A m \in same : n <= m
  BY <1>2
<1>4. \A j \in 1..(n - 1) : Email(rows[j]) # Email(rows[n])
  BY <1>3
<1>5. n \in Firsts(rows)
  BY <1>3, <1>4 DEF Firsts, IsFirst, Email, normalise_email, is_valid_email
<1> QED
  BY <1>3, <1>5

\* What the import of the first rows makes of everybody.
LEMMA FirstsAreFiled ==
  ASSUME NEW book0 \in Books, NEW rows \in Seq(Rows), NEW source \in Sources,
         NEW target \in Targets, NEW overwrite \in BOOLEAN
  PROVE  LET new == import_rows(book0, first_per_email(rows), source, target,
                                overwrite).book
         IN  /\ \A e \in Addresses :
                  (\A i \in Firsts(rows) : Email(rows[i]) # e) =>
                    new[e] = book0[e]
             /\ \A i \in Firsts(rows) :
                  new[Email(rows[i])] = Filed(book0[Email(rows[i])], rows[i],
                                              source, target, overwrite)
<1> DEFINE places == {i \in DOMAIN rows : \/ ~is_valid_email(rows[i]["email"])
                                          \/ IsFirst(rows, i)}
           unique == Picked(rows, places)
           M == Len(unique)
<1>1. unique = first_per_email(rows)
  BY DEF first_per_email
<1>2. unique \in Seq(Rows)
  <2> HIDE DEF places
  <2> QED
    BY PickedIs
<1>3. PICK order :
        /\ InOrder(order, M, Len(rows))
        /\ \A k \in 1..M : order[k] \in places /\ unique[k] = rows[order[k]]
        /\ \A i \in places \cap 1..Len(rows) : \E k \in 1..M : order[k] = i
  <2> HIDE DEF places
  <2> QED
    BY PickedIs
<1>4. M \in Nat
  BY <1>2
<1>5. \A k \in 1..M : Email(unique[k]) \in Emails => order[k] \in Firsts(rows)
  BY <1>3 DEF Firsts, is_valid_email, Email, normalise_email
<1>6. \A i \in Firsts(rows) : \E k \in 1..M : unique[k] = rows[i] /\ order[k] = i
  <2>1. \A i \in Firsts(rows) : i \in places \cap 1..Len(rows)
    BY DEF Firsts
  <2> HIDE DEF unique, places
  <2> QED
    BY <1>3, <2>1
<1> HIDE DEF unique, places
<1>7. Distinct(unique)
  <2> SUFFICES ASSUME NEW k \in 1..M, NEW l \in 1..M,
                      Email(unique[k]) = Email(unique[l]),
                      Email(unique[k]) \in Emails
               PROVE  k = l
    BY DEF Distinct
  <2>1. /\ order[k] \in Firsts(rows) /\ order[l] \in Firsts(rows)
        /\ Email(rows[order[k]]) = Email(rows[order[l]])
    BY <1>3, <1>5
  <2>2. order[k] = order[l]
    BY <2>1, FirstsDiffer
  <2>3. /\ order \in [1..M -> 1..Len(rows)]
        /\ \A i, j \in 1..M : i < j => order[i] < order[j]
    BY <1>3 DEF InOrder
  <2>4. ~(k < l) /\ ~(l < k)
    BY <2>2, <2>3
  <2> QED
    BY <2>4
<1> DEFINE new == import_rows(book0, unique, source, target, overwrite).book
<1>8. /\ \A e \in Addresses :
           (\A k \in 1..M : Email(unique[k]) \in Emails => Email(unique[k]) # e)
             => new[e] = book0[e]
      /\ \A k \in 1..M : Email(unique[k]) \in Emails =>
           new[Email(unique[k])] = Filed(book0[Email(unique[k])], unique[k],
                                         source, target, overwrite)
  BY <1>2, <1>7, DistinctAreFiled
<1> HIDE DEF new
<1>9. ASSUME NEW e \in Addresses, \A i \in Firsts(rows) : Email(rows[i]) # e
      PROVE  new[e] = book0[e]
  <2>1. \A k \in 1..M : Email(unique[k]) \in Emails => Email(unique[k]) # e
    BY <1>3, <1>5, <1>9
  <2> QED
    BY <1>8, <2>1
<1>10. ASSUME NEW i \in Firsts(rows)
       PROVE  new[Email(rows[i])] = Filed(book0[Email(rows[i])], rows[i],
                                          source, target, overwrite)
  <2>1. PICK k \in 1..M : unique[k] = rows[i]
    BY <1>6
  <2>2. Email(rows[i]) \in Emails
    BY DEF Firsts, is_valid_email, Email, normalise_email
  <2> QED
    BY <1>8, <2>1, <2>2
<1> QED
  BY <1>1, <1>9, <1>10 DEF new

\* Everybody's two copies of the DN agree.
DnBooks == {b \in Books : \A e \in Addresses : b[e] # Absent => DnAgrees(b[e])}

\* An import leaves the two copies of every DN in agreement.
LEMMA ImportKeepsDn ==
  ASSUME NEW book0 \in DnBooks, NEW rows \in Seq(Rows), NEW source \in Sources,
         NEW target \in Targets, NEW overwrite \in BOOLEAN
  PROVE  import_rows(book0, rows, source, target, overwrite).book \in DnBooks
<1>1. ASSUME NEW b \in DnBooks, NEW row \in Rows, Email(row) \in Emails
      PROVE  [b EXCEPT ![Email(row)] =
                Filed(@, row, source, target, overwrite)] \in DnBooks
  <2> DEFINE x == Email(row)
             r == b[x]
             filed == Filed(r, row, source, target, overwrite)
  <2>1. x \in Emails /\ b \in Books /\ r \in Recipients \cup {Absent}
    BY <1>1, EmailType DEF DnBooks, Books
  <2>2. filed \in Recipients
    <3> HIDE DEF r
    <3> QED
      BY <2>1, FiledType
  <2>3. r # Absent => r \in Recipients /\ DnAgrees(r)
    BY <2>1 DEF DnBooks
  <2>4. DnAgrees(Created(row, source))
    BY ImportingAssumption DEF DnAgrees, Created
  <2>5. ASSUME NEW s \in Recipients, DnAgrees(s)
        PROVE  DnAgrees(add_to_list(s, target))
    BY <2>5 DEF DnAgrees, add_to_list, Recipients
  <2>6. DnAgrees(filed)
    <3>1. CASE r = Absent
      <4>1. filed = add_to_list(Created(row, source), target)
        BY <3>1 DEF Filed
      <4> HIDE DEF filed
      <4> QED
        BY <2>4, <2>5, <4>1, CreatedType
    <3>2. CASE r # Absent /\ overwrite
      <4>1. filed = add_to_list(Overwritten(r, row, source), target)
        BY <3>2 DEF Filed
      <4> HIDE DEF filed, r
      <4> QED
        BY <2>3, <2>5, <3>2, <4>1, OverwrittenType, DnKeepsAgreeing
    <3>3. CASE r # Absent /\ ~overwrite
      <4>1. filed = add_to_list(r, target)
        BY <3>3 DEF Filed
      <4> HIDE DEF filed, r
      <4> QED
        BY <2>3, <2>5, <3>3, <4>1
    <3> QED
      BY <3>1, <3>2, <3>3
  <2> HIDE DEF filed
  <2> QED
    BY <2>1, <2>2, <2>6 DEF DnBooks, Books, filed
<1>2. DnBooks \in SUBSET Books
  BY DEF DnBooks
<1>3. \A b \in DnBooks, row \in Rows : Email(row) \in Emails =>
        [b EXCEPT ![Email(row)] =
           Filed(@, row, source, target, overwrite)] \in DnBooks
  BY <1>1
<1> QED
  BY <1>2, <1>3, ImportKeeps

\* Everybody a row names is there after the import.
LEMMA NamedArrive ==
  ASSUME NEW book0 \in Books, NEW rows \in Seq(Rows), NEW source \in Sources,
         NEW target \in Targets, NEW overwrite \in BOOLEAN,
         NEW i \in 1..Len(rows), Email(rows[i]) \in Emails
  PROVE  import_rows(book0, rows, source, target,
                     overwrite).book[Email(rows[i])] # Absent
<1>1. PICK after : Imports(after, book0, rows, source, target, overwrite)
  BY ImportsRowByRow
<1> DEFINE N == Len(rows)
           e == Email(rows[i])
           good == {n \in 0..N : n >= i => after[n].book[e] # Absent}
<1>0. N \in Nat /\ e \in Emails
  <2>1. rows[i] \in Rows
    OBVIOUS
  <2> QED
    BY <2>1, EmailType
<1>2. 0 \in good
  BY <1>0
<1>3. ASSUME NEW n \in 1..N, n - 1 \in good PROVE n \in good
  <2> DEFINE acc == after[n - 1]
             row == rows[n]
             new == ImportRow(acc, row, source, target, overwrite)
  <2>1. /\ acc \in Tallies /\ row \in Rows
        /\ n - 1 >= i => acc.book[e] # Absent
        /\ after[n] = new /\ n \in 0..N
        /\ n = i => Email(row) = e
    BY <1>0, <1>1, <1>3 DEF Imports
  <2>2. new.book = IF Email(row) \notin Emails THEN acc.book
                   ELSE [acc.book EXCEPT ![Email(row)] =
                           Filed(@, row, source, target, overwrite)]
    <3> HIDE DEF acc, row, e
    <3> QED
      BY <2>1, RowIsFiled
  <2>a. e \in Emails
    OBVIOUS
  <2> HIDE DEF acc, row, new, e
  <2>3. acc.book \in Books
    BY <2>1 DEF Tallies
  <2>4. CASE Email(row) = e
    <3>1. /\ acc.book[e] \in Recipients \cup {Absent}
          /\ new.book[e] = Filed(acc.book[e], row, source, target, overwrite)
      BY <1>0, <2>2, <2>3, <2>4, <2>a DEF Books
    <3>2. new.book[e] # Absent
      BY <2>1, <3>1, FiledType, AbsentAssumption
    <3> QED
      BY <2>1, <3>2
  <2>5. CASE Email(row) # e
    <3>1. new.book[e] = acc.book[e]
      BY <1>0, <2>2, <2>3, <2>5 DEF Books
    <3>2. n >= i => n - 1 >= i
      BY <2>1, <2>5
    <3> QED
      BY <2>1, <3>1, <3>2
  <2> QED
    BY <2>4, <2>5
<1>4. N \in good
  <2>1. \A n \in 1..N : n - 1 \in good => n \in good
    BY <1>3
  <2> HIDE DEF good
  <2>2. 0..N \subseteq good
    BY <1>0, <1>2, <2>1, StepByStep
  <2> QED
    BY <1>0, <2>2
<1>5. N >= i
  OBVIOUS
<1> QED
  BY <1>1, <1>4, <1>5 DEF Imports

-----------------------------------------------------------------------------
(* What the readers make of a file, a paste and a directory's answer *)

\* A sequence, of whatever elements.
IsSequence(s) == s \in Seq(Range(s))

\* A line of a file.
Lines == Seq(Cells)

\* The lines of a file have a longest one.
LEMMA Longest ==
  ASSUME NEW records \in Seq(Lines)
  PROVE  LET lengths == {0} \cup {Len(records[k]) : k \in DOMAIN records}
         IN  /\ Max(lengths) \in Nat
             /\ \A k \in DOMAIN records : Len(records[k]) <= Max(lengths)
<1> DEFINE N == Len(records)
           lengths == {0} \cup {Len(records[k]) : k \in DOMAIN records}
           good == {n \in 0..N :
                      \E b \in Nat : \A k \in 1..n : Len(records[k]) <= b}
<1>0. N \in Nat /\ DOMAIN records = 1..N
  OBVIOUS
<1>1. \A k \in 1..N : Len(records[k]) \in Nat
  <2>1. \A k \in 1..N : records[k] \in Lines
    OBVIOUS
  <2> QED
    BY <2>1 DEF Lines
<1>2. 0 \in good
  <2>1. \A k \in 1..0 : Len(records[k]) <= 0
    OBVIOUS
  <2> QED
    BY <1>0, <2>1
<1>3. ASSUME NEW n \in 1..N, n - 1 \in good PROVE n \in good
  <2>1. PICK b \in Nat : \A k \in 1..(n - 1) : Len(records[k]) <= b
    BY <1>3
  <2> DEFINE c == IF Len(records[n]) <= b THEN b ELSE Len(records[n])
  <2>2. c \in Nat /\ b <= c /\ Len(records[n]) <= c
    BY <1>1
  <2> HIDE DEF c
  <2>3. \A k \in 1..n : Len(records[k]) <= c
    <3> SUFFICES ASSUME NEW k \in 1..n PROVE Len(records[k]) <= c
      OBVIOUS
    <3>1. CASE k = n
      BY <2>2, <3>1
    <3>2. CASE k # n
      <4>1. k \in 1..(n - 1) /\ k \in 1..N
        BY <1>0, <3>2
      <4>2. Len(records[k]) <= b /\ Len(records[k]) \in Nat
        BY <1>1, <2>1, <4>1
      <4> QED
        BY <2>2, <4>2
    <3> QED
      BY <3>1, <3>2
  <2> QED
    BY <1>0, <2>2, <2>3
<1>4. N \in good
  <2>1. \A n \in 1..N : n - 1 \in good => n \in good
    BY <1>3
  <2> HIDE DEF good
  <2>2. 0..N \subseteq good
    BY <1>0, <1>2, <2>1, StepByStep
  <2> QED
    BY <1>0, <2>2
<1>5. PICK b \in Nat : \A k \in 1..N : Len(records[k]) <= b
  BY <1>4
<1>6. lengths \in SUBSET Nat /\ lengths # {} /\ \A m \in lengths : m <= b
  BY <1>0, <1>1, <1>5
<1>7. Max(lengths) \in lengths /\ \A m \in lengths : m <= Max(lengths)
  <2> HIDE DEF lengths
  <2> QED
    BY <1>6, GreatestNumber
<1> QED
  BY <1>6, <1>7

\* The lines of a file that hold text; how wide its table is, and which lines
\* are its rows.
Records(file) == Picked(file, Filled(file))

Width(file) ==
  Max({0} \cup {Len(Records(file)[k]) : k \in DOMAIN Records(file)})

Body(file) ==
  IF IsHeaderless(Records(file)[1]) THEN Records(file) ELSE Tail(Records(file))

\* The table of a file that holds text.
LEMMA ReadCsvIs ==
  ASSUME NEW file, Records(file) # <<>>
  PROVE  /\ DOMAIN read_csv(file).headers = 1..Width(file)
         /\ read_csv(file).rows =
              [k \in DOMAIN Body(file) |->
                 [i \in 1..Width(file) |-> CellAt(Body(file)[k], i)]]
BY DEF read_csv, Records, Width, Body

\* The lines that hold text are lines, none of them wider than the table.
LEMMA RecordsType ==
  ASSUME NEW file \in Seq(Lines)
  PROVE  /\ Records(file) \in Seq(Lines)
         /\ Records(file) # <<>> => Body(file) \in Seq(Lines)
         /\ Width(file) \in Nat
         /\ \A k \in DOMAIN Records(file) : Len(Records(file)[k]) <= Width(file)
<1>1. Records(file) \in Seq(Lines)
  BY PickedIs DEF Records
<1>2. Records(file) # <<>> => Body(file) \in Seq(Lines)
  BY <1>1 DEF Body
<1> QED
  BY <1>1, <1>2, Longest DEF Width

\* A cell there is not is blank.
LEMMA CellType ==
  ASSUME NEW line \in Lines, NEW i
  PROVE  CellAt(line, i) \in Cells
BY ImportingAssumption DEF CellAt, Lines

\* read_csv returns a table: every row has a cell under every header.
LEMMA ReadCsvType ==
  ASSUME NEW file \in Seq(Lines)
  PROVE  /\ \E w \in Nat : DOMAIN read_csv(file).headers = 1..w
         /\ read_csv(file).rows \in Seq([DOMAIN read_csv(file).headers -> Cells])
<1>1. CASE Records(file) = <<>>
  <2>1. read_csv(file) = NoTable
    BY <1>1 DEF read_csv, Records
  <2>2. DOMAIN read_csv(file).headers = 1..0 /\ read_csv(file).rows = <<>>
    BY <2>1 DEF NoTable
  <2>3. read_csv(file).rows \in Seq([DOMAIN read_csv(file).headers -> Cells])
    BY <2>2
  <2>4. \E w \in Nat : DOMAIN read_csv(file).headers = 1..w
    <3> HIDE DEF NoTable
    <3>1. 0 \in Nat
      OBVIOUS
    <3> QED
      BY <2>2, <3>1, Zenon
  <2> QED
    BY <2>3, <2>4
<1>2. CASE Records(file) # <<>>
  <2> DEFINE w == Width(file)
             body == Body(file)
             rows == [k \in DOMAIN body |-> [i \in 1..w |-> CellAt(body[k], i)]]
  <2>1. body \in Seq(Lines) /\ w \in Nat
    BY <1>2, RecordsType
  <2>2. DOMAIN read_csv(file).headers = 1..w /\ read_csv(file).rows = rows
    BY <1>2, ReadCsvIs
  <2> HIDE DEF body, w
  <2>3. \A k \in 1..Len(body) : body[k] \in Lines
    BY <2>1
  <2>4. \A k \in 1..Len(body) : [i \in 1..w |-> CellAt(body[k], i)] \in [1..w -> Cells]
    BY <2>3, CellType
  <2>5. rows \in Seq([1..w -> Cells])
    BY <2>1, <2>4
  <2> QED
    BY <2>1, <2>2, <2>5
<1> QED
  BY <1>1, <1>2

\* default_mapping has a field for every header.
LEMMA DefaultMappingType ==
  ASSUME NEW headers, NEW rows, NEW w \in Nat, DOMAIN headers = 1..w
  PROVE  /\ IsSequence(default_mapping(headers, rows))
         /\ DOMAIN default_mapping(headers, rows) = DOMAIN headers
<1> DEFINE m == default_mapping(headers, rows)
<1>1. DOMAIN m = 1..w
  BY DEF default_mapping
<1>2. \A i \in 1..w : m[i] \in Range(m)
  BY <1>1 DEF Range
<1>3. m = [i \in 1..w |-> m[i]]
  BY DEF default_mapping
<1> HIDE DEF m
<1>4. m \in Seq(Range(m))
  BY <1>1, <1>2, <1>3
<1> QED
  BY <1>1, <1>4 DEF m, IsSequence

\* A mapping over the columns of a table turns its lines into rows.
LEMMA ApplyMappingType ==
  ASSUME NEW mapping, IsSequence(mapping),
         NEW rows \in Seq([DOMAIN mapping -> Cells])
  PROVE  /\ apply_mapping(rows, mapping) \in Seq(Rows)
         /\ Len(apply_mapping(rows, mapping)) = Len(rows)
<1> DEFINE filled(k, f) == {i \in DOMAIN mapping : /\ mapping[i] = f
                                                   /\ CellAt(rows[k], i) # Blank}
           cell(k, f) == IF filled(k, f) = {} THEN Blank
                         ELSE rows[k][Max(filled(k, f))]
           N == Len(rows)
<1>1. Len(mapping) \in Nat /\ DOMAIN mapping = 1..Len(mapping)
  BY DEF IsSequence
<1>2. N \in Nat /\ DOMAIN rows = 1..N
        /\ \A k \in 1..N : rows[k] \in [DOMAIN mapping -> Cells]
  OBVIOUS
<1>3. ASSUME NEW k \in 1..N, NEW f PROVE cell(k, f) \in Cells
  <2>1. CASE filled(k, f) = {}
    BY <2>1, ImportingAssumption
  <2>2. CASE filled(k, f) # {}
    <3>1. filled(k, f) \in SUBSET Nat /\ \A i \in filled(k, f) : i <= Len(mapping)
      BY <1>1
    <3>2. Max(filled(k, f)) \in filled(k, f)
      <4> HIDE DEF filled
      <4> QED
        BY <1>1, <2>2, <3>1, GreatestNumber
    <3>3. Max(filled(k, f)) \in DOMAIN mapping
      BY <3>2
    <3> QED
      BY <1>2, <2>2, <3>3
  <2> QED
    BY <2>1, <2>2
<1>4. apply_mapping(rows, mapping) = [k \in 1..N |-> [f \in Fields |-> cell(k, f)]]
  BY <1>2 DEF apply_mapping
<1> HIDE DEF cell
<1>5. \A k \in 1..N : [f \in Fields |-> cell(k, f)] \in Rows
  BY <1>3 DEF Rows
<1> QED
  BY <1>2, <1>4, <1>5

\* A paste is a table with four columns.
LEMMA PasteType ==
  ASSUME NEW entries \in Pastes
  PROVE  /\ IsSequence(PasteHeaders)
         /\ parse_email_list(entries) \in Seq([DOMAIN PasteHeaders -> Cells])
<1> DEFINE T == [email : Cells, name : Cells]
           line(entry) == <<entry.email, entry.name, first_word[entry.name],
                            other_words[entry.name]>>
<1>1. entries \in Seq(T)
  BY PagesAssumption
<1>2. DOMAIN PasteHeaders = 1..4
  BY DEF PasteHeaders
<1>3. PasteHeaders \in Seq(Range(PasteHeaders))
  <2>1. \A i \in 1..4 : PasteHeaders[i] \in Range(PasteHeaders)
    BY <1>2 DEF Range
  <2>2. PasteHeaders = [i \in 1..4 |-> PasteHeaders[i]]
    BY DEF PasteHeaders
  <2> QED
    BY <2>1, <2>2
<1>4. \A k \in 1..Len(entries) : line(entries[k]) \in [1..4 -> Cells]
  <2> SUFFICES ASSUME NEW k \in 1..Len(entries)
               PROVE  line(entries[k]) \in [1..4 -> Cells]
    OBVIOUS
  <2>1. entries[k] \in T
    <3> HIDE DEF T
    <3> QED
      BY <1>1
  <2>2. \A i \in 1..4 : line(entries[k])[i] \in Cells
    BY <2>1, ImportingAssumption
  <2>3. line(entries[k]) = [i \in 1..4 |-> line(entries[k])[i]]
    OBVIOUS
  <2> QED
    BY <2>2, <2>3
<1>5. parse_email_list(entries) = [k \in 1..Len(entries) |-> line(entries[k])]
  BY <1>1 DEF parse_email_list
<1> HIDE DEF line
<1>6. parse_email_list(entries) \in Seq([1..4 -> Cells])
  BY <1>1, <1>4, <1>5
<1> QED
  BY <1>2, <1>3, <1>6 DEF IsSequence

\* The columns of a directory's answer.
Columns(entries) == SetToSeq(UNION {DOMAIN entries[k] : k \in DOMAIN entries})

\* The columns of a directory's answer are fields, in some order.
LEMMA ColumnsType ==
  ASSUME NEW entries \in Searches
  PROVE  /\ IsSequence(Columns(entries))
         /\ \A i \in DOMAIN Columns(entries) : Columns(entries)[i] \in Fields
<1> DEFINE N == Len(entries)
           keys == {DOMAIN entries[k] : k \in DOMAIN entries}
           names == UNION keys
<1>1. /\ entries \in Seq(Range(entries))
      /\ \A k \in DOMAIN entries : DOMAIN entries[k] \subseteq Fields
      /\ \A k \in DOMAIN entries : IsFiniteSet(DOMAIN entries[k])
  BY PagesAssumption
<1>2. N \in Nat /\ DOMAIN entries = 1..N
  BY <1>1
<1>3. IsFiniteSet(keys)
  <2> DEFINE f == [k \in 1..N |-> DOMAIN entries[k]]
  <2>1. f \in Surjection(1..N, keys)
    BY <1>2 DEF Surjection
  <2>2. IsFiniteSet(1..N)
    BY <1>2, FS_Interval
  <2> HIDE DEF f, keys
  <2> QED
    BY <2>1, <2>2, FS_Surjection
<1>4. IsFiniteSet(names)
  <2>1. \A T \in keys : IsFiniteSet(T)
    BY <1>1
  <2> HIDE DEF keys
  <2> QED
    BY <1>3, <2>1, FS_UNION
<1>5. Cardinality(names) \in Nat /\ ExistsBijection(1..Cardinality(names), names)
  <2> HIDE DEF names
  <2> QED
    BY <1>4, FS_CardinalityType
<1>6. \E f \in [1..Cardinality(names) -> names] : IsInjective(f)
  BY <1>5 DEF ExistsBijection, Bijection, Injection
<1>7. Columns(entries) \in [1..Cardinality(names) -> names]
  BY <1>6 DEF Columns, SetToSeq
<1>8. names \subseteq Fields
  BY <1>1
<1> DEFINE c == Columns(entries)
<1>9. c \in Seq(Range(c))
  <2> HIDE DEF c, names
  <2>1. \A i \in DOMAIN c : c[i] \in Range(c)
    BY DEF Range
  <2> QED
    BY <1>5, <1>7, <2>1 DEF c
<1> QED
  <2> HIDE DEF names
  <2> QED
    BY <1>7, <1>8, <1>9 DEF IsSequence

\* The draft of a directory's answer is a table over these columns.
LEMMA SearchType ==
  ASSUME NEW entries \in Searches
  PROVE  LET headers == Columns(entries)
             dicts   == ldap_entries_to_rows(entries)
         IN  [k \in DOMAIN dicts |->
                [i \in DOMAIN headers |-> dicts[k][headers[i]]]]
               \in Seq([DOMAIN headers -> Cells])
<1> DEFINE N == Len(entries)
           headers == Columns(entries)
           dicts == ldap_entries_to_rows(entries)
<1>1. /\ entries \in Seq(Range(entries))
      /\ \A k \in DOMAIN entries : entries[k] \in [DOMAIN entries[k] -> Cells]
  BY PagesAssumption
<1>2. N \in Nat /\ DOMAIN entries = 1..N /\ DOMAIN dicts = 1..N
  BY <1>1 DEF ldap_entries_to_rows
<1>3. \A k \in 1..N : dicts[k] = [f \in Fields |-> IF f \in DOMAIN entries[k]
                                                   THEN entries[k][f] ELSE Blank]
  BY <1>2 DEF ldap_entries_to_rows
<1>4. \A k \in 1..N, f \in Fields : dicts[k][f] \in Cells
  BY <1>1, <1>2, <1>3, ImportingAssumption
<1>5. \A i \in DOMAIN headers : headers[i] \in Fields
  BY ColumnsType
<1> HIDE DEF headers, dicts
<1>6. \A k \in 1..N : [i \in DOMAIN headers |-> dicts[k][headers[i]]]
                        \in [DOMAIN headers -> Cells]
  BY <1>4, <1>5
<1>7. [k \in DOMAIN dicts |-> [i \in DOMAIN headers |-> dicts[k][headers[i]]]]
        \in Seq([DOMAIN headers -> Cells])
  BY <1>2, <1>6
<1> QED
  BY <1>7 DEF headers, dicts

\* The row the one-shot import makes of a line.
CsvRow(mapping, line) ==
  [f \in Fields |->
     LET cols == {i \in DOMAIN mapping \cap DOMAIN line : mapping[i] = f}
     IN  IF cols = {} THEN Blank ELSE line[Max(cols)]]

\* The row of a line is a row.
LEMMA CsvRowType ==
  ASSUME NEW mapping, NEW line \in Lines
  PROVE  CsvRow(mapping, line) \in Rows
<1> DEFINE cols(f) == {i \in DOMAIN mapping \cap DOMAIN line : mapping[i] = f}
           cell(f) == IF cols(f) = {} THEN Blank ELSE line[Max(cols(f))]
<1>1. Len(line) \in Nat /\ DOMAIN line = 1..Len(line)
        /\ \A i \in 1..Len(line) : line[i] \in Cells
  BY DEF Lines
<1>2. ASSUME NEW f, cols(f) # {} PROVE cell(f) \in Cells
  <2>1. cols(f) \in SUBSET Nat /\ \A i \in cols(f) : i <= Len(line)
    BY <1>1
  <2>2. Max(cols(f)) \in cols(f)
    <3> HIDE DEF cols
    <3> QED
      BY <1>1, <1>2, <2>1, GreatestNumber
  <2>3. Max(cols(f)) \in DOMAIN line
    BY <2>2
  <2> QED
    BY <1>1, <1>2, <2>3
<1>3. \A f : cell(f) \in Cells
  BY <1>2, ImportingAssumption
<1>4. CsvRow(mapping, line) = [f \in Fields |-> cell(f)]
  BY DEF CsvRow
<1> HIDE DEF cell
<1> QED
  BY <1>3, <1>4 DEF Rows

\* parse_csv returns rows.
LEMMA ParseCsvType ==
  ASSUME NEW file \in Seq(Lines)
  PROVE  parse_csv(file) \in Seq(Rows)
<1> DEFINE names == [i \in DOMAIN file[1] |-> spaced_field(file[1][i])]
           named == \E i \in DOMAIN names : names[i] = "email"
           bare == ~named /\ StartsWithAddress(file[1])
           mapping == IF bare THEN <<"email">> ELSE names
           body == IF bare THEN file ELSE Tail(file)
           rows == [k \in DOMAIN body |-> CsvRow(mapping, body[k])]
           places == {k \in DOMAIN rows : rows[k]["email"] # Blank}
<1>1. CASE file = <<>> \/ ~(bare \/ named)
  <2>1. parse_csv(file) = <<>>
    BY <1>1, Zenon DEF parse_csv
  <2>2. <<>> \in Seq(Rows)
    OBVIOUS
  <2> QED
    BY <2>1, <2>2, Zenon
<1>2. CASE ~(file = <<>> \/ ~(bare \/ named))
  <2>1. parse_csv(file) = Picked(rows, places)
    BY <1>2, Zenon DEF parse_csv, CsvRow
  <2>2. body \in Seq(Lines)
    BY <1>2
  <2> HIDE DEF body, mapping
  <2>3. \A k \in 1..Len(body) : CsvRow(mapping, body[k]) \in Rows
    <3>1. \A k \in 1..Len(body) : body[k] \in Lines
      BY <2>2
    <3> QED
      BY <3>1, CsvRowType
  <2>4. rows \in Seq(Rows)
    <3> HIDE DEF places
    <3> QED
      BY <2>2, <2>3
  <2> HIDE DEF rows, places
  <2>5. Picked(rows, places) \in Seq(Rows)
    BY <2>4, PickedIs
  <2> QED
    BY <2>1, <2>5, Zenon
<1> QED
  BY <1>1, <1>2

\* first_per_email returns rows.
LEMMA FirstPerEmailType ==
  ASSUME NEW rows \in Seq(Rows)
  PROVE  first_per_email(rows) \in Seq(Rows)
BY PickedIs DEF first_per_email

-----------------------------------------------------------------------------
(* The inductive invariant of the pages *)

\* A draft under review: its rows are as wide as its mapping, and those of a
\* file are still the ones the file was read into.
DraftOK(d) ==
  /\ DOMAIN d = {"source", "file", "rows", "mapping", "list", "overwrite"}
  /\ d.source \in {"csv", "paste", "ldap"}
  /\ d.list \in Targets /\ d.overwrite \in BOOLEAN
  /\ IsSequence(d.mapping)
  /\ d.rows \in Seq([DOMAIN d.mapping -> Cells])
  /\ d.source = "csv" => d.file \in Files /\ d.rows = read_csv(d.file).rows

\* The DNs agree and the draft, if there is one, is well formed.
ImportInv ==
  /\ book \in DnBooks
  /\ requests \in 0..MaxRequests
  /\ draft # NoDraft => DraftOK(draft)

\* The invariant implies the types the run checks.
LEMMA ImportInvTypeOK == ImportInv => TypeOK
<1> SUFFICES ASSUME ImportInv PROVE TypeOK
  OBVIOUS
<1>1. book \in Books /\ requests \in 0..MaxRequests
  BY DEF ImportInv, DnBooks
<1>2. ASSUME draft # NoDraft
      PROVE  /\ draft.source \in {"csv", "paste", "ldap"}
             /\ draft.list \in Targets /\ draft.overwrite \in BOOLEAN
             /\ \A k \in DOMAIN draft.rows :
                  draft.rows[k] \in [DOMAIN draft.mapping -> Cells]
  <2>1. DraftOK(draft)
    BY <1>2 DEF ImportInv
  <2> DEFINE T == [DOMAIN draft.mapping -> Cells]
  <2>2. draft.rows \in Seq(T)
    BY <2>1 DEF DraftOK
  <2>3. \A k \in DOMAIN draft.rows : draft.rows[k] \in T
    <3> HIDE DEF T
    <3> QED
      BY <2>2
  <2> QED
    BY <2>1, <2>3 DEF DraftOK
<1> QED
  BY <1>1, <1>2 DEF TypeOK

\* Before the first request there is nobody and no draft.
LEMMA ImportInit == Init => ImportInv
<1> SUFFICES ASSUME Init PROVE ImportInv
  OBVIOUS
<1>1. book \in DnBooks
  BY DEF Init, DnBooks, Books
<1> QED
  BY <1>1, PagesAssumption DEF Init, ImportInv

\* What the review page may choose keeps a draft well formed.
LEMMA ChosenOK ==
  ASSUME ImportInv, NEW mapping \in Mappings \cup {draft.mapping},
         NEW l \in Targets, NEW overwrite \in BOOLEAN, MayChoose(mapping)
  PROVE  LET d == Chosen(mapping, l, overwrite)
         IN  /\ DraftOK(d)
             /\ d.source = draft.source /\ d.file = draft.file
             /\ d.list = l /\ d.overwrite = overwrite
<1> DEFINE d == Chosen(mapping, l, overwrite)
<1>1. draft # NoDraft /\ DraftOK(draft)
  BY DEF MayChoose, ImportInv
<1>2. IsSequence(mapping) /\ IsSequence(draft.mapping)
  <2>1. IsSequence(draft.mapping)
    BY <1>1 DEF DraftOK
  <2> QED
    BY <2>1, PagesAssumption DEF IsSequence
<1>3. DOMAIN mapping = DOMAIN draft.mapping
  <2>1. Len(mapping) = Len(draft.mapping)
    BY DEF MayChoose
  <2> QED
    BY <1>2, <2>1 DEF IsSequence
<1>4. /\ DOMAIN d = DOMAIN draft
      /\ d.source = draft.source /\ d.file = draft.file
      /\ d.rows = draft.rows /\ d.list = l /\ d.overwrite = overwrite
      /\ d.mapping = IF draft.source = "csv" THEN mapping ELSE draft.mapping
  BY <1>1 DEF Chosen, DraftOK
<1> HIDE DEF d
<1>5. IsSequence(d.mapping) /\ DOMAIN d.mapping = DOMAIN draft.mapping
  BY <1>2, <1>3, <1>4
<1>6. DraftOK(d)
  BY <1>1, <1>4, <1>5 DEF DraftOK
<1> QED
  BY <1>4, <1>6 DEF d

\* The rows that finishing an import imports.
LEMMA FinishedRows ==
  ASSUME NEW d, DraftOK(d)
  PROVE  /\ apply_mapping(d.rows, d.mapping) \in Seq(Rows)
         /\ first_per_email(apply_mapping(d.rows, d.mapping)) \in Seq(Rows)
         /\ SourceOf(d) \in Sources
<1>1. apply_mapping(d.rows, d.mapping) \in Seq(Rows)
  BY ApplyMappingType DEF DraftOK
<1> QED
  BY <1>1, FirstPerEmailType DEF DraftOK, SourceOf, Sources

\* Counting a request.
LEMMA CountedOK ==
  ASSUME ImportInv, Counted
  PROVE  requests' \in 0..MaxRequests
BY PagesAssumption DEF ImportInv, Counted

-----------------------------------------------------------------------------
(* One lemma per request *)

\* Uploading a file.
LEMMA KeepsUpload ==
  ASSUME ImportInv, NEW file \in Files, NEW l \in Targets, csv_upload(file, l)
  PROVE  ImportInv'
<1> DEFINE table == read_csv(file)
           m == default_mapping(table.headers, table.rows)
<1>1. file \in Seq(Lines)
  BY PagesAssumption DEF Lines
<1>2. /\ \E w \in Nat : DOMAIN table.headers = 1..w
      /\ table.rows \in Seq([DOMAIN table.headers -> Cells])
  BY <1>1, ReadCsvType
<1>3. IsSequence(m) /\ DOMAIN m = DOMAIN table.headers
  <2> HIDE DEF table
  <2> QED
    BY <1>2, DefaultMappingType
<1>4. /\ draft' = Draft("csv", file, table.headers, table.rows, l)
      /\ UNCHANGED book /\ Counted
  BY DEF csv_upload, Requested
<1>5. /\ DOMAIN draft' = {"source", "file", "rows", "mapping", "list", "overwrite"}
      /\ draft'.source = "csv" /\ draft'.file = file
      /\ draft'.rows = table.rows /\ draft'.mapping = m
      /\ draft'.list = l /\ draft'.overwrite = TRUE
  <2> HIDE DEF table
  <2> QED
    BY <1>4 DEF Draft
<1>6. DraftOK(draft')
  <2> HIDE DEF m
  <2> QED
    BY <1>2, <1>3, <1>5 DEF DraftOK
<1> QED
  BY <1>4, <1>6, CountedOK DEF ImportInv

\* Pasting into the wizard.
LEMMA KeepsPaste ==
  ASSUME ImportInv, NEW entries \in Pastes, NEW l \in Targets,
         paste_submit(entries, l)
  PROVE  ImportInv'
<1> DEFINE rows == parse_email_list(entries)
<1>1. IsSequence(PasteHeaders) /\ rows \in Seq([DOMAIN PasteHeaders -> Cells])
  BY PasteType
<1>2. /\ draft' = Draft("paste", <<>>, PasteHeaders, rows, l)
      /\ UNCHANGED book /\ Counted
  BY DEF paste_submit, Requested
<1> HIDE DEF rows
<1>3. /\ DOMAIN draft' = {"source", "file", "rows", "mapping", "list", "overwrite"}
      /\ draft'.source = "paste" /\ draft'.rows = rows
      /\ draft'.mapping = PasteHeaders
      /\ draft'.list = l /\ draft'.overwrite = TRUE
  BY <1>2 DEF Draft
<1>4. DraftOK(draft')
  BY <1>1, <1>3 DEF DraftOK
<1> QED
  BY <1>2, <1>4, CountedOK DEF ImportInv

\* Searching the directory.
LEMMA KeepsSearch ==
  ASSUME ImportInv, NEW entries \in Searches, NEW l \in Targets,
         ldap_search(entries, l)
  PROVE  ImportInv'
<1> DEFINE headers == Columns(entries)
           dicts == ldap_entries_to_rows(entries)
           rows == [k \in DOMAIN dicts |->
                      [i \in DOMAIN headers |-> dicts[k][headers[i]]]]
<1>1. IsSequence(headers)
  BY ColumnsType
<1>2. rows \in Seq([DOMAIN headers -> Cells])
  BY SearchType
<1>3. /\ draft' = Draft("ldap", <<>>, headers, rows, l)
      /\ UNCHANGED book /\ Counted
  BY DEF ldap_search, Requested, Columns
<1> HIDE DEF rows, headers
<1>4. /\ DOMAIN draft' = {"source", "file", "rows", "mapping", "list", "overwrite"}
      /\ draft'.source = "ldap" /\ draft'.rows = rows
      /\ draft'.mapping = headers
      /\ draft'.list = l /\ draft'.overwrite = TRUE
  BY <1>3 DEF Draft
<1>5. DraftOK(draft')
  BY <1>1, <1>2, <1>4 DEF DraftOK
<1> QED
  BY <1>3, <1>5, CountedOK DEF ImportInv

\* Choosing on the review page.
LEMMA KeepsMapping ==
  ASSUME ImportInv, NEW mapping \in Mappings \cup {draft.mapping},
         NEW l \in Targets, NEW overwrite \in BOOLEAN,
         update_mapping(mapping, l, overwrite)
  PROVE  ImportInv'
<1>1. DraftOK(draft')
  BY ChosenOK DEF update_mapping
<1>2. UNCHANGED book /\ Counted
  BY DEF update_mapping, Requested
<1> QED
  BY <1>1, <1>2, CountedOK DEF ImportInv

\* Finishing a review, with and without a column for the address.
LEMMA KeepsFinish ==
  ASSUME ImportInv, NEW mapping \in Mappings \cup {draft.mapping},
         NEW l \in Targets, NEW overwrite \in BOOLEAN,
         finish(mapping, l, overwrite)
  PROVE  ImportInv'
<1> DEFINE d == Chosen(mapping, l, overwrite)
           rows == first_per_email(apply_mapping(d.rows, d.mapping))
<1>1. DraftOK(d)
  BY ChosenOK DEF finish
<1>2. CASE "email" \notin Range(d.mapping)
  <2>1. draft' = d /\ UNCHANGED book /\ Counted
    BY <1>2 DEF finish, Requested
  <2> HIDE DEF d
  <2> QED
    BY <1>1, <2>1, CountedOK DEF ImportInv
<1>3. CASE "email" \in Range(d.mapping)
  <2>1. /\ book' = import_rows(book, rows, SourceOf(d), d.list, d.overwrite).book
        /\ draft' = NoDraft /\ Counted
    BY <1>3 DEF finish, AsImport
  <2> HIDE DEF d
  <2>2. rows \in Seq(Rows) /\ SourceOf(d) \in Sources
    BY <1>1, FinishedRows
  <2>3. d.list \in Targets /\ d.overwrite \in BOOLEAN
    BY <1>1 DEF DraftOK
  <2> HIDE DEF rows
  <2>4. book' \in DnBooks
    BY <2>1, <2>2, <2>3, ImportKeepsDn DEF ImportInv
  <2> QED
    BY <2>1, <2>4, CountedOK DEF ImportInv
<1> QED
  BY <1>2, <1>3

\* Cancelling a review.
LEMMA KeepsCancel ==
  ASSUME ImportInv, cancel
  PROVE  ImportInv'
BY CountedOK DEF ImportInv, cancel, Requested

\* Any import from the recipients pages.
LEMMA KeepsImport ==
  ASSUME ImportInv, NEW rows \in Seq(Rows), NEW source \in Sources, NEW file,
         NEW l \in Targets, NEW overwrite \in BOOLEAN,
         Import(rows, source, file, l, overwrite)
  PROVE  ImportInv'
<1>1. book' = import_rows(book, rows, source, l, overwrite).book
  BY DEF Import
<1>2. book' \in DnBooks
  BY <1>1, ImportKeepsDn DEF ImportInv
<1>3. Counted /\ UNCHANGED draft
  BY DEF Import, AsImport
<1> QED
  BY <1>2, <1>3, CountedOK DEF ImportInv

\* The row of the form of one recipient.
TypedRow(email, form) ==
  [f \in Fields |-> IF f = "email" THEN email
                   ELSE IF f \in Core \ {"display_name"} THEN form[f]
                   ELSE Blank]

\* The form of one new recipient makes a row.
LEMMA TypedRowType ==
  ASSUME NEW email \in Typed, NEW form \in Forms
  PROVE  <<TypedRow(email, form)>> \in Seq(Rows)
<1>1. email \in Cells /\ form \in [Core -> Cells] /\ Blank \in Cells
  BY PagesAssumption, ImportingAssumption
<1>2. TypedRow(email, form) \in Rows
  BY <1>1 DEF TypedRow, Rows
<1> QED
  BY <1>2

\* A paste makes rows.
LEMMA PastedRowsType ==
  ASSUME NEW entries \in Pastes
  PROVE  apply_mapping(parse_email_list(entries), PasteHeaders) \in Seq(Rows)
BY PasteType, ApplyMappingType

\* An uploaded file makes rows.
LEMMA CsvRowsType ==
  ASSUME NEW file \in Files
  PROVE  parse_csv(file) \in Seq(Rows)
<1>1. file \in Seq(Lines)
  BY PagesAssumption DEF Lines
<1> QED
  BY <1>1, ParseCsvType

\* The buttons over the list of recipients.
LEMMA KeepsBulk ==
  ASSUME ImportInv, NEW selected \in SUBSET Present,
         NEW action \in BulkActions, NEW l \in Lists,
         bulk_action(selected, action, l)
  PROVE  ImportInv'
<1> DEFINE changed(r) ==
             CASE action = "suppress"         -> [r EXCEPT !.suppressed = TRUE]
               [] action = "unsuppress"       -> [r EXCEPT !.suppressed = FALSE]
               [] action = "add_to_list"      -> add_to_list(r, l)
               [] action = "remove_from_list" -> [r EXCEPT !.lists = @ \ {l}]
               [] action = "delete"           -> Absent
<1>1. /\ book' = [e \in Addresses |->
                    IF e \in selected THEN changed(book[e]) ELSE book[e]]
      /\ UNCHANGED draft /\ Counted
  BY DEF bulk_action, Requested
<1>2. ASSUME NEW r \in Recipients, DnAgrees(r), changed(r) # Absent
      PROVE  changed(r) \in Recipients /\ DnAgrees(changed(r))
  <2>1. CASE action = "suppress"
    BY <1>2, <2>1 DEF Recipients, DnAgrees
  <2>2. CASE action = "unsuppress"
    BY <1>2, <2>2 DEF Recipients, DnAgrees
  <2>3. CASE action = "add_to_list"
    <3>1. l \in Targets /\ changed(r) = add_to_list(r, l)
      BY <2>3 DEF Targets
    <3>2. add_to_list(r, l) \in Recipients
      BY <3>1, AddedType
    <3>3. DnAgrees(add_to_list(r, l))
      BY <1>2 DEF add_to_list, Recipients, DnAgrees
    <3> QED
      BY <3>1, <3>2, <3>3
  <2>4. CASE action = "remove_from_list"
    BY <1>2, <2>4 DEF Recipients, DnAgrees
  <2>5. CASE action = "delete"
    BY <1>2, <2>5
  <2> QED
    BY <2>1, <2>2, <2>3, <2>4, <2>5 DEF BulkActions
<1> HIDE DEF changed
<1>3. \A e \in selected : book[e] \in Recipients /\ DnAgrees(book[e])
  BY DEF ImportInv, DnBooks, Books, Present
<1>4. book' \in DnBooks
  <2>1. \A e \in Addresses : book'[e] \in Recipients \cup {Absent}
    BY <1>1, <1>2, <1>3 DEF ImportInv, DnBooks, Books
  <2>2. \A e \in Addresses : book'[e] # Absent => DnAgrees(book'[e])
    BY <1>1, <1>2, <1>3 DEF ImportInv, DnBooks
  <2>3. book' \in Books
    BY <1>1, <2>1 DEF Books
  <2> QED
    BY <2>2, <2>3 DEF DnBooks
<1> QED
  BY <1>1, <1>4, CountedOK DEF ImportInv

\* The form of one recipient.
LEMMA KeepsUpdate ==
  ASSUME ImportInv, NEW e \in Present, NEW new \in Addresses,
         NEW form \in Forms, NEW suppressed \in BOOLEAN,
         NEW lists \in SUBSET Lists,
         update_recipient(e, new, form, suppressed, lists)
  PROVE  ImportInv'
<1> DEFINE r == book[e]
           s == [r EXCEPT !.core = form, !.suppressed = suppressed,
                          !.lists = lists]
<1>1. /\ book' = [book EXCEPT ![e] = Absent, ![new] = s]
      /\ UNCHANGED draft /\ Counted
  BY DEF update_recipient, Requested
<1>2. e \in Addresses /\ r \in Recipients /\ DnAgrees(r)
  BY DEF ImportInv, DnBooks, Books, Present
<1>3. form \in [Core -> Cells]
  BY PagesAssumption
<1> HIDE DEF r
<1>4. s \in Recipients /\ DnAgrees(s)
  BY <1>2, <1>3 DEF Recipients, DnAgrees
<1> HIDE DEF s
<1>5. book' \in DnBooks
  BY <1>1, <1>2, <1>4 DEF ImportInv, DnBooks, Books
<1> QED
  BY <1>1, <1>5, CountedOK DEF ImportInv

\* Deleting one recipient.
LEMMA KeepsDelete ==
  ASSUME ImportInv, NEW e \in Present, delete_recipient(e)
  PROVE  ImportInv'
<1>1. /\ book' = [book EXCEPT ![e] = Absent]
      /\ UNCHANGED draft /\ Counted
  BY DEF delete_recipient, Requested
<1>2. book' \in DnBooks
  BY <1>1 DEF ImportInv, DnBooks, Books
<1> QED
  BY <1>1, <1>2, CountedOK DEF ImportInv

\* The link of a message.
LEMMA KeepsUnsubscribe ==
  ASSUME ImportInv, NEW e \in Present, unsubscribe(e)
  PROVE  ImportInv'
<1> DEFINE s == [book[e] EXCEPT !.suppressed = TRUE]
<1>1. /\ book' = [book EXCEPT ![e] = s]
      /\ UNCHANGED draft /\ Counted
  BY DEF unsubscribe, Requested
<1>2. e \in Addresses /\ book[e] \in Recipients /\ DnAgrees(book[e])
  BY DEF ImportInv, DnBooks, Books, Present
<1>3. s \in Recipients /\ DnAgrees(s)
  BY <1>2 DEF Recipients, DnAgrees
<1> HIDE DEF s
<1>4. book' \in DnBooks
  BY <1>1, <1>2, <1>3 DEF ImportInv, DnBooks, Books
<1> QED
  BY <1>1, <1>4, CountedOK DEF ImportInv

\* Every request keeps the invariant.
LEMMA ImportStep ==
  ASSUME ImportInv, [Next]_vars
  PROVE  ImportInv'
<1>1. ASSUME NEW file \in Files, NEW l \in Targets, csv_upload(file, l)
      PROVE  ImportInv'
  BY <1>1, KeepsUpload
<1>2. ASSUME NEW entries \in Pastes, NEW l \in Targets, paste_submit(entries, l)
      PROVE  ImportInv'
  BY <1>2, KeepsPaste
<1>3. ASSUME NEW entries \in Searches, NEW l \in Targets, ldap_search(entries, l)
      PROVE  ImportInv'
  BY <1>3, KeepsSearch
<1>4. ASSUME NEW mapping \in Mappings \cup {draft.mapping}, NEW l \in Targets,
             NEW overwrite \in BOOLEAN,
             \/ update_mapping(mapping, l, overwrite)
             \/ finish(mapping, l, overwrite)
      PROVE  ImportInv'
  BY <1>4, KeepsMapping, KeepsFinish
<1>5. CASE cancel
  BY <1>5, KeepsCancel
<1>6. CASE Wizard
  BY <1>1, <1>2, <1>3, <1>4, <1>5, <1>6 DEF Wizard
<1>7. ASSUME NEW email \in Typed, NEW form \in Forms, NEW l \in Targets,
             add_recipient(email, form, l)
      PROVE  ImportInv'
  <2>1. Import(<<TypedRow(email, form)>>, "manual", <<>>, l, TRUE)
    BY <1>7 DEF add_recipient, TypedRow
  <2> QED
    BY <2>1, TypedRowType, KeepsImport DEF Sources
<1>8. ASSUME NEW entries \in Pastes, NEW l \in Targets,
             paste_recipients(entries, l)
      PROVE  ImportInv'
  <2>1. Import(apply_mapping(parse_email_list(entries), PasteHeaders),
               "manual", <<>>, l, TRUE)
    BY <1>8 DEF paste_recipients
  <2> QED
    BY <2>1, PastedRowsType, KeepsImport DEF Sources
<1>9. ASSUME NEW file \in Files, NEW l \in Targets, NEW overwrite \in BOOLEAN,
             import_csv(file, l, overwrite)
      PROVE  ImportInv'
  <2>1. Import(parse_csv(file), "csv", file, l, overwrite)
    BY <1>9 DEF import_csv
  <2> QED
    BY <2>1, CsvRowsType, KeepsImport DEF Sources
<1>10. CASE Pages
  BY <1>7, <1>8, <1>9, <1>10, KeepsBulk, KeepsUpdate, KeepsDelete,
     KeepsUnsubscribe DEF Pages
<1>11. CASE UNCHANGED vars
  BY <1>11 DEF vars, ImportInv
<1> QED
  BY <1>6, <1>10, <1>11 DEF Next

\* The invariant holds in every reachable state: recipients.ldap_dn and the DN in
\* extra_json agree, and a draft's rows stay those of its file.
THEOREM ImportInvariant == Spec => []ImportInv
BY ImportInit, ImportStep, PTL DEF Spec

\* TypeOK of ImportPages: the book holds recipients and every column of a draft's
\* mapping stands over a column of its rows, for files of any shape (read_csv pads
\* the short lines, importer.py).
THEOREM ImportsTypeCorrect == Spec => []TypeOK
BY ImportInvariant, ImportInvTypeOK, PTL

-----------------------------------------------------------------------------
(* Requests that import *)

\* The end of a review.
Reviewing(mapping, l, overwrite) ==
  /\ mapping \in Mappings \cup {draft.mapping}
  /\ l \in Targets /\ overwrite \in BOOLEAN
  /\ finish(mapping, l, overwrite)
  /\ "email" \in Range(Chosen(mapping, l, overwrite).mapping)

\* An import from the recipients pages.
OneShot(rows, source, file, l, overwrite) ==
  /\ rows \in Seq(Rows) /\ source \in Sources
  /\ l \in Targets /\ overwrite \in BOOLEAN
  /\ source = "csv" => file \in Files /\ rows = parse_csv(file)
  /\ Import(rows, source, file, l, overwrite)

\* A request is no import, the end of a review, or an import from the pages.
LEMMA ImportRequests ==
  ASSUME ImportInv, Next
  PROVE  \/ last' = NoImport
         \/ \E mapping, l, overwrite : Reviewing(mapping, l, overwrite)
         \/ \E rows, source, file, l, overwrite :
              OneShot(rows, source, file, l, overwrite)
<1> DEFINE Goal == \/ last' = NoImport
                   \/ \E mapping, l, overwrite : Reviewing(mapping, l, overwrite)
                   \/ \E rows, source, file, l, overwrite :
                        OneShot(rows, source, file, l, overwrite)
<1>1. ASSUME Requested PROVE Goal
  BY <1>1 DEF Requested
<1>2. ASSUME NEW mapping \in Mappings \cup {draft.mapping}, NEW l \in Targets,
             NEW overwrite \in BOOLEAN, finish(mapping, l, overwrite)
      PROVE  Goal
  <2>1. CASE "email" \notin Range(Chosen(mapping, l, overwrite).mapping)
    BY <1>1, <1>2, <2>1 DEF finish
  <2>2. CASE "email" \in Range(Chosen(mapping, l, overwrite).mapping)
    <3>1. Reviewing(mapping, l, overwrite)
      BY <1>2, <2>2 DEF Reviewing
    <3> QED
      BY <3>1
  <2> QED
    BY <2>1, <2>2
<1>3. ASSUME NEW email \in Typed, NEW form \in Forms, NEW l \in Targets,
             add_recipient(email, form, l)
      PROVE  Goal
  <2>1. Import(<<TypedRow(email, form)>>, "manual", <<>>, l, TRUE)
    BY <1>3 DEF add_recipient, TypedRow
  <2>2. OneShot(<<TypedRow(email, form)>>, "manual", <<>>, l, TRUE)
    BY <2>1, TypedRowType DEF OneShot, Sources
  <2> QED
    BY <2>2
<1>4. ASSUME NEW entries \in Pastes, NEW l \in Targets,
             paste_recipients(entries, l)
      PROVE  Goal
  <2> DEFINE rows == apply_mapping(parse_email_list(entries), PasteHeaders)
  <2>1. Import(rows, "manual", <<>>, l, TRUE)
    BY <1>4 DEF paste_recipients
  <2>2. OneShot(rows, "manual", <<>>, l, TRUE)
    BY <2>1, PastedRowsType DEF OneShot, Sources
  <2> QED
    BY <2>2
<1>5. ASSUME NEW file \in Files, NEW l \in Targets, NEW overwrite \in BOOLEAN,
             import_csv(file, l, overwrite)
      PROVE  Goal
  <2>1. Import(parse_csv(file), "csv", file, l, overwrite)
    BY <1>5 DEF import_csv
  <2>2. OneShot(parse_csv(file), "csv", file, l, overwrite)
    BY <2>1, CsvRowsType DEF OneShot, Sources
  <2> QED
    BY <2>2
<1> HIDE DEF Goal
<1>6. ASSUME Wizard PROVE Goal
  BY <1>1, <1>2, <1>6 DEF Wizard, csv_upload, paste_submit, ldap_search,
     update_mapping, cancel
<1>7. ASSUME Pages PROVE Goal
  BY <1>1, <1>3, <1>4, <1>5, <1>7 DEF Pages, bulk_action, update_recipient,
     delete_recipient, unsubscribe
<1>8. Goal
  BY <1>6, <1>7 DEF Next
<1> QED
  BY <1>8 DEF Goal

\* What the end of a review imports.
LEMMA ReviewImports ==
  ASSUME ImportInv, NEW mapping, NEW l, NEW overwrite,
         Reviewing(mapping, l, overwrite)
  PROVE  LET d    == Chosen(mapping, l, overwrite)
             rows == first_per_email(apply_mapping(d.rows, d.mapping))
         IN  /\ DraftOK(d) /\ draft # NoDraft
             /\ rows \in Seq(Rows) /\ SourceOf(d) \in Sources
             /\ book' = import_rows(book, rows, SourceOf(d), l, overwrite).book
             /\ draft' = NoDraft
             /\ last' = [source |-> draft.source, file |-> draft.file,
                         overwrite |-> overwrite, reviewed |-> d = draft]
<1> DEFINE d == Chosen(mapping, l, overwrite)
           rows == first_per_email(apply_mapping(d.rows, d.mapping))
<1>1. /\ mapping \in Mappings \cup {draft.mapping}
      /\ l \in Targets /\ overwrite \in BOOLEAN
      /\ MayChoose(mapping) /\ draft # NoDraft
  BY DEF Reviewing, finish, MayChoose
<1>2. /\ DraftOK(d)
      /\ d.source = draft.source /\ d.file = draft.file
      /\ d.list = l /\ d.overwrite = overwrite
  BY <1>1, ChosenOK
<1>3. /\ AsImport(d.source, d.file, overwrite, d = draft)
      /\ book' = import_rows(book, rows, SourceOf(d), d.list, d.overwrite).book
      /\ draft' = NoDraft
  BY DEF Reviewing, finish
<1> HIDE DEF d
<1>4. rows \in Seq(Rows) /\ SourceOf(d) \in Sources
  BY <1>2, FinishedRows
<1> HIDE DEF rows
<1>5. book' = import_rows(book, rows, SourceOf(d), l, overwrite).book
  BY <1>2, <1>3
<1>6. last' = [source |-> draft.source, file |-> draft.file,
               overwrite |-> overwrite, reviewed |-> d = draft]
  BY <1>2, <1>3 DEF AsImport
<1> QED
  BY <1>1, <1>2, <1>3, <1>4, <1>5, <1>6 DEF d, rows

-----------------------------------------------------------------------------
(* ImportsLoseNothing *)

\* What import_rows leaves loses nothing of anybody.
LEMMA ImportedLosesNothing ==
  ASSUME ImportInv, NEW rows \in Seq(Rows), NEW source \in Sources,
         NEW l \in Targets, NEW overwrite \in BOOLEAN,
         book' = import_rows(book, rows, source, l, overwrite).book,
         last'.overwrite = overwrite
  PROVE  \A e \in Present : LosesNothing(e)
<1> SUFFICES ASSUME NEW e \in Present PROVE LosesNothing(e)
  OBVIOUS
<1>1. e \in Addresses /\ book \in Books /\ book[e] # Absent
  BY DEF Present, ImportInv, DnBooks
<1>2. Gentle(book[e], book'[e], overwrite)
  BY <1>1, ImportIsGentle
<1> QED
  BY <1>2, AbsentAssumption DEF Gentle, LosesNothing, ChangedText

\* No request that imports loses anything.
LEMMA StepLosesNothing ==
  ASSUME ImportInv, Next
  PROVE  last' # NoImport => \A e \in Present : LosesNothing(e)
<1>1. CASE last' = NoImport
  BY <1>1
<1>2. ASSUME NEW mapping, NEW l, NEW overwrite, Reviewing(mapping, l, overwrite)
      PROVE  last' # NoImport => \A e \in Present : LosesNothing(e)
  <2> DEFINE d == Chosen(mapping, l, overwrite)
             rows == first_per_email(apply_mapping(d.rows, d.mapping))
  <2>1. /\ rows \in Seq(Rows) /\ SourceOf(d) \in Sources
        /\ book' = import_rows(book, rows, SourceOf(d), l, overwrite).book
        /\ last'.overwrite = overwrite
    BY <1>2, ReviewImports
  <2>2. l \in Targets /\ overwrite \in BOOLEAN
    BY <1>2 DEF Reviewing
  <2> HIDE DEF d, rows
  <2> QED
    BY <2>1, <2>2, ImportedLosesNothing
<1>3. ASSUME NEW rows, NEW source, NEW file, NEW l, NEW overwrite,
             OneShot(rows, source, file, l, overwrite)
      PROVE  last' # NoImport => \A e \in Present : LosesNothing(e)
  <2>1. /\ rows \in Seq(Rows) /\ source \in Sources
        /\ l \in Targets /\ overwrite \in BOOLEAN
        /\ book' = import_rows(book, rows, source, l, overwrite).book
        /\ last'.overwrite = overwrite
    BY <1>3 DEF OneShot, Import, AsImport
  <2> QED
    BY <2>1, ImportedLosesNothing
<1> QED
  BY <1>1, <1>2, <1>3, ImportRequests

\* ImportsLoseNothing: no import, from whatever source and however long, takes
\* anybody out of a list or off the suppression list, replaces a text by a blank,
\* or changes any text without "update existing" (import_rows, upsert_recipient).
THEOREM NothingIsLost == Spec => ImportsLoseNothing
<1>1. ImportInv /\ [Next]_vars =>
        [last' # NoImport => \A e \in Present : LosesNothing(e)]_vars
  BY StepLosesNothing
<1> QED
  BY <1>1, ImportInvariant, PTL DEF Spec, ImportsLoseNothing

-----------------------------------------------------------------------------
(* FirstLineArrives *)

\* In a headerless file every line with text is a line of the table.
LEMMA HeaderlessRows ==
  ASSUME NEW file \in Seq(Lines), Headerless(file),
         NEW k \in DOMAIN file, ~IsBlankLine(file[k])
  PROVE  /\ 1 \in 1..Width(file)
         /\ \E j \in DOMAIN read_csv(file).rows :
              /\ read_csv(file).rows[j] =
                   [i \in 1..Width(file) |-> CellAt(file[k], i)]
<1> DEFINE records == Records(file)
<1>1. /\ records \in Seq(Lines) /\ Width(file) \in Nat
      /\ \A j \in DOMAIN records : Len(records[j]) <= Width(file)
  BY RecordsType
<1>2. PICK order :
        /\ InOrder(order, Len(records), Len(file))
        /\ \A j \in 1..Len(records) :
             order[j] \in Filled(file) /\ records[j] = file[order[j]]
        /\ \A i \in Filled(file) \cap 1..Len(file) :
             \E j \in 1..Len(records) : order[j] = i
  BY PickedIs DEF Records
<1>3. /\ 1 \in Filled(file) /\ k \in Filled(file)
      /\ 1 \in 1..Len(file) /\ k \in 1..Len(file)
  BY DEF Headerless, Filled
<1> HIDE DEF records
<1>4. PICK j \in 1..Len(records) : order[j] = k
  BY <1>2, <1>3
<1>5. PICK a \in 1..Len(records) : order[a] = 1
  BY <1>2, <1>3
<1>6. Len(records) \in Nat /\ DOMAIN records = 1..Len(records)
  BY <1>1
<1>7. order[1] = 1
  <2>1. /\ order \in [1..Len(records) -> 1..Len(file)]
        /\ \A x, y \in 1..Len(records) : x < y => order[x] < order[y]
    BY <1>2 DEF InOrder
  <2>2. 1 \in 1..Len(records)
    BY <1>5, <1>6
  <2>3. order[1] \in 1..Len(file)
    BY <2>1, <2>2
  <2>4. a = 1
    BY <1>5, <1>6, <2>1, <2>2, <2>3
  <2> QED
    BY <1>5, <2>4
<1>8. records # <<>> /\ records[1] = file[1] /\ records[j] = file[k]
  BY <1>2, <1>4, <1>5, <1>6, <1>7
<1>9. Body(file) = records
  BY <1>8 DEF Body, Headerless, records
<1>10. read_csv(file).rows = [x \in DOMAIN records |->
                                [i \in 1..Width(file) |-> CellAt(records[x], i)]]
  BY <1>8, <1>9, ReadCsvIs DEF records
<1>11. Len(records[1]) >= 1
  <2>1. file[1] # <<>> /\ file[1] \in Lines
    BY <1>3 DEF Headerless, IsHeaderless, StartsWithAddress
  <2>2. Len(file[1]) \in Nat /\ Len(file[1]) # 0
    BY <2>1 DEF Lines
  <2> QED
    BY <1>8, <2>2
<1>12. 1 <= Width(file)
  <2>1. 1 \in DOMAIN records
    BY <1>5, <1>6
  <2>2. Len(records[1]) <= Width(file) /\ Len(records[1]) \in Nat
    <3>1. records[1] \in Lines
      BY <1>1, <2>1
    <3> QED
      BY <1>1, <2>1, <3>1 DEF Lines
  <2> QED
    BY <1>1, <1>11, <2>2
<1> QED
  BY <1>1, <1>4, <1>6, <1>8, <1>10, <1>12

\* The row of a line whose address, and nothing else, is taken from the first
\* column.
LEMMA EmailFromFirst ==
  ASSUME NEW mapping, IsSequence(mapping),
         NEW rows \in Seq([DOMAIN mapping -> Cells]),
         {i \in DOMAIN mapping : mapping[i] = "email"} = {1},
         NEW j \in DOMAIN rows
  PROVE  apply_mapping(rows, mapping)[j]["email"] = rows[j][1]
<1>1. 1 \in DOMAIN mapping
  OBVIOUS
<1>2. rows[j] \in [DOMAIN mapping -> Cells]
  <2> DEFINE T == [DOMAIN mapping -> Cells]
  <2>1. rows \in Seq(T)
    OBVIOUS
  <2> HIDE DEF T
  <2>2. rows[j] \in T
    BY <2>1
  <2> QED
    BY <2>2 DEF T
<1>3. CellAt(rows[j], 1) = rows[j][1]
  BY <1>1, <1>2 DEF CellAt
<1> DEFINE filled == {i \in DOMAIN mapping : /\ mapping[i] = "email"
                                             /\ CellAt(rows[j], i) # Blank}
<1>4. apply_mapping(rows, mapping)[j]["email"] =
        IF filled = {} THEN Blank ELSE rows[j][Max(filled)]
  BY DEF apply_mapping, Fields
<1>5. CASE rows[j][1] = Blank
  <2>1. filled = {}
    BY <1>3, <1>5
  <2> QED
    BY <1>4, <1>5, <2>1
<1>6. CASE rows[j][1] # Blank
  <2>1. filled = {1}
    BY <1>1, <1>3, <1>6
  <2> HIDE DEF filled
  <2>2. Max(filled) \in filled
    <3>1. filled \in SUBSET Nat /\ filled # {} /\ \A m \in filled : m <= 1
      BY <2>1
    <3> QED
      BY <3>1, GreatestNumber
  <2>3. Max(filled) = 1
    BY <2>1, <2>2
  <2> QED
    BY <1>4, <2>1, <2>3
<1> QED
  BY <1>5, <1>6

\* A line with text whose first cell is an address.
LEMMA FirstCell ==
  ASSUME NEW file \in Seq(Lines), NEW k \in DOMAIN file, ~IsBlankLine(file[k])
  PROVE  /\ file[k] \in Lines /\ 1 \in DOMAIN file[k]
         /\ CellAt(file[k], 1) = file[k][1]
<1>1. file[k] \in Lines
  OBVIOUS
<1>2. Len(file[k]) \in Nat /\ DOMAIN file[k] = 1..Len(file[k])
  BY <1>1 DEF Lines
<1>3. Len(file[k]) # 0
  BY <1>2 DEF IsBlankLine
<1> QED
  BY <1>1, <1>2, <1>3 DEF CellAt

\* The end of a review.
LEMMA ReviewedLineArrives ==
  ASSUME ImportInv, NEW mapping, NEW l, NEW overwrite,
         Reviewing(mapping, l, overwrite)
  PROVE  OfHeaderless => \A e \in FirstColumn(last'.file) \cap Emails :
                           book'[e] # Absent
<1> SUFFICES ASSUME last'.source = "csv", Headerless(last'.file),
                    last'.reviewed \/ UNCHANGED draft, FirstColumnIsEmail,
                    NEW e \in FirstColumn(last'.file) \cap Emails
             PROVE  book'[e] # Absent
  BY DEF OfHeaderless
<1> DEFINE d == Chosen(mapping, l, overwrite)
           read == apply_mapping(d.rows, d.mapping)
           rows == first_per_email(read)
           file == draft.file
<1>1. /\ DraftOK(d) /\ draft # NoDraft
      /\ rows \in Seq(Rows) /\ SourceOf(d) \in Sources
      /\ book' = import_rows(book, rows, SourceOf(d), l, overwrite).book
      /\ draft' = NoDraft
      /\ last'.source = draft.source /\ last'.file = file
      /\ last'.reviewed = (d = draft)
  BY ReviewImports
<1>2. d = draft
  BY <1>1
<1>3. l \in Targets /\ overwrite \in BOOLEAN /\ book \in Books
  BY DEF Reviewing, ImportInv, DnBooks
<1>4. /\ IsSequence(d.mapping) /\ d.rows \in Seq([DOMAIN d.mapping -> Cells])
      /\ file \in Files /\ d.rows = read_csv(file).rows
  BY <1>1, <1>2 DEF DraftOK
<1>5. {i \in DOMAIN d.mapping : d.mapping[i] = "email"} = {1}
  BY <1>1, <1>2 DEF FirstColumnIsEmail
<1>6. file \in Seq(Lines) /\ Headerless(file)
  BY <1>1, <1>4, PagesAssumption DEF Lines
<1>7. PICK k \in DOMAIN file : ~IsBlankLine(file[k]) /\ e = address[file[k][1]]
  BY <1>1 DEF FirstColumn
<1> HIDE DEF d, rows, read, file
<1>8. PICK j \in DOMAIN d.rows :
        d.rows[j] = [i \in 1..Width(file) |-> CellAt(file[k], i)]
  BY <1>4, <1>6, <1>7, HeaderlessRows
<1>9. d.rows[j][1] = file[k][1]
  BY <1>6, <1>7, <1>8, HeaderlessRows, FirstCell
<1>10. read \in Seq(Rows) /\ Len(read) = Len(d.rows)
  BY <1>4, ApplyMappingType DEF read
<1>11. read[j]["email"] = file[k][1]
  BY <1>4, <1>5, <1>9, EmailFromFirst DEF read
<1>12. j \in DOMAIN read
  <2> DEFINE T == [DOMAIN d.mapping -> Cells]
  <2>1. d.rows \in Seq(T)
    BY <1>4
  <2> HIDE DEF T
  <2> QED
    BY <1>10, <2>1
<1>13. Email(read[j]) = e /\ e \in Emails
  BY <1>7, <1>11 DEF Email, normalise_email
<1>14. PICK i \in Firsts(read) : Email(read[i]) = e
  BY <1>10, <1>12, <1>13, EverybodyHasAFirst
<1>15. e \in Emails
  <2>1. read[j] \in Rows
    BY <1>10, <1>12
  <2> QED
    BY <1>13, <2>1, EmailType
<1>16. book'[e] = Filed(book[e], read[i], SourceOf(d), l, overwrite)
  BY <1>1, <1>3, <1>10, <1>14, FirstsAreFiled DEF rows
<1>17. read[i] \in Rows /\ book[e] \in Recipients \cup {Absent}
  BY <1>3, <1>10, <1>14, <1>15 DEF Firsts, Books
<1>18. Filed(book[e], read[i], SourceOf(d), l, overwrite) \in Recipients
  BY <1>1, <1>3, <1>17, FiledType
<1> QED
  BY <1>16, <1>18, AbsentAssumption

\* The one-shot import, and the other pages.
LEMMA OneShotLineArrives ==
  ASSUME ImportInv, NEW rows, NEW source, NEW file, NEW l, NEW overwrite,
         OneShot(rows, source, file, l, overwrite)
  PROVE  OfHeaderless => \A e \in FirstColumn(last'.file) \cap Emails :
                           book'[e] # Absent
<1> SUFFICES ASSUME last'.source = "csv", Headerless(last'.file),
                    NEW e \in FirstColumn(last'.file) \cap Emails
             PROVE  book'[e] # Absent
  BY DEF OfHeaderless
<1>1. /\ rows \in Seq(Rows) /\ source \in Sources
      /\ l \in Targets /\ overwrite \in BOOLEAN /\ book \in Books
      /\ book' = import_rows(book, rows, source, l, overwrite).book
      /\ source = "csv" /\ last'.file = file
  BY DEF OneShot, Import, AsImport, ImportInv, DnBooks
<1>2. file \in Files /\ rows = parse_csv(file)
  BY <1>1 DEF OneShot
<1>3. file \in Seq(Lines) /\ Headerless(file)
  BY <1>1, <1>2, PagesAssumption DEF Lines
<1>4. PICK k \in DOMAIN file : ~IsBlankLine(file[k]) /\ e = address[file[k][1]]
  BY <1>1 DEF FirstColumn
<1> DEFINE all == [n \in DOMAIN file |-> CsvRow(<<"email">>, file[n])]
           places == {n \in DOMAIN all : all[n]["email"] # Blank}
<1>5. rows = Picked(all, places)
  <2> DEFINE names == [i \in DOMAIN file[1] |-> spaced_field(file[1][i])]
             named == \E i \in DOMAIN names : names[i] = "email"
  <2>1. /\ file # <<>> /\ StartsWithAddress(file[1])
        /\ ~HasEmailHeader(file[1])
    BY <1>3 DEF Headerless, IsHeaderless
  <2>2. file[1] \in Lines
    BY <1>3, <2>1
  <2>3. \A i \in DOMAIN file[1] :
          spaced_field(file[1][i]) = "email" => guess_field(file[1][i]) = "email"
    <3> SUFFICES ASSUME NEW i \in DOMAIN file[1],
                        file[1][i] \notin DOMAIN HEADER_ALIASES
                 PROVE  spaced_field(file[1][i]) # "email"
      BY DEF spaced_field, guess_field
    <3>1. file[1][i] \in Cells
      BY <2>2 DEF Lines
    <3>2. spaced_name \in [Cells \ DOMAIN HEADER_ALIASES ->
                             (Fields \ {"email"}) \cup {Blank}]
      BY HeadersAssumption
    <3>3. spaced_name[file[1][i]] # "email"
      BY <3>1, <3>2, ImportingAssumption
    <3> QED
      BY <3>3 DEF spaced_field
  <2>4. ~named
    BY <2>1, <2>3 DEF HasEmailHeader
  <2>5. parse_csv(file) = Picked(all, places)
    BY <2>1, <2>4 DEF parse_csv, CsvRow
  <2> QED
    BY <1>2, <2>5
<1>6. all \in Seq(Rows) /\ Len(all) = Len(file)
  <2>1. \A n \in 1..Len(file) : CsvRow(<<"email">>, file[n]) \in Rows
    <3>1. \A n \in 1..Len(file) : file[n] \in Lines
      BY <1>3
    <3> QED
      BY <3>1, CsvRowType
  <2> QED
    BY <1>3, <2>1
<1>7. all[k]["email"] = file[k][1]
  <2> DEFINE cols == {i \in DOMAIN <<"email">> \cap DOMAIN file[k] :
                        <<"email">>[i] = "email"}
  <2>1. 1 \in DOMAIN file[k]
    BY <1>3, <1>4, FirstCell
  <2>2. cols = {1}
    BY <2>1
  <2>3. all[k]["email"] = IF cols = {} THEN Blank ELSE file[k][Max(cols)]
    BY <1>4 DEF CsvRow, Fields
  <2> HIDE DEF cols
  <2>4. Max(cols) \in cols
    <3>1. cols \in SUBSET Nat /\ cols # {} /\ \A m \in cols : m <= 1
      BY <2>2
    <3> QED
      BY <3>1, GreatestNumber
  <2>5. Max(cols) = 1 /\ cols # {}
    BY <2>2, <2>4
  <2> QED
    BY <2>3, <2>5
<1> HIDE DEF all
<1>8. k \in places \cap 1..Len(all)
  <2>1. file[k][1] # Blank
    BY <1>4, ImportingAssumption
  <2> QED
    BY <1>3, <1>6, <1>7, <2>1
<1> HIDE DEF places
<1>9. \E i \in 1..Len(rows) : rows[i] = all[k]
  BY <1>5, <1>6, <1>8, PickedIs
<1>10. PICK i \in 1..Len(rows) : rows[i] = all[k]
  BY <1>9
<1>11. Email(rows[i]) = e /\ e \in Emails
  BY <1>4, <1>7, <1>10 DEF Email, normalise_email
<1> QED
  BY <1>1, <1>10, <1>11, NamedArrive

\* Every request.
LEMMA StepArrives ==
  ASSUME ImportInv, Next
  PROVE  OfHeaderless => \A e \in FirstColumn(last'.file) \cap Emails :
                           book'[e] # Absent
<1>1. CASE last' = NoImport
  BY <1>1 DEF OfHeaderless, NoImport
<1> QED
  BY <1>1, ImportRequests, ReviewedLineArrives, OneShotLineArrives

\* FirstLineArrives: in a file without a header, of any length, every address of
\* the first column arrives, that of the first line too (read_csv, parse_csv).
THEOREM FirstLinesArrive == Spec => FirstLineArrives
<1>1. ImportInv /\ [Next]_vars => [OfHeaderless =>
         \A e \in FirstColumn(last'.file) \cap Emails : book'[e] # Absent]_vars
  BY StepArrives
<1> QED
  BY <1>1, ImportInvariant, PTL DEF Spec, FirstLineArrives

-----------------------------------------------------------------------------
(* PreviewIsWhatHappens and ReviewedImportSettles *)

\* The first rows preview_rows counts as new, and as updates.
NewFirsts(recipients, rows) ==
  {i \in Firsts(rows) : recipients[Email(rows[i])] = Absent}

UpdatedFirsts(recipients, rows, source, overwrite) ==
  {i \in Firsts(rows) \ NewFirsts(recipients, rows) :
     overwrite /\ would_change(recipients[Email(rows[i])], rows[i], source)}

\* The counts of preview_rows are counts of first rows.
LEMMA PreviewCounts ==
  ASSUME NEW recipients, NEW rows, NEW source, NEW overwrite
  PROVE  LET p == preview_rows(recipients, rows, source, overwrite)
         IN  /\ p.new = Cardinality(NewFirsts(recipients, rows))
             /\ p.updated = Cardinality(UpdatedFirsts(recipients, rows, source,
                                                      overwrite))
<1>1. Firsts(rows) = {i \in {j \in DOMAIN rows : is_valid_email(rows[j]["email"])} :
                        IsFirst(rows, i)}
  BY DEF Firsts
<1> QED
  BY <1>1 DEF preview_rows, NewFirsts, UpdatedFirsts, Email

\* As many firsts as people, when every one of the people has a first.
LEMMA FirstsCountPeople ==
  ASSUME NEW rows \in Seq(Rows), NEW S \in SUBSET Firsts(rows),
         NEW T \in SUBSET Addresses,
         \A i \in S : Email(rows[i]) \in T,
         \A e \in T : \E i \in S : Email(rows[i]) = e
  PROVE  Cardinality(S) = Cardinality(T)
<1> DEFINE f == [i \in S |-> Email(rows[i])]
<1>1. IsFiniteSet(S)
  <2>1. S \subseteq 1..Len(rows) /\ Len(rows) \in Nat
    BY DEF Firsts
  <2>2. IsFiniteSet(1..Len(rows))
    BY <2>1, FS_Interval
  <2> QED
    BY <2>1, <2>2, FS_Subset
<1>2. f \in Injection(S, T)
  <2>1. f \in [S -> T]
    OBVIOUS
  <2>2. \A i, j \in S : f[i] = f[j] => i = j
    BY FirstsDiffer
  <2>3. IsInjective(f)
    BY <2>1, <2>2 DEF IsInjective
  <2> QED
    BY <2>1, <2>3 DEF Injection
<1>3. f \in Surjection(S, T)
  BY DEF Surjection
<1>4. ExistsBijection(S, T)
  BY <1>2, <1>3 DEF ExistsBijection, Bijection
<1> QED
  BY <1>1, <1>4, FS_Bijection

\* The text of a recipient after a row was filed with it.
LEMMA FiledChanges ==
  ASSUME NEW r \in Recipients, DnAgrees(r), NEW row \in Rows,
         NEW source \in Sources, NEW target \in Targets,
         NEW overwrite \in BOOLEAN
  PROVE  [Filed(r, row, source, target, overwrite) EXCEPT !.lists = r.lists] # r
           <=> overwrite /\ would_change(r, row, source)
<1> DEFINE over == Overwritten(r, row, source)
           filed == Filed(r, row, source, target, overwrite)
<1>1. r # Absent
  BY AbsentAssumption
<1>2. over \in Recipients /\ over.lists = r.lists
  BY OverwrittenType DEF Overwritten, Recipients
<1>3. \A s \in Recipients : s.lists = r.lists =>
        [add_to_list(s, target) EXCEPT !.lists = r.lists] = s
  BY DEF add_to_list, Recipients
<1>4. CASE overwrite
  <2>1. filed = add_to_list(over, target)
    BY <1>1, <1>4 DEF Filed
  <2> HIDE DEF filed, over
  <2>2. [filed EXCEPT !.lists = r.lists] = over
    BY <1>2, <1>3, <2>1
  <2>3. would_change(r, row, source) <=> over # r
    BY PreviewTellsTheTruth DEF over
  <2>4. [filed EXCEPT !.lists = r.lists] # r
          <=> overwrite /\ would_change(r, row, source)
    BY <1>4, <2>2, <2>3
  <2> QED
    BY <2>4 DEF filed
<1>5. CASE ~overwrite
  <2>1. filed = add_to_list(r, target)
    BY <1>1, <1>5 DEF Filed
  <2> HIDE DEF filed
  <2>2. [filed EXCEPT !.lists = r.lists] = r
    BY <1>3, <2>1
  <2>3. [filed EXCEPT !.lists = r.lists] # r
          <=> overwrite /\ would_change(r, row, source)
    BY <1>5, <2>2
  <2> QED
    BY <2>3 DEF filed
<1> QED
  BY <1>4, <1>5

\* After a row was filed, with overwriting or as a new recipient, it finds
\* nothing left to change.
LEMMA FiledSettles ==
  ASSUME NEW r \in Recipients \cup {Absent}, NEW row \in Rows,
         NEW source \in Sources, NEW target \in Targets, NEW overwrite
  PROVE  ~(overwrite /\ would_change(Filed(r, row, source, target, overwrite),
                                     row, source))
<1> SUFFICES ASSUME overwrite
             PROVE  ~would_change(Filed(r, row, source, target, overwrite),
                                  row, source)
  OBVIOUS
<1>1. ASSUME NEW s \in Recipients, ~would_change(s, row, source)
      PROVE  ~would_change(add_to_list(s, target), row, source)
  <2> DEFINE t == add_to_list(s, target)
  <2>1. /\ t.core = s.core /\ t.extra = s.extra
        /\ t.ldap_dn = s.ldap_dn /\ t.source = s.source
    BY DEF add_to_list, Recipients
  <2> HIDE DEF t
  <2>2. would_change(t, row, source) <=> would_change(s, row, source)
    BY <2>1 DEF would_change
  <2> QED
    BY <1>1, <2>2 DEF t
<1>2. CASE r = Absent
  <2> DEFINE s == Created(row, source)
  <2>1. s \in Recipients
    BY CreatedType
  <2>2. ~would_change(s, row, source)
    BY DEF would_change, Created
  <2>3. Filed(r, row, source, target, overwrite) = add_to_list(s, target)
    BY <1>2 DEF Filed
  <2> HIDE DEF s
  <2> QED
    BY <1>1, <2>1, <2>2, <2>3
<1>3. CASE r # Absent
  <2> DEFINE s == Overwritten(r, row, source)
  <2>1. s \in Recipients /\ r \in Recipients
    BY <1>3, OverwrittenType
  <2>2. /\ s.core = [f \in Core |-> Or(row[f], r.core[f])]
        /\ s.extra = [f \in Custom |-> Or(row[f], r.extra[f])]
        /\ s.ldap_dn = Or(row["ldap_dn"], r.ldap_dn)
        /\ s.source = IF source = "ldap" THEN "ldap" ELSE r.source
    BY <2>1 DEF Overwritten, Recipients
  <2>3. ~would_change(s, row, source)
    <3> HIDE DEF s
    <3> QED
      BY <2>2 DEF would_change, Or
  <2>4. Filed(r, row, source, target, overwrite) = add_to_list(s, target)
    BY <1>3 DEF Filed
  <2> HIDE DEF s
  <2> QED
    BY <1>1, <2>1, <2>3, <2>4
<1> QED
  BY <1>2, <1>3

\* Everything a reviewed import does, in terms of the first rows.
LEMMA ReviewedImport ==
  ASSUME ImportInv, Next, last'.reviewed
  PROVE  LET rows == apply_mapping(draft.rows, draft.mapping)
             src  == SourceOf(draft)
         IN  /\ rows \in Seq(Rows) /\ src \in Sources
             /\ draft.list \in Targets /\ draft.overwrite \in BOOLEAN
             /\ \A e \in Addresses :
                  (\A i \in Firsts(rows) : Email(rows[i]) # e) =>
                    book'[e] = book[e]
             /\ \A i \in Firsts(rows) :
                  book'[Email(rows[i])] =
                    Filed(book[Email(rows[i])], rows[i], src, draft.list,
                          draft.overwrite)
<1> DEFINE rows == apply_mapping(draft.rows, draft.mapping)
           src == SourceOf(draft)
<1>1. last' # NoImport
  BY DEF NoImport
<1>2. ~\E rs, source, file, l, overwrite : OneShot(rs, source, file, l, overwrite)
  BY DEF OneShot, Import, AsImport
<1>3. PICK mapping, l, overwrite : Reviewing(mapping, l, overwrite)
  BY <1>1, <1>2, ImportRequests
<1> DEFINE d == Chosen(mapping, l, overwrite)
           unique == first_per_email(apply_mapping(d.rows, d.mapping))
<1>4. /\ DraftOK(d)
      /\ book' = import_rows(book, unique, SourceOf(d), l, overwrite).book
      /\ last' = [source |-> draft.source, file |-> draft.file,
                  overwrite |-> overwrite, reviewed |-> d = draft]
  BY <1>3, ReviewImports
<1>5. d = draft
  <2> HIDE DEF d, unique
  <2> QED
    BY <1>4
<1>6. d.list = l /\ d.overwrite = overwrite
  BY <1>3, ChosenOK DEF Reviewing, finish
<1>7. l \in Targets /\ overwrite \in BOOLEAN
  BY <1>3 DEF Reviewing
<1>8. book' = import_rows(book, first_per_email(rows), src, draft.list,
                          draft.overwrite).book
  BY <1>4, <1>5, <1>6
<1>9. rows \in Seq(Rows) /\ src \in Sources
  BY <1>4, <1>5, FinishedRows
<1>10. draft.list \in Targets /\ draft.overwrite \in BOOLEAN
  BY <1>5, <1>6, <1>7
<1>11. book \in Books
  BY DEF ImportInv, DnBooks
<1> HIDE DEF rows, src, d, unique
<1>12. /\ \A e \in Addresses : (\A i \in Firsts(rows) : Email(rows[i]) # e) =>
                              book'[e] = book[e]
       /\ \A i \in Firsts(rows) :
            book'[Email(rows[i])] = Filed(book[Email(rows[i])], rows[i], src,
                                          draft.list, draft.overwrite)
  BY <1>8, <1>9, <1>10, <1>11, FirstsAreFiled
<1> QED
  BY <1>9, <1>10, <1>12 DEF rows, src

\* The first rows name people, and their recipients are recipients.
LEMMA FirstsNamePeople ==
  ASSUME NEW rows \in Seq(Rows), NEW i \in Firsts(rows)
  PROVE  rows[i] \in Rows /\ Email(rows[i]) \in Emails
<1>1. rows[i] \in Rows
  BY DEF Firsts
<1>2. Email(rows[i]) \in Emails
  BY DEF Firsts, is_valid_email, Email, normalise_email
<1> QED
  BY <1>1, <1>2, EmailType

\* The end of a review does what its page announced.
LEMMA StepKeepsPreview ==
  ASSUME ImportInv, Next
  PROVE  last'.reviewed => AsAnnounced
<1> SUFFICES ASSUME last'.reviewed
             PROVE  /\ Announced(book).new =
                         Cardinality({e \in Addresses : book[e] = Absent /\ book'[e] # Absent})
                    /\ Announced(book).updated =
                         Cardinality({e \in Present : ChangedText(e)})
  BY DEF AsAnnounced
<1> DEFINE rows == apply_mapping(draft.rows, draft.mapping)
           src == SourceOf(draft)
           l == draft.list
           overwrite == draft.overwrite
           arrived == {e \in Addresses : book[e] = Absent /\ book'[e] # Absent}
           changed == {e \in Present : ChangedText(e)}
           new == NewFirsts(book, rows)
           updated == UpdatedFirsts(book, rows, src, overwrite)
<1>1. /\ rows \in Seq(Rows) /\ src \in Sources
      /\ l \in Targets /\ overwrite \in BOOLEAN
      /\ \A e \in Addresses :
           (\A i \in Firsts(rows) : Email(rows[i]) # e) => book'[e] = book[e]
      /\ \A i \in Firsts(rows) :
           book'[Email(rows[i])] =
             Filed(book[Email(rows[i])], rows[i], src, l, overwrite)
  BY ReviewedImport
<1>2. /\ Announced(book).new = Cardinality(new)
      /\ Announced(book).updated = Cardinality(updated)
  BY PreviewCounts DEF Announced
<1>3. /\ book \in Books
      /\ \A e \in Addresses : book[e] # Absent =>
           book[e] \in Recipients /\ DnAgrees(book[e])
  BY DEF ImportInv, DnBooks, Books
<1> HIDE DEF rows, src, l, overwrite
<1>4. ASSUME NEW i \in Firsts(rows)
      PROVE  /\ rows[i] \in Rows /\ Email(rows[i]) \in Emails
             /\ book'[Email(rows[i])] \in Recipients
  <2>1. rows[i] \in Rows /\ Email(rows[i]) \in Emails
    BY <1>1, FirstsNamePeople
  <2>2. book[Email(rows[i])] \in Recipients \cup {Absent}
    BY <1>3, <2>1
  <2>3. Filed(book[Email(rows[i])], rows[i], src, l, overwrite) \in Recipients
    BY <1>1, <2>1, <2>2, FiledType
  <2> QED
    BY <1>1, <2>1, <2>3
<1>5. Cardinality(new) = Cardinality(arrived)
  <2>1. \A i \in new : Email(rows[i]) \in arrived
    BY <1>4, AbsentAssumption DEF NewFirsts
  <2>2. \A e \in arrived : \E i \in new : Email(rows[i]) = e
    BY <1>1 DEF NewFirsts
  <2>3. new \in SUBSET Firsts(rows) /\ arrived \in SUBSET Addresses
    BY DEF NewFirsts
  <2> HIDE DEF new, arrived
  <2> QED
    BY <1>1, <2>1, <2>2, <2>3, FirstsCountPeople
<1>6. ASSUME NEW i \in Firsts(rows), book[Email(rows[i])] # Absent
      PROVE  ChangedText(Email(rows[i])) <=>
               overwrite /\ would_change(book[Email(rows[i])], rows[i], src)
  <2> DEFINE r == book[Email(rows[i])]
  <2>1. r \in Recipients /\ DnAgrees(r) /\ rows[i] \in Rows
    BY <1>3, <1>4, <1>6
  <2>2. book'[Email(rows[i])] = Filed(r, rows[i], src, l, overwrite)
    BY <1>1
  <2>3. [Filed(r, rows[i], src, l, overwrite) EXCEPT !.lists = r.lists] # r
          <=> overwrite /\ would_change(r, rows[i], src)
    <3> HIDE DEF r
    <3> QED
      BY <1>1, <2>1, FiledChanges
  <2> QED
    BY <2>2, <2>3 DEF ChangedText
<1>7. Cardinality(updated) = Cardinality(changed)
  <2>1. \A i \in updated : Email(rows[i]) \in changed
    BY <1>4, <1>6 DEF UpdatedFirsts, NewFirsts, Present
  <2>2. ASSUME NEW e \in changed PROVE \E i \in updated : Email(rows[i]) = e
    <3>1. e \in Addresses /\ book[e] # Absent /\ ChangedText(e)
      BY DEF Present
    <3>2. book'[e] # book[e]
      <4>1. [book[e] EXCEPT !.lists = book[e].lists] = book[e]
        BY <1>3, <3>1 DEF Recipients
      <4> QED
        BY <3>1, <4>1 DEF ChangedText
    <3>3. PICK i \in Firsts(rows) : Email(rows[i]) = e
      BY <1>1, <3>1, <3>2
    <3>4. i \in updated
      BY <1>6, <3>1, <3>3 DEF UpdatedFirsts, NewFirsts
    <3> QED
      BY <3>3, <3>4
  <2>3. updated \in SUBSET Firsts(rows) /\ changed \in SUBSET Addresses
    BY DEF UpdatedFirsts, Present
  <2>4. \A e \in changed : \E i \in updated : Email(rows[i]) = e
    BY <2>2
  <2> HIDE DEF updated, changed
  <2> QED
    BY <1>1, <2>1, <2>3, <2>4, FirstsCountPeople
<1> QED
  BY <1>2, <1>5, <1>7

\* PreviewIsWhatHappens: the numbers of the review page are the numbers of
\* recipients its import creates and changes, for every file, mapping and book
\* (preview_rows against import_rows).
THEOREM PreviewsAreKept == Spec => PreviewIsWhatHappens
<1>1. ImportInv /\ [Next]_vars => [last'.reviewed => AsAnnounced]_vars
  BY StepKeepsPreview
<1> QED
  BY <1>1, ImportInvariant, PTL DEF Spec, PreviewIsWhatHappens

\* The end of a review leaves the same import nothing to do.
LEMMA StepSettles ==
  ASSUME ImportInv, Next
  PROVE  last'.reviewed => NothingLeft
<1> SUFFICES ASSUME last'.reviewed
             PROVE  Announced(book').new = 0 /\ Announced(book').updated = 0
  BY DEF NothingLeft
<1> DEFINE rows == apply_mapping(draft.rows, draft.mapping)
           src == SourceOf(draft)
           l == draft.list
           overwrite == draft.overwrite
<1>1. /\ rows \in Seq(Rows) /\ src \in Sources
      /\ l \in Targets /\ overwrite \in BOOLEAN
      /\ \A i \in Firsts(rows) :
           book'[Email(rows[i])] =
             Filed(book[Email(rows[i])], rows[i], src, l, overwrite)
  BY ReviewedImport
<1>2. /\ Announced(book').new = Cardinality(NewFirsts(book', rows))
      /\ Announced(book').updated =
           Cardinality(UpdatedFirsts(book', rows, src, overwrite))
  BY PreviewCounts DEF Announced
<1> HIDE DEF rows, src, l, overwrite
<1>3. ASSUME NEW i \in Firsts(rows)
      PROVE  /\ book'[Email(rows[i])] # Absent
             /\ ~(overwrite /\ would_change(book'[Email(rows[i])], rows[i], src))
  <2> DEFINE r == book[Email(rows[i])]
             filed == Filed(r, rows[i], src, l, overwrite)
  <2>1. rows[i] \in Rows /\ r \in Recipients \cup {Absent}
    BY <1>1, FirstsNamePeople DEF ImportInv, DnBooks, Books
  <2> HIDE DEF r
  <2>2. filed \in Recipients /\ ~(overwrite /\ would_change(filed, rows[i], src))
    BY <1>1, <2>1, FiledType, FiledSettles
  <2>3. book'[Email(rows[i])] = filed
    BY <1>1 DEF r
  <2> HIDE DEF filed
  <2> QED
    BY <2>2, <2>3, AbsentAssumption
<1>4. NewFirsts(book', rows) = {} /\ UpdatedFirsts(book', rows, src, overwrite) = {}
  BY <1>3 DEF NewFirsts, UpdatedFirsts
<1> QED
  BY <1>2, <1>4, FS_EmptySet

\* ReviewedImportSettles: importing the same draft a second time would create and
\* change nobody (would_change against upsert_recipient and first_per_email).
THEOREM ReviewedImportsSettle == Spec => ReviewedImportSettles
<1>1. ImportInv /\ [Next]_vars => [last'.reviewed => NothingLeft]_vars
  BY StepSettles
<1> QED
  BY <1>1, ImportInvariant, PTL DEF Spec, ReviewedImportSettles

=============================================================================
