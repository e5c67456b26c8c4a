------------------------------ MODULE Importing ------------------------------
(***************************************************************************)
(* The pure part of app/services/importer.py: what a file, a paste or a    *)
(* directory search becomes, and what importing it does to the recipients. *)
(*                                                                         *)
(* A cell is a piece of text; Blank is the empty one.  address[c] is what c*)
(* spells once trimmed and lower-cased, an address or not: several cells   *)
(* may spell the same.  A row is the dict of the source with its missing   *)
(* keys filled in: both are blank to every reader of a row.                *)
(*                                                                         *)
(* The book is the table "recipients": a recipient, or Absent, for every   *)
(* text its address may be, which an import has checked and the form of one*)
(* recipient has not.  Its "core" holds the columns first_name ... title,  *)
(* "extra" the keys of extra_json.                                         *)
(***************************************************************************)
EXTENDS Integers, Sequences, FiniteSets, SequencesExt

CONSTANTS
  Cells,          \* texts a column may hold
  Blank,          \* the empty text
  Emails,         \* addresses, normalised
  NoEmails,       \* normalised texts that are no address
  address,        \* what each cell spells
  first_word,     \* the first word of a name
  other_words,    \* the words after it
  HEADER_ALIASES, \* the recipient field of each known header
  guessed_name,   \* a header with "_" for each run of other than word characters
  spaced_name,    \* a header with "_" for each space
  Core,           \* the fields of a recipient with a column of their own
  Custom,         \* every other field name a row may have
  Column,         \* the names read_csv makes up: "Column 1", ...
  Lists,          \* ids of recipient lists
  NoList,         \* no target list
  Absent          \* no recipient with that address

Addresses == Emails \cup NoEmails

ASSUME ImportingAssumption ==
  /\ Blank \in Cells /\ Emails \cap NoEmails = {}
  /\ address \in [Cells -> Addresses]
  /\ address[Blank] \in NoEmails
  /\ first_word \in [Cells -> Cells] /\ other_words \in [Cells -> Cells]
  /\ {"display_name", "first_name", "last_name"} \subseteq Core
  /\ "email" \notin Core \cup Custom
  /\ Core \cap Custom = {}
  /\ "ldap_dn" \in Custom
  /\ Blank \notin {"email"} \cup Core \cup Custom
  /\ NoList \notin Lists

Fields == {"email"} \cup Core \cup Custom

\* "email" is a known header: no other becomes it by its spaces.
ASSUME HeadersAssumption ==
  LET others == Cells \ DOMAIN HEADER_ALIASES
  IN  /\ guessed_name \in [others -> Fields \cup {Blank}]
      /\ spaced_name \in [others -> (Fields \ {"email"}) \cup {Blank}]

Rows == [Fields -> Cells]

Recipients ==
  [core : [Core -> Cells], extra : [Custom -> Cells], ldap_dn : Cells,
   source : {"manual", "csv", "ldap"}, suppressed : BOOLEAN,
   lists : SUBSET Lists]

ASSUME AbsentAssumption == Absent \notin Recipients

\* The elements of a sequence at some of its places, in their order.
Picked(seq, places) ==
  LET upto[n \in 0..Len(seq)] ==
        IF n = 0 THEN <<>>
        ELSE IF n \in places THEN Append(upto[n - 1], seq[n])
        ELSE upto[n - 1]
  IN  upto[Len(seq)]

Books == [Addresses -> Recipients \cup {Absent}]

-----------------------------------------------------------------------------
(* One recipient *)

normalise_email(cell) == address[cell]

is_valid_email(cell) == address[cell] \in Emails

\* Python's "value or other".
Or(value, other) == IF value # Blank THEN value ELSE other

Created(row, source) ==
  [core |-> [f \in Core |-> row[f]], extra |-> [f \in Custom |-> row[f]],
   ldap_dn |-> row["ldap_dn"], source |-> source, suppressed |-> FALSE,
   lists |-> {}]

\* (Mistake: a column left empty empties the field.)
Overwritten_Blanks(r, row, source) ==
  [r EXCEPT !.core    = [f \in Core |-> row[f]],
            !.extra   = [f \in Custom |-> Or(row[f], r.extra[f])],
            !.ldap_dn = Or(row["ldap_dn"], @),
            !.source  = IF source = "ldap" THEN "ldap" ELSE @]

\* What an import makes of a recipient there already is.  Only text replaces
\* text; the suppression and the lists are not touched.
Overwritten(r, row, source) ==
  [r EXCEPT !.core    = [f \in Core |-> Or(row[f], r.core[f])],
            !.extra   = [f \in Custom |-> Or(row[f], r.extra[f])],
            !.ldap_dn = Or(row["ldap_dn"], @),
            !.source  = IF source = "ldap" THEN "ldap" ELSE @]

upsert_recipient(book, row, source, overwrite) ==
  LET e == normalise_email(row["email"])
      put(r, outcome) == [book |-> [book EXCEPT ![e] = r], outcome |-> outcome]
      new == Overwritten(book[e], row, source)
  IN  IF e \notin Emails THEN [book |-> book, outcome |-> "invalid"]
      ELSE IF book[e] = Absent THEN put(Created(row, source), "created")
      ELSE IF overwrite /\ new # book[e] THEN put(new, "updated")
      ELSE [book |-> book, outcome |-> "skipped"]

add_to_list(r, target) ==
  IF target = NoList THEN r ELSE [r EXCEPT !.lists = @ \cup {target}]

-----------------------------------------------------------------------------
(* Importing *)

NoResult == [created |-> 0, updated |-> 0, skipped |-> 0, invalid |-> 0]

\* One turn of the loop of import_rows: acc is the book and the counts so far.
ImportRow(acc, row, source, target, overwrite) ==
  LET e   == normalise_email(row["email"])
      put == upsert_recipient(acc.book, row, source, overwrite)
  IN  [book   |-> IF put.outcome = "invalid" THEN acc.book
                  ELSE [put.book EXCEPT ![e] = add_to_list(@, target)],
       result |-> [acc.result EXCEPT ![put.outcome] = @ + 1]]

\* The book afterwards and the ImportResult.
import_rows(book, rows, source, target, overwrite) ==
  LET after[n \in 0..Len(rows)] ==
        IF n = 0 THEN [book |-> book, result |-> NoResult]
        ELSE ImportRow(after[n - 1], rows[n], source, target, overwrite)
  IN  after[Len(rows)]

\* The rows that are the first one with their address.
IsFirst(rows, i) ==
  LET e == normalise_email(rows[i]["email"])
  IN  e \in Emails /\ \A j \in 1..(i - 1) :
                          normalise_email(rows[j]["email"]) # e

\* (Mistake: a later row with the address of an earlier one is kept.)
first_per_email_All(rows) == rows

first_per_email(rows) ==
  Picked(rows, {i \in DOMAIN rows : \/ ~is_valid_email(rows[i]["email"])
                                    \/ IsFirst(rows, i)})

\* (Mistake: a blank cell counts as a change.)
would_change_Blank(r, row, source) ==
  \/ \E f \in Core : row[f] # r.core[f]
  \/ \E f \in Custom \ {"ldap_dn"} : row[f] # Blank /\ r.extra[f] # row[f]
  \/ row["ldap_dn"] # Blank /\ r.ldap_dn # row["ldap_dn"]
  \/ source = "ldap" /\ r.source # "ldap"

\* _would_change: the preview's own account of what upsert_recipient changes.
would_change(r, row, source) ==
  \/ \E f \in Core : row[f] # Blank /\ r.core[f] # row[f]
  \/ \E f \in Custom \ {"ldap_dn"} : row[f] # Blank /\ r.extra[f] # row[f]
  \/ row["ldap_dn"] # Blank /\ r.ldap_dn # row["ldap_dn"]
  \/ source = "ldap" /\ r.source # "ldap"

preview_rows(book, rows, source, overwrite) ==
  LET email(i)  == normalise_email(rows[i]["email"])
      valid     == {i \in DOMAIN rows : is_valid_email(rows[i]["email"])}
      firsts    == {i \in valid : IsFirst(rows, i)}
      new       == {i \in firsts : book[email(i)] = Absent}
      updated   == {i \in firsts \ new :
                      overwrite /\ would_change(book[email(i)], rows[i], source)}
  IN  [new        |-> Cardinality(new),
       updated    |-> Cardinality(updated),
       unchanged  |-> Cardinality(firsts \ (new \cup updated)),
       duplicates |-> Cardinality(valid \ firsts),
       invalid    |-> Cardinality(DOMAIN rows \ valid)]

-----------------------------------------------------------------------------
(* Reading a file: a sequence of lines, each a sequence of cells. *)

IsBlankLine(line) == \A i \in DOMAIN line : line[i] = Blank

Filled(file) == {k \in DOMAIN file : ~IsBlankLine(file[k])}

CellAt(line, i) == IF i \in DOMAIN line THEN line[i] ELSE Blank

\* A recipient field, or a name made of the header itself.
guess_field(header) ==
  IF header \in DOMAIN HEADER_ALIASES THEN HEADER_ALIASES[header]
  ELSE guessed_name[header]

HasEmailHeader(line) == \E i \in DOMAIN line : guess_field(line[i]) = "email"

StartsWithAddress(line) == line # <<>> /\ is_valid_email(line[1])

\* The first line is a person already: no header names the email column.
IsHeaderless(line) == ~HasEmailHeader(line) /\ StartsWithAddress(line)

NoTable == [headers |-> <<>>, rows |-> <<>>]

\* (Mistake: every file has a header.)
read_csv_Header(file) ==
  LET records == Picked(file, Filled(file))
      width   == Max({0} \cup {Len(records[k]) : k \in DOMAIN records})
      body    == Tail(records)
  IN  IF records = <<>> THEN NoTable
      ELSE [headers |-> [i \in 1..width |->
                           IF i \in DOMAIN records[1] THEN records[1][i]
                           ELSE Column[i]],
            rows    |-> [k \in DOMAIN body |->
                           [i \in 1..width |-> CellAt(body[k], i)]]]

\* (Mistake: a line shorter than the others stays short.)
read_csv_Ragged(file) ==
  LET records == Picked(file, Filled(file))
      width   == Max({0} \cup {Len(records[k]) : k \in DOMAIN records})
      bare    == IsHeaderless(records[1])
  IN  IF records = <<>> THEN NoTable
      ELSE [headers |-> [i \in 1..width |->
                           IF ~bare /\ i \in DOMAIN records[1]
                           THEN records[1][i] ELSE Column[i]],
            rows    |-> IF bare THEN records ELSE Tail(records)]

\* The headers and the rows of a file, as wide as its longest line.
read_csv(file) ==
  LET records == Picked(file, Filled(file))
      width   == Max({0} \cup {Len(records[k]) : k \in DOMAIN records})
      bare    == IsHeaderless(records[1])
      body    == IF bare THEN records ELSE Tail(records)
  IN  IF records = <<>> THEN NoTable
      ELSE [headers |-> [i \in 1..width |->
                           IF ~bare /\ i \in DOMAIN records[1]
                           THEN records[1][i] ELSE Column[i]],
            rows    |-> [k \in DOMAIN body |->
                           [i \in 1..width |-> CellAt(body[k], i)]]]

\* A column of addresses: every cell it has in the first rows is one.
HoldsAddresses(rows, i, sample) ==
  LET filled == {k \in DOMAIN rows : k <= sample /\ CellAt(rows[k], i) # Blank}
  IN  filled # {} /\ \A k \in filled : is_valid_email(rows[k][i])

SampleSize == 20

\* Without an email header the first column of addresses is the email; a
\* field that two columns ask for goes to the first of them.
default_mapping(headers, rows) ==
  LET guess == [i \in DOMAIN headers |-> guess_field(headers[i])]
      found == {i \in DOMAIN headers : HoldsAddresses(rows, i, SampleSize)}
      named == IF HasEmailHeader(headers) \/ found = {} THEN guess
               ELSE [guess EXCEPT ![Min(found)] = "email"]
  IN  [i \in DOMAIN named |->
         IF \E j \in 1..(i - 1) : named[j] = named[i] THEN Blank ELSE named[i]]

\* Among the columns of one field the last one with text counts.
apply_mapping(rows, mapping) ==
  [k \in DOMAIN rows |->
     [f \in Fields |->
        LET filled == {i \in DOMAIN mapping : /\ mapping[i] = f
                                              /\ CellAt(rows[k], i) # Blank}
        IN  IF filled = {} THEN Blank ELSE rows[k][Max(filled)]]]

\* What parse_csv takes a header for, which differs from guess_field in a header
\* with a hyphen or a colon.
spaced_field(header) ==
  IF header \in DOMAIN HEADER_ALIASES THEN HEADER_ALIASES[header]
  ELSE spaced_name[header]

\* The one-shot import: among the columns of one field the last one counts,
\* blank or not, and a row without an address is dropped.  A file whose first
\* line is blank has no email column.
parse_csv(file) ==
  LET first   == file[1]
      names   == [i \in DOMAIN first |-> spaced_field(first[i])]
      named   == \E i \in DOMAIN names : names[i] = "email"
      bare    == ~named /\ StartsWithAddress(first)
      mapping == IF bare THEN <<"email">> ELSE names
      body    == IF bare THEN file ELSE Tail(file)
      row(line) ==
        [f \in Fields |->
           LET cols == {i \in DOMAIN mapping \cap DOMAIN line : mapping[i] = f}
           IN  IF cols = {} THEN Blank ELSE line[Max(cols)]]
      rows    == [k \in DOMAIN body |-> row(body[k])]
  IN  IF file = <<>> \/ ~(bare \/ named) THEN <<>>
      ELSE Picked(rows, {k \in DOMAIN rows : rows[k]["email"] # Blank})

\* Pasted text: a sequence of [email, name], the name Blank unless the entry
\* has the form "Jane Doe <jane@example.com>".
PasteHeaders == <<"email", "display_name", "first_name", "last_name">>

parse_email_list(entries) ==
  [k \in DOMAIN entries |->
     LET name == entries[k].name
     IN  <<entries[k].email, name, first_word[name], other_words[name]>>]

\* The rows of a directory search: every attribute the profile maps is there.
ldap_entries_to_rows(entries) ==
  [k \in DOMAIN entries |->
     [f \in Fields |-> IF f \in DOMAIN entries[k] THEN entries[k][f] ELSE Blank]]

=============================================================================
