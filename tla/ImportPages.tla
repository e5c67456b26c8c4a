----------------------------- MODULE ImportPages -----------------------------
(***************************************************************************)
(* What the import wizard and the recipients pages do to the recipients,   *)
(* one request after the other: app/routers/import_wizard.py and           *)
(* app/routers/recipients.py over app/services/importer.py.  The races     *)
(* between requests, and the life of a draft, are in Directory.            *)
(***************************************************************************)
EXTENDS Importing

CONSTANTS
  Files,        \* files that may be uploaded
  Pastes,       \* texts that may be pasted, as sequences of [email, name]
  Searches,     \* answers a directory may give, as sequences of entries
  Mappings,     \* mappings a reviewer may choose for a file
  Typed,        \* what may be typed for the address of one recipient
  Forms,        \* what may be typed for the other fields
  NoDraft,      \* no import is being reviewed
  MaxRequests   \* bound: how many requests change something

ASSUME PagesAssumption ==
  /\ MaxRequests \in Nat
  /\ Typed \subseteq Cells /\ Forms \subseteq [Core -> Cells]
  /\ Files \subseteq Seq(Seq(Cells))
  /\ Pastes \subseteq Seq([email : Cells, name : Cells])
  /\ \A entries \in Searches :
       /\ entries \in Seq(Range(entries))
       /\ \A k \in DOMAIN entries :
            /\ entries[k] \in [DOMAIN entries[k] -> Cells]
            /\ DOMAIN entries[k] \subseteq Fields
            /\ IsFiniteSet(DOMAIN entries[k])
  /\ \A mapping \in Mappings : mapping \in Seq(Range(mapping))

VARIABLES
  book,         \* the table "recipients" and its lists
  draft,        \* the row of import_drafts the user is reviewing
  requests,     \* how many requests were handled
  last          \* history: the import the last request was, or NoImport

vars == <<book, draft, requests, last>>

Targets == Lists \cup {NoList}

NoImport == [source |-> "none", file |-> <<>>, overwrite |-> FALSE,
             reviewed |-> FALSE]

Counted == requests < MaxRequests /\ requests' = requests + 1

\* A request that imports nothing.
Requested == Counted /\ last' = NoImport

\* One that imports, with or without overwriting, as reviewed or not.
AsImport(source, file, overwrite, reviewed) ==
  /\ Counted
  /\ last' = [source |-> source, file |-> file, overwrite |-> overwrite,
              reviewed |-> reviewed]

Present == {e \in Addresses : book[e] # Absent}

-----------------------------------------------------------------------------
(* The wizard *)

\* SOURCES: what a recipient's source becomes.
SourceOf(d) == IF d.source = "paste" THEN "manual" ELSE d.source

\* _save_draft: only a file has column names to interpret.
Draft(source, file, headers, rows, l) ==
  [source |-> source, file |-> file, rows |-> rows,
   mapping |-> IF source = "csv" THEN default_mapping(headers, rows)
               ELSE headers,
   list |-> l, overwrite |-> TRUE]

csv_upload(file, l) ==
  LET table == read_csv(file)
  IN  /\ Requested
      /\ table.rows # <<>>
      /\ draft' = Draft("csv", file, table.headers, table.rows, l)
      /\ UNCHANGED book

paste_submit(entries, l) ==
  /\ Requested
  /\ entries # <<>>
  /\ draft' = Draft("paste", <<>>, PasteHeaders, parse_email_list(entries), l)
  /\ UNCHANGED book

\* The columns are the names that occur in an entry, in any order.
ldap_search(entries, l) ==
  LET headers == SetToSeq(UNION {DOMAIN entries[k] : k \in DOMAIN entries})
      dicts   == ldap_entries_to_rows(entries)
      rows    == [k \in DOMAIN dicts |->
                    [i \in DOMAIN headers |-> dicts[k][headers[i]]]]
  IN  /\ Requested
      /\ entries # <<>>
      /\ draft' = Draft("ldap", <<>>, headers, rows, l)
      /\ UNCHANGED book

\* The draft with what the form of the review page says.
Chosen(mapping, l, overwrite) ==
  [draft EXCEPT !.mapping = IF draft.source = "csv" THEN mapping ELSE @,
                !.list = l, !.overwrite = overwrite]

MayChoose(mapping) ==
  /\ draft # NoDraft
  /\ IF draft.source = "csv" THEN Len(mapping) = Len(draft.mapping)
     ELSE mapping = draft.mapping

update_mapping(mapping, l, overwrite) ==
  /\ Requested
  /\ MayChoose(mapping)
  /\ draft' = Chosen(mapping, l, overwrite)
  /\ UNCHANGED book

\* Without a column for the address the page comes back, choices kept.
finish(mapping, l, overwrite) ==
  LET d    == Chosen(mapping, l, overwrite)
      rows == first_per_email(apply_mapping(d.rows, d.mapping))
  IN  /\ MayChoose(mapping)
      /\ IF "email" \notin Range(d.mapping)
         THEN Requested /\ draft' = d /\ UNCHANGED book
         ELSE /\ AsImport(d.source, d.file, overwrite, d = draft)
              /\ book' = import_rows(book, rows, SourceOf(d), d.list,
                                     d.overwrite).book
              /\ draft' = NoDraft

cancel ==
  /\ Requested
  /\ draft # NoDraft
  /\ draft' = NoDraft
  /\ UNCHANGED book

-----------------------------------------------------------------------------
(* The recipients pages *)

Import(rows, source, file, l, overwrite) ==
  /\ AsImport(source, file, overwrite, FALSE)
  /\ book' = import_rows(book, rows, source, l, overwrite).book
  /\ UNCHANGED draft

\* The form of a new recipient does not ask for the display name.
add_recipient(email, form, l) ==
  LET row == [f \in Fields |->
                IF f = "email" THEN email
                ELSE IF f \in Core \ {"display_name"} THEN form[f]
                ELSE Blank]
  IN  Import(<<row>>, "manual", <<>>, l, TRUE)

paste_recipients(entries, l) ==
  /\ entries # <<>>
  /\ Import(apply_mapping(parse_email_list(entries), PasteHeaders),
            "manual", <<>>, l, TRUE)

import_csv(file, l, overwrite) ==
  /\ parse_csv(file) # <<>>
  /\ Import(parse_csv(file), "csv", file, l, overwrite)

\* The recipients ticked, or all that match the filter.
bulk_action(selected, action, l) ==
  LET changed(r) ==
        CASE action = "suppress"         -> [r EXCEPT !.suppressed = TRUE]
          [] action = "unsuppress"       -> [r EXCEPT !.suppressed = FALSE]
          [] action = "add_to_list"      -> add_to_list(r, l)
          [] action = "remove_from_list" -> [r EXCEPT !.lists = @ \ {l}]
          [] action = "delete"           -> Absent
  IN  /\ Requested
      /\ selected # {}
      /\ book' = [e \in Addresses |->
                    IF e \in selected THEN changed(book[e]) ELSE book[e]]
      /\ UNCHANGED draft

\* The form of one recipient.  It may change the address to any text that is free,
\* address or not, and posts the suppression and the lists along with the rest.
update_recipient(e, new, form, suppressed, lists) ==
  /\ Requested
  /\ new = e \/ book[new] = Absent
  /\ book' = [book EXCEPT ![e] = Absent,
                          ![new] = [book[e] EXCEPT !.core = form,
                                                   !.suppressed = suppressed,
                                                   !.lists = lists]]
  /\ UNCHANGED draft

delete_recipient(e) ==
  /\ Requested
  /\ book' = [book EXCEPT ![e] = Absent]
  /\ UNCHANGED draft

\* app/routers/public.py: the link of a message.
unsubscribe(e) ==
  /\ Requested
  /\ book' = [book EXCEPT ![e].suppressed = TRUE]
  /\ UNCHANGED draft

-----------------------------------------------------------------------------

Init ==
  /\ book = [e \in Addresses |-> Absent]
  /\ draft = NoDraft
  /\ requests = 0
  /\ last = NoImport

BulkActions ==
  {"suppress", "unsuppress", "add_to_list", "remove_from_list", "delete"}

Wizard ==
  \/ \E file \in Files, l \in Targets : csv_upload(file, l)
  \/ \E entries \in Pastes, l \in Targets : paste_submit(entries, l)
  \/ \E entries \in Searches, l \in Targets : ldap_search(entries, l)
  \/ /\ draft # NoDraft
     /\ \E mapping \in Mappings \cup {draft.mapping}, l \in Targets,
           overwrite \in BOOLEAN :
          \/ update_mapping(mapping, l, overwrite)
          \/ finish(mapping, l, overwrite)
  \/ cancel

Pages ==
  \/ \E email \in Typed, form \in Forms, l \in Targets :
       add_recipient(email, form, l)
  \/ \E entries \in Pastes, l \in Targets : paste_recipients(entries, l)
  \/ \E file \in Files, l \in Targets, overwrite \in BOOLEAN :
       import_csv(file, l, overwrite)
  \/ \E selected \in SUBSET Present, action \in BulkActions, l \in Lists :
       bulk_action(selected, action, l)
  \/ \E e \in Present, new \in Addresses, form \in Forms,
        lists \in SUBSET Lists, suppressed \in BOOLEAN :
       update_recipient(e, new, form, suppressed, lists)
  \/ \E e \in Present : delete_recipient(e) \/ unsubscribe(e)

Next == Wizard \/ Pages

Spec == Init /\ [][Next]_vars

-----------------------------------------------------------------------------
(* Properties *)

\* The book and the draft have the shapes the readers of them expect: every
\* column of a draft's mapping stands over a column of its rows.
TypeOK ==
  /\ book \in Books
  /\ requests \in 0..MaxRequests
  /\ draft # NoDraft =>
       /\ draft.source \in {"csv", "paste", "ldap"}
       /\ draft.list \in Targets /\ draft.overwrite \in BOOLEAN
       /\ \A k \in DOMAIN draft.rows :
            draft.rows[k] \in [DOMAIN draft.mapping -> Cells]

\* What the review page announces (preview_rows).
Announced(recipients) ==
  preview_rows(recipients, apply_mapping(draft.rows, draft.mapping),
               SourceOf(draft), draft.overwrite)

ChangedText(e) == [book'[e] EXCEPT !.lists = book[e].lists] # book[e]

AsAnnounced ==
  /\ Announced(book).new =
       Cardinality({e \in Addresses : book[e] = Absent /\ book'[e] # Absent})
  /\ Announced(book).updated = Cardinality({e \in Present : ChangedText(e)})

\* The import does what its review page said: as many new recipients, and as
\* many changed ones, whatever the file repeats.  ("What import_rows would do
\* with these rows", importer.py:337.)
PreviewIsWhatHappens == [][last'.reviewed => AsAnnounced]_vars

NothingLeft == Announced(book').new = 0 /\ Announced(book').updated = 0

\* The same import again would change nobody: the rows do not fight over a
\* recipient, and nothing an import writes reads as a difference.
ReviewedImportSettles == [][last'.reviewed => NothingLeft]_vars

LosesNothing(e) ==
  /\ book'[e] # Absent
  /\ book'[e].suppressed = book[e].suppressed
  /\ book[e].lists \subseteq book'[e].lists
  /\ \A f \in Core : book'[e].core[f] = Blank => book[e].core[f] = Blank
  /\ \A f \in Custom : book'[e].extra[f] = Blank => book[e].extra[f] = Blank
  /\ ~last'.overwrite => ~ChangedText(e)

\* An import loses nothing: nobody leaves a list or is taken off the
\* suppression list, no text gives way to a blank; without "update existing"
\* no text changes at all.
ImportsLoseNothing ==
  [][last' # NoImport => \A e \in Present : LosesNothing(e)]_vars

FirstColumn(file) ==
  {address[file[k][1]] : k \in {j \in DOMAIN file : ~IsBlankLine(file[j])}}

Headerless(file) ==
  file # <<>> /\ ~IsBlankLine(file[1]) /\ IsHeaderless(file[1])

\* The addresses are read from the first column, and from no other.
FirstColumnIsEmail ==
  last'.reviewed =>
    {i \in DOMAIN draft.mapping : draft.mapping[i] = "email"} = {1}

\* The imports of a headerless file that take the address from its first column.
OfHeaderless ==
  /\ last'.source = "csv" /\ Headerless(last'.file)
  /\ last'.reviewed \/ UNCHANGED draft
  /\ FirstColumnIsEmail

\* In a file without a header the first line is a person like the others:
\* every address of the first column arrives, by the wizard and by the one-shot
\* import.
FirstLineArrives ==
  [][OfHeaderless => \A e \in FirstColumn(last'.file) \cap Emails :
                       book'[e] # Absent]_vars

=============================================================================
