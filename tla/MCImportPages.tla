---------------------------- MODULE MCImportPages ----------------------------
EXTENDS ImportPages

Texts == {"", "ann@x", "ANN@x", "bob@x", "Ann", "Ann Name", "E-Mail", "Email:",
          "Name", "ldap_dn", "Column 1", "Column 2"}

InForms == {"ANN@x", "Ann"}

SomeForms ==
  { [display_name |-> "", first_name |-> "", last_name |-> ""],
    [display_name |-> "Ann", first_name |-> "Ann", last_name |-> ""] }

Spells ==
  [c \in Texts |-> CASE c \in {"ann@x", "ANN@x"} -> "ann"
                     [] c = "bob@x" -> "bob"
                     [] OTHER -> "none"]

\* Of the names in the pastes.
FirstWords == [c \in Texts |-> IF c = "Ann Name" THEN "Ann" ELSE c]

OtherWords == [c \in Texts |-> IF c = "Ann Name" THEN "Name" ELSE ""]

Aliases == [h \in {"E-Mail", "Name"} |->
              IF h = "E-Mail" THEN "email" ELSE "display_name"]

Guesses ==
  [c \in Texts \ DOMAIN Aliases |->
     CASE c \in {"ann@x", "ANN@x"} -> "ann_x"
       [] c = "bob@x" -> "bob_x"
       [] c = "Ann" -> "ann"
       [] c = "Ann Name" -> "ann_name"
       [] c = "Email:" -> "email"
       [] c = "Column 1" -> "column_1"
       [] c = "Column 2" -> "column_2"
       [] OTHER -> c]

Spaces ==
  [c \in Texts \ DOMAIN Aliases |->
     CASE c \in {"ann@x", "ANN@x"} -> "ann@x"
       [] c = "bob@x" -> "bob@x"
       [] c = "Email:" -> "email:"
       [] OTHER -> Guesses[c]]

MadeUp == <<"Column 1", "Column 2">>

OtherFields == {"ldap_dn", "column_1", "column_2", "ann_x", "bob_x", "ann@x",
                "bob@x", "ann", "ann_name", "email:"}

\* The same person twice, spelled differently; headerless; the address in a column
\* named otherwise; a blank line first; a second email column; a header that one
\* reader takes for the address and the other does not.
SomeFiles ==
  { << <<"E-Mail", "Name">>, <<"ann@x", "Ann">>, <<"ANN@x", "Name">> >>,
    << <<"ann@x", "Ann">>, <<"bob@x">> >>,
    << <<"Name", "ldap_dn">>, <<"", "Ann">>, <<"Ann", "bob@x">> >>,
    << <<"", "">>, <<"ann@x", "">>, <<"Ann", "Ann">> >>,
    << <<"E-Mail", "E-Mail">>, <<"ann@x", "">>, <<"", "bob@x">> >>,
    << <<"E-Mail", "Email:">>, <<"ann@x", "bob@x">> >> }

SomePastes ==
  { << [email |-> "ann@x", name |-> ""], [email |-> "Ann", name |-> ""] >>,
    << [email |-> "ANN@x", name |-> "Ann Name"] >> }

SomeSearches ==
  { << [email |-> "ann@x", display_name |-> "Ann", ldap_dn |-> "Ann"],
       [email |-> "", display_name |-> "", ldap_dn |-> "Name"] >>,
    << [email |-> "bob@x", display_name |-> "", ldap_dn |-> "Name"] >> }

SomeMappings ==
  { <<"email", "display_name">>, <<"display_name", "email">>, <<"", "email">>,
    <<"email", "email">>, <<"email", "ldap_dn">>, <<"", "display_name">> }

=============================================================================
