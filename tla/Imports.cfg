SPECIFICATION Spec
CONSTANTS
  Blank = ""
  Emails = {"ann", "bob"}
  NoEmails = {"none"}
  Core = {"display_name", "first_name", "last_name"}
  Lists = {"l1"}
  NoList = "none"
  Absent = Absent
  NoDraft = NoDraft
  Cells <- Texts
  address <- Spells
  first_word <- FirstWords
  other_words <- OtherWords
  HEADER_ALIASES <- Aliases
  guessed_name <- Guesses
  spaced_name <- Spaces
  Custom <- OtherFields
  Column <- MadeUp
  Files <- SomeFiles
  Pastes <- SomePastes
  Searches <- SomeSearches
  Mappings <- SomeMappings
  Typed <- InForms
  Forms <- SomeForms
  MaxRequests = 4
INVARIANTS
  TypeOK
PROPERTIES
  PreviewIsWhatHappens
  ReviewedImportSettles
  ImportsLoseNothing
  FirstLineArrives
CHECK_DEADLOCK FALSE
