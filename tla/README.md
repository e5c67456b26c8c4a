# Bulk Mailer in TLA+

Bulk Mailer is a FastAPI application that imports recipients, composes
campaigns and sends them from a background thread. One process with SQLite, or
any number of instances sharing PostgreSQL. This directory holds TLA+ modules of
the parts where a wrong order of steps would cost somebody a message, a second
copy, a place on a list or the way in; TLC configurations that check them on
small instances; and proofs for every instance.

Paths are relative to the repository (`app/...` is `src/app/...` in
`PROJECT.json`). `PROJECT.json` maps each definition to the lines it models.

## 1. Inventory

| Component | Code | State | Operations | Status |
|---|---|---|---|---|
| Campaign rows, audience | `app/models.py`, `app/db.py` | `campaigns`, `campaign_recipients`, `recipients.is_suppressed` | written by the next three | modelled |
| Campaign handlers | `app/routers/campaigns.py` | a request's session: what it has read | send, pause, resume, cancel, retry_failed, update, load_template, update_audience, remove_entry, delete; create, duplicate | all but create and duplicate |
| Sender worker | `app/services/sender.py` | a thread per process: position, locals of `_send_campaign`, `_stopping`; lease and `claimed_by` in the row | claim, load, loop, renew, send, record, finish, fail, release | modelled |
| Process start and stop | `app/main.py`, `start_worker`, `stop_worker` | thread object, startup lock | bootstrap, start, stop, crash | requeue, administrators, stop |
| Mailer | `app/services/mailer.py` | an SMTP connection | connect, send, one reconnect | as outcomes |
| Suppression, recipients pages | `app/routers/public.py`, `recipients.py` | recipients, lists, flags | add, paste, edit, bulk actions, delete, unsubscribe | modelled |
| Import wizard | `app/routers/import_wizard.py`, `services/importer.py` | drafts between requests | upload, paste, search, map, finish, cancel, sweep | modelled |
| Directory sync | `app/services/ldap_sync.py` | `last_synced_at`, members of a list; a thread per process | sync due lists, sync now, switch a list | modelled |
| Accounts, first-run setup | `services/setup.py`, `routers/users.py`, `cli.py` | users, the setup marker | set up, create, edit, delete, adopt, the commands | modelled |
| Sign-in | `services/auth.py`, `oidc_auth.py`, `ldap_auth.py` | users made at first sign-in | which account a login ends at | protocols as outcomes |
| Identity providers | `routers/auth_providers.py`, `services/ldap_client.py` | providers, the sign-in form | save, delete, hide the form | as others depend on them |
| Settings | `services/settings_store.py` | key-value pairs | read and written | the form, the marker |
| Attachments | `campaigns.py`, `sender._attachments` | rows and files | add, delete, read by the sender | not modelled |
| Templates, security helpers, migrations, system pages, deployment | the rest | -- | -- | not modelled |

**How the parts interact.** Only through the database, but for two calls inside
a process: `notify_worker` (which shortens a wait) and `stop_worker` (which sets
`_stopping`). A handler loads a row, decides, and commits an `UPDATE ... WHERE
id = ?` of the columns it changed; there is no version column, so a commit never
notices that its decision is out of date. The worker claims a campaign, reads its
content once, and then alternates between short transactions and exchanges with
the mail server, during which handlers, other instances and the clock go on.

**What is hard about it**, and what makes each part correct:

- *Ownership.* Whoever claims a campaign holds a lease that it renews before each
  message. Correct: one sender per time the campaign was queued, and every
  further copy of a message is due to a crash, a failed commit, a lost reply or
  an overrun lease.
- *Operators against the worker.* Pause and cancel act between messages; a pause
  must not be taken back; an edit made in a pause must be what is sent after it.
- *Failures.* A process may stop or die between any two steps, a statement may
  fail, a reply may be lost; what was queued must get out of the queue.
- *The audience.* Rows are removed and replaced in a pause while one message may
  be in flight; what a row says must be true of its address; an unsubscribe
  counts whenever it arrives.
- *Imports.* A review page promises what an import will do before it is done, to
  files that repeat people and leave cells empty. Correct: the import does that,
  and takes nothing away.
- *Directories.* Every instance syncs every due list; the search takes long, and
  providers come and go under lists and drafts that know them by an id SQLite
  hands out again. Correct: one sync per interval, one import per draft, nobody
  lost to a bad answer, nothing searched in one directory and kept for another.
- *Accounts.* Handlers, starting processes and sign-ins decide on accounts that
  others are changing. Correct: one setup, an administrator who stays, one person
  per account, a sign-in form for those who need it.

`PROJECT.json` lists every hazard at its line with the properties that cover it.

## 2. Modules

```
CampaignState            the rows, what the actors keep, their types and initial values
  CampaignRequests       one action for the read and one for the commit of each handler
  SenderWorker           the worker thread of each process, and the lapse of a lease
    CampaignSending      both together; fairness; the properties
      MCCampaignSending      values for TLC
      CampaignSendingProofs  theorems checked by TLAPS
        SendingPromisesProofs    what recipients and operators see
ServedOrders             what operators may rely on; CampaignSending implements it
      ServedOrdersProofs     (extends CampaignSendingProofs)

Importing                importer.py as operators: read, map, preview, upsert
  ImportPages            the wizard and the recipients pages, one request at a time
    MCImportPages            files, pastes, answers and mappings for TLC
    ImportingProofs

DirectoryState           providers, lists, drafts, requests, sync workers
  DirectoryRequests      the handlers, in as many steps as they wait
  DirectorySync          the sync worker of each instance
    Directory            both together; fairness; the properties
      MCDirectory
      DirectoryProofs

AccountState             users, providers, the sign-in form, requests
  AccountRequests        setup, start of a process, Users and Authentication pages, cli.py
    SignIn               logins and OpenID Connect callbacks
      Accounts           all together; the properties
        MCAccounts
        AccountsProofs
          SignInProofs
          IdentityProofs
```

The four parts share no state that one of them decides on and another changes,
but for the recipients and their `is_suppressed` (the sending has an unsubscribe,
a new recipient and a delete of its own) and the provider rows (the lists depend
on their import, the accounts on their sign-in).

### The sending of a campaign

**State.** One campaign, from the moment its draft has an audience.

| Variable | Code |
|---|---|
| `status`, `dryRun`, `claimedBy` | the columns of `campaigns`; `"deleted"` when the row is gone |
| `content` | subject, bodies and sender, as a version number |
| `lease` | `lease_until` against the clock: `none`, `live` or `lapsed` |
| `entry`, `address`, `recipient_id` | the columns of `campaign_recipients`, by primary key; `recipient_id` is `NoRecipient` for NULL |
| `mailbox` | `recipients.email`, by primary key; `NoAddress` where there is no row |
| `suppressed` | the recipients (keys) whose `is_suppressed` is set |
| `request` | what a handler has read and not yet committed |
| `pc`, `seen`, `loaded`, `batch`, `skips`, `outcome` | where a worker is and its locals; `skips` and `outcome` are changes in the session before a flush |
| `stopping` | workers whose `_stopping` is set |
| `round`, `serving`, `delivered` | history, read by no guard: the times the campaign was queued, the one each worker serves, the messages each address was handed |
| `halt`, `leeway`, `grace` | history: whether a pause or cancel stands (or a claim wrote over it), how many messages may still go out after it, and after each unsubscribe |

**Actions.** A step ends where another actor can come in: at a commit, at a read
that decides something, at an exchange with the mail server. On PostgreSQL a
claim is one action (`FOR UPDATE SKIP LOCKED`); on SQLite the read (`ClaimRead`)
and the write (`ClaimWrite`) are two, because pysqlite begins no transaction for
a `SELECT` and nothing stops a handler between them. `Renew` is `_renew_lease`
and includes the flush of the rows marked skipped before it, which its commit
performs. `StaleCommit`, `StaleFlush`, `RecordStale`, `ClaimStale` are what the
ORM does when a row it wants to update has been deleted: it raises, and the
transaction is rolled back. `DbError` ends the worker's call at any statement.
`ReplyLost` is a message the server took and whose reply did not arrive:
`SmtpSender.send` sends it once more.

A row names its recipient, and the worker asks that recipient for
`is_suppressed`, by key: a row without one (an address pasted for this campaign
that is nobody's, or one whose recipient was deleted, as the foreign key is
`ON DELETE SET NULL`) is never looked up. `ImportRecipient`, `DeleteRecipient` and
`Unsubscribe` are the pages that change who there is to ask; a new recipient is
not linked to the rows that have its address already, and gets a key the database
may have given before.

**Abstractions.**

- Email text, templates, throttle, timestamps and error texts are left out. A
  template that does not render is a `failed` outcome. The throttle's wait only
  matters for the lease, and `Lapse` may happen in it.
- Time is the lease only. `Lapse` is free for an owner that is not sending; for
  one that is, each lapse counts as an overrun.
- A handler's several `SELECT`s are one read. `update` and `load_template` write
  the same abstract column and are one operation. `create` and `duplicate` make
  another campaign; the initial state is what `create` leaves, followed by any
  unsubscribes.
- Attachments are not part of `content`.
- A deleted row's key is `"absent"` on SQLite (no AUTOINCREMENT: the next key is
  one above the largest in use) and `"gone"` on PostgreSQL (a sequence).
- A process start is a value of `Workers`; a restart is another start, as each
  has a worker id of its own.

**ServedOrders.** The abstract specification: each time a campaign is queued is
an order, open until it is done or stopped. One worker at a time serves an order;
a message is set off only for the latest order and while that one is open; what
was set off is handed over at most twice, the second time for a lost reply. Rows,
leases, batches, statements and outcomes are gone. `CampaignSending` maps onto it
with `orders <- round`, `open <- status \in ACTIVE_STATUSES`, `serves <- serving`,
`tries` from where the worker is, and `handed <- delivered`; a renewal that finds
the campaign its own is `SetOff`, a claim is `Take`, `Accepted` and `ReplyLost`
are `HandOver`, every exit is `Quit`, and the rest are stutters.

### Imports

`Importing` is a translation of the pure functions. A cell is a text; what it
spells as an address, and what it means as a header, are given by constants, so
that several spellings of one address, headers that are addresses, and names that
are neither can be told apart without strings. A row has every field, the missing
ones blank, as every reader of a row treats both alike. `upsert_recipient`,
`_would_change` and `preview_rows` are apart in the code and here: that they
agree is a property. Each is shorter than its source by what it formats: sample
rows, messages, and the texts of the previews' warnings. The loops over rows and
lines (`import_rows`, `Picked`) are recursive functions of the turn. The code
reads a header in two ways, and so do the modules: the wizard's `guess_field`
replaces every run of other than word characters, `parse_csv` only the spaces
(`spaced_field`), so one may take a header for an address that the other does not.
A paste has the four columns it has in the code, the last two being the first word
of the name and the rest. Of several columns for one field, the last one with
text counts in the wizard, and the last one in the one-shot import.

`ImportPages` has one action per page, over `book` (recipients with lists and
suppression, by what their address is: `Emails`, and as the form of one
recipient checks nothing, `NoEmails`), `draft` (the row of `import_drafts` under
review) and `last` (history: the import the last request was, and whether
exactly what was reviewed was finished). Requests are atomic there; races are in
`Directory`.

### Directories

| Variable | Code |
|---|---|
| `stamp`, `enabled`, `allow_import`, `created` | `ldap_profiles`; the stamp is `created_at`, as a number |
| `list`, `members` | `recipient_lists` and `list_members`; `filter` is the remembered search (`"none"`: no search), `synced` is `last_synced_at` against the interval; `query` is history: the provider that was searched with that filter |
| `lock` | the row locks on `recipient_lists` (PostgreSQL) |
| `draft`, `imports` | `import_drafts` of directory searches, each with its provider and filter; how often each was imported |
| `request` | what a handler has read while it waits for a directory, a lock or its commit |
| `pc`, `todo`, `current`, `seen` | the pass of a worker: due lists left, the list it is at, and (SQLite) its session's copy |
| `crossed` | history: lists whose import crossed the delete of their provider, or another import that waited for the same row |

Three handlers read a row, wait, and then write the columns that differ from what
they have read, over whatever the row has become: the save of a provider waits for
the rest of its form (`update_provider`, `SaveProvider`); the switch of a list's
sync (`toggle_list_sync`, `CommitToggle`) and the end of an import (`ReadTarget`,
`ClaimAndImport`) wait for the row lock of a worker that is searching.

A directory's answer is any set of people, an error, or nobody. On SQLite there
is one worker and no lock, and it goes by what its session read at the start of
the pass, because `expire_on_commit` is off. `FlushFails` is a refused write: the
exception handler does not roll back, so it ends the pass. `Restart` is a stop
between two lists or a crash anywhere.

### Accounts

| Variable | Code |
|---|---|
| `user`, `users` | `users`; a username is what a person is called, as it is spelt, and the number `_unique_username` adds |
| `provider`, `created` | `ldap_profiles` and `oidc_providers`, by kind and id, as far as sign-in depends on them |
| `show_form`, `lateHide` | `auth_show_local_form`; history: it was hidden by a check that no longer held |
| `request` | what a handler has read and not committed; for a sign-in, the provider as it was |
| `setupLock`, `setups` | the lock of `create_initial_admin`; how often a setup was completed |
| `boot`, `crossed` | what a starting process has read; history: accounts adopted while a request was at work on them |
| `usedBy`, `stray` | history: the people who signed in with an account; accounts used by a sign-in that outlived its provider |

Two questions are asked of a username. Whether it is taken is asked with
`lower()` (`Matching`); whether a row may be inserted is the unique index's, of the
name as it is spelt (`Named`). In Python and on PostgreSQL every letter has its
lower case (`lower`); SQLite's function knows ASCII only and leaves the words in
`NonAscii` as they are (`db_lower`), so that the first question finds a name free
which the second refuses.

Requests check that who makes them is an active administrator by the row as it
is then. The save of a provider reads its row, waits for the form, flushes the
columns the form changes into the row that has the id by then, and commits
(`update_provider`, `SaveProvider`, `CommitProvider`); a provider that is gone,
or a form that changes nothing, ends it early (`SaveNothing`, `SaveUnchanged`).
The commands see the committed providers, and wait for a request that has
flushed one of those they have to switch off (`MaySwitchOff`). A sign-in ends at
an account, or at nobody; passwords, groups and the exchanges with a provider
are outcomes (`Verdicts`). The abstraction that matters: an account's id is
never given twice (see "Not modelled").

## 3. What TLC checks

`tlc -workers 2 -config X.cfg M`, in this directory, with `M` one of
`MCCampaignSending`, `MCImportPages`, `MCDirectory` and `MCAccounts`.

### Runs that pass

| Run | Instance | States | Shows |
|---|---|---|---|
| `SingleProcess` | SQLite, a process and its successor, two requests at a time, three in all, of every kind but those that edit the message or the audience, recipients that are imported, deleted and unsubscribe; one stop or crash, one lost reply | 1.1 M | `ResendsAccountedFor`, `StopsBetweenMessages`, `UnsubscribeHolds` |
| `Instances` | PostgreSQL, two instances, send, pause, resume, cancel, update, four requests, one stop or crash, one lost reply, batches of one | 2.1 M | `ExclusivePerRound`, `CopiesPerOrder`, `ClaimIsServed`, `StopsBetweenMessages`, `PauseHolds`, `SendsCurrentContent`, `CompletedLeavesNobody`, `ServesOrders` |
| `RollingRestart` | PostgreSQL, two instances, retries, one stop or crash, one failed statement, one overrun lease | 1.8 M | `ResendsAccountedFor`, `CopiesPerOrder` |
| `Audience` | PostgreSQL, two instances, the audience replaced, extended and reduced, one stop or crash, under fairness | 0.4 M | `TypeOK`, `SentWasDelivered`, `QueueDrains` |
| `Imports` | two addresses, one of them in two spellings, and a text that is none; six files, two pastes, two answers, six mappings, one list, four requests | 0.2 M | `TypeOK`, `PreviewIsWhatHappens`, `ReviewedImportSettles`, `ImportsLoseNothing`, `FirstLineArrives` |
| `Directory` | SQLite with one worker, PostgreSQL with two; one list, one draft, one person, two providers in a row, two sessions, four requests of any kind | 1.2 M | `TypeOK`, `ListsKeepTheirDirectory`, `OneSyncPerInterval`, `SwitchedOffStaysOff`, `EmptyAnswersChangeNobody`, `DraftEndsOnce` |
| `Accounts` | both databases, fresh, running and upgraded; four accounts, two names, one of them in two spellings that SQLite does not fold, two providers of a kind, two sessions, three requests or commands | 0.4 M | `TypeOK`, `GuaranteedWayIn`, `NobodyElsesAccount`, `FormIsThere`, `InitialAdminKeepsAccess`, `RetriesHaveACause` |

- `ResendsAccountedFor`: as long as no message outlasts its lease, an address gets
  at most one message more than there were crashes, failed statements and lost
  replies. It needs the renewal before a message, the commit after it, the choice
  of `retry_failed` and the rule that only SQLite requeues at start, all at once.
  Checked where nobody resumes on PostgreSQL (see the first finding for why).
- `CopiesPerOrder`: the bound that holds for every sequence of pauses, resumes,
  retries and overruns: one copy for each time the campaign was queued and for
  each mishap. One overrun may cost more than one copy, which is why
  `ResendsAccountedFor` excludes it: the worker whose lease ran out can write
  `completed` while the next owner has a message in flight, and the campaign can
  then be sent again.
- `StopsBetweenMessages`: from the commit of a pause or cancel until an operator
  queues the campaign again, at most the messages that workers had in hand at that
  commit go out (and the repetition of one whose reply is lost). `leeway` is that
  number, less what has gone out since: a worker that had none in hand has none to
  spare, and it counts on whatever the status becomes. On SQLite a claim may write
  over the operator's status, and everybody is sent to: that is `PauseLost`, and
  from then on (`halt = "overwritten"`) there is no stop that could hold.
- `UnsubscribeHolds`: the same of a recipient, from the commit of its unsubscribe:
  only a message that was past the check by then may reach it, also if the campaign
  is resumed, retried or taken over, and under two senders. Of rows that name their
  recipient: the others are never checked (see "Known and left out").
- `ExclusivePerRound`: the two senders that a pause and a resume can produce
  belong to different rounds; inside a round there is one, however often it
  changes.
- `ClaimIsServed`: a live claim is a sender at work or the mark of a crash; in
  particular a clean stop hands the campaign back (all exits of the `try` pass
  the `finally`).
- `SendsCurrentContent`: the worker reads the content once, but by the time it
  may handle an address its copy is current, as it would otherwise have lost the
  campaign.
- `CompletedLeavesNobody`: no row was pending when the status becomes
  `completed`. Where rows are added or retried while the campaign is being
  finished it does not hold: the check and the write are two steps. The run has
  neither operation.
- `QueueDrains`: a queued campaign gets out of the queue. With no failed
  statement: these are bounded anyway, and add nothing but states.

- `ServesOrders`: all of the sending is no more than `ServedOrders` (section 2).
- `PreviewIsWhatHappens`: the review page counts exactly the recipients its import
  then creates and changes; it depends on `_would_change` agreeing with
  `upsert_recipient` field by field, on `first_per_email` on both sides, and on
  nothing in the mapping being read differently the second time.
- `ReviewedImportSettles`: the same import again would announce nothing.
- `ImportsLoseNothing`: no import unsubscribes, resubscribes, takes off a list or
  blanks a text; without "update existing" it changes no text at all.
- `FirstLineArrives`: the first line of a headerless file is a person, by the
  wizard and by the one-shot import. A file whose first line is blank is none:
  the one-shot import takes the blank line for the header.
- `OneSyncPerInterval`, `SwitchedOffStaysOff`: on PostgreSQL, from the row lock and
  the second look at the row; a pass on SQLite goes by its copy, and does sync a
  list that was switched off meanwhile. The second is of every list whose sync is
  off, whoever switched it off and however a handler's write crossed the pass.
- `EmptyAnswersChangeNobody`: a sync that got an empty answer takes nobody off the
  list, whoever joined it during the search.
- `DraftEndsOnce`: two finishes, a cancel, the sweep and the provider's delete
  cannot both have a draft.
- `ListsKeepTheirDirectory`: the id a list remembers is still the directory its
  query was made for. An import that crosses the provider's delete is excluded:
  it can commit after the delete has looked for lists, and before the delete's
  own commit. So are two imports that wait for one row: the second writes the
  columns that differ from what it has read, and the row ends with some of each:
  one directory's id and the other's search filter.
- `GuaranteedWayIn`, `InitialAdminKeepsAccess`: one setup, an initial
  administrator with access ever after, who keeps it against pages, sign-ins,
  commands and starts. An account adopted while a request was working on it is
  excluded: the request had found it unprotected.
- `NobodyElsesAccount`: nobody gets at an account through a second directory or a
  provider that inherited an id. A sign-in that outlives its provider's delete is
  excluded: it may leave an account with the id that the next provider gets.
- `FormIsThere`: while a directory's people may sign in, they find the form;
  unless hiding it crossed a change of the providers, as its check and its write
  are two steps.
- `RetriesHaveACause`: `provision_user` tries again only if another account was
  made since it chose its name. Names that `lower()` does not fold in the database
  as in Python (on SQLite, with a capital outside of ASCII) are excluded: taken,
  they are found free, and refused at every try.

The exclusions are not bounds but behaviours: TLC finds each property violated
without its exclusion. Several of them contradict what the repository says; they
are under "Known and left out" below. For `NobodyElsesAccount` it takes a fourth
request, which `Accounts` leaves out for its size: with `MaxRequests = 4`,
`Starts = {"running"}` and the operations `save`, `remove`, `login` and `callback`
TLC finds it violated without the exclusion, and upheld with it. The crossing of
two imports in `ListsKeepTheirDirectory` takes two drafts, two filters and five
requests, where `Directory` has one, one and four: on PostgreSQL, with the
operations `create_provider`, `search` and `finish`, TLC finds the property
violated without that part of the exclusion, and upheld with it (2.2 M states).

**Bounds** and why they suffice. Two workers: every property is about one worker
and another that takes over, starts beside it or succeeds it. Two addresses and
batches of one or two: a row in flight, a row after it, and both a batch that
ends with the audience and one that does not. Three or four requests (`send`,
`pause`, `resume` and one more) reach every status; they are what bounds `round`
and `content`. `MaxDown`, `MaxDbErrors`, `MaxLostReplies`, `MaxOverruns` of one:
the properties count mishaps, so a second of a kind changes both sides of the
inequality; the different kinds are combined in `RollingRestart`. Two providers
one after the other, as ids matter when the second inherits the first's; three
things a provider's form may say (`Forms`: the fourth, switched off and closed
to import, is as good as the third); two sessions, as every race is between one
request that has read and another that commits; four requests, as the longest
story (create or search, delete, create again, finish) has four; four accounts:
the administrator, somebody who has signed in, and one for each session to make.
Two names, one of them also spelt with a capital that only Python folds: a name
that is free, one that is taken, and one that is taken in another spelling. Two
recipients, the second being one that is imported while the campaign runs. The
six files are: with a header and one person in two spellings; headerless; with a
header and the address in a column named otherwise; a blank first line; two
address columns; a header that one reader takes for the address and the other
does not. `MaxRow` of three leaves room for one added row after the two of the
draft. Symmetry is used over workers, instances and sessions only, and not in a
liveness run. Deadlock is not checked: a system whose requests are used up and
whose processes are down stops.

**Fairness** (`FairSpec`, used for `QueueDrains`). Weak fairness of each
worker's own steps: a thread that can run does, and statements and SMTP calls
return (they have timeouts). Weak fairness of starting *some* process: the
container runtime replaces one that ended, while the model has starts left.
Weak fairness of `Lapse`: time passes. Operators, stop signals, crashes, lost
replies and failing statements get none. With two starts and one process that
may go down, the other one is what makes the queue drain. `Directory`'s
`FairSpec` is weak fairness of each sync worker's steps: the thread waits for
nothing but searches, which have a timeout, and its own poll. It is used to show
that a list starves although everybody does what they can.

### Runs that find a disagreement

| Run | Property | What happens |
|---|---|---|
| `PauseResume` | `OneWorkerSends` | `_claim_campaign` takes a `queued` campaign whatever its lease says. Pause and resume during one message, and a second instance sends the same pending row. The documentation says "exactly one worker sends it". |
| `PauseLost` | `PauseHolds` | On SQLite a pause between the claim's `SELECT` and its `UPDATE` is overwritten with `sending`. The comment in `_claim_campaign` calls the missing row lock harmless. |
| `LateFinish` | `EndsFromSending` | `_finish_campaign` and `_fail_campaign` write without looking: a pause since the last look becomes `completed` or `failed`. |
| `FailingList` | `OthersGetTheirPass` | A list whose members the database refuses ends the pass: the handler of the exception does not roll back, so recording the failure fails too. The list is the first of every pass, and the due list after it is never synced. The comment there says "One list failing must not cost the others their pass." |
| `DryRunFirst` | `DryRunThenSend` | A dry run leaves every row `skipped`, so the guide's next step, sending for real, finds nobody pending. |

Each property is stated over the same specification as the passing runs.

### Known and left out

These behaviours are in the model and break what a property would say without its
exclusion, or a statement of the repository. They have no run of their own.

| Behaviour | Against | Excluded from |
|---|---|---|
| A row without a recipient is sent to, although its address has unsubscribed | `docs/guide.md:129-130`, `README.md:34`, `docs/index.md:41`: later campaigns skip it automatically | `UnsubscribeHolds`: only rows that name their recipient |
| On SQLite a pass syncs a list that was switched off since the pass began | `recipients.py:541-543` and `docs/advanced-config.md:120`: its members stay exactly as they are | `SwitchedOffStaysOff`: PostgreSQL |
| On SQLite a new person whose name is taken, and has a capital outside of ASCII, cannot sign in | `docs/advanced-config.md:203-204`: the new account gets `name-2` | `RetriesHaveACause`: `IsFolded` |
| A sign-in that outlives the delete of its provider leaves an account with an id that a later provider inherits | `auth_providers.py:392-394`: it must not inherit these people | `NobodyElsesAccount`: `stray` |
| Hiding the form crosses a provider's save, and leaves directory users without it | `auth_providers.py:60`, `docs/advanced-config.md:219-220`: it stays while LDAP sign-in is on | `FormIsThere`: `lateHide` |
| The one-shot import takes a blank first line for the header and imports nobody | the wizard, which skips it | `FirstLineArrives`: `Headerless` |
| On SQLite a row's key is used again, and a late outcome lands on another person's row | -- | `SentWasDelivered`: PostgreSQL |
| An import crosses the delete of its provider, or another import | -- | `ListsKeepTheirDirectory`: `crossed` |
| A start adopts an account that a request is at work on | -- | `InitialAdminKeepsAccess`: `crossed` |

Every property of a passing run also has a mutant in `PROJECT.json`: an operator
marked `Mistake` that stands for a plausible bug and makes TLC refute it.

## 4. What is proved

`tlapm` on the eight modules of proofs, a few minutes each at most. The theorems
hold for any number of workers, sessions, instances, addresses, lists and rows
and for any bounds, assuming only the constants' own assumptions
(`StateAssumption`, `WorkersAssumption`, `AudienceAssumption`,
`RequestAssumption`, `WorkerAssumption`, `ImportingAssumption`,
`HeadersAssumption`, `AbsentAssumption`, `PagesAssumption`,
`DirectoryAssumption`, `RequestsAssumption`, `SyncAssumption`,
`AccountsAssumption`, `SpellingAssumption`) and what is named below.
`WorkersAssumption` (finitely many process starts) and `AudienceAssumption`
(nobody is in a draft twice, which `build_audience` sees to by address) are what
makes copies and crashes countable. `PagesAssumption` says that files are
sequences of sequences of texts, pastes of pairs, and directory answers of
entries with finitely many known attributes; `AbsentAssumption` that no
recipient is taken for its absence; `HeadersAssumption` that "email" is itself a
known header; `SpellingAssumption` that somebody's name is in lower case, which
only the initial states need.

| Theorem | States | Argument |
|---|---|---|
| `TypeCorrect` | `Spec => []TypeOK` | `TypeInv` adds `AtWork`: a worker past the fetch has a row in its batch, without which `Current` has no type. |
| `ServedByOne` | `Spec => []ExclusivePerRound` | `OneServer`: while the campaign is queued nobody serves the current round (`RoundsAreQueued`), on SQLite one process is alive (`OneProcess`), a claim in two parts only exists there (`ClaimsAreLocked`), whoever serves the current round is the owner and its lease is live unless it overran (`OwnerServes`), and so no two serve one (`OnePerRound`). Most steps are `Quiet`: they neither claim nor queue. |
| `PauseIsKept` | `~Sqlite => (Spec => PauseHolds)` | From `TypeInv` and the guard of `Claim`. False on SQLite (`PauseLost`). |
| `SentIsTrue` | `~Sqlite => (Spec => []SentWasDelivered)` | `RowsAreTrue`: a fetched row that still exists has the address it was fetched with (`BatchIsFromRows`: keys are not reused), a recorded `sent` was delivered (`OutcomeIsTrue`). Most steps are `Steady`. False on SQLite. |
| `SendingServesOrders` | `~Sqlite, MaxOverruns = 0: Spec => ServesOrders` | The refinement, from `TypeInv`, `OneServer` and `Orderly`: no lease overran, an open campaign was ordered (`OpenWasOrdered`), an idle worker serves nothing (`IdleServesNothing`), a claim is of the latest order (`ClaimIsLatest`). Steps that no operator notices are `Unnoticed`; each of the others is one abstract action. False with an overrun: two workers may then serve one order. |
| `CopiesAreOrdered` | no `audience`: `Spec => []CopiesPerOrder` | `CopyInv`: for each row of the draft, the copies its address got, the workers that have a message to it in hand and no claim any more (`Strays`), the one that is due while the row may still be sent (`Due`) and the one that the next order may cost (`Spare`) are together at most `Orders + Mishaps` (`CopiesAreCounted`). Around it: rows are those of the draft, an idle worker has no batch, the owner serves the latest order, nobody serves a queued one (`Framed`). A worker's steps preserve the sum, a mishap or an order adds one to both sides. |
| `ResendsAreAccountedFor` | no `audience`; SQLite, or `Calm`: `Spec => []ResendsAccountedFor` | The same invariant, with one order instead of `round`: on SQLite the process that sends is the only one alive, and operators who neither pause nor cancel, one at a time, find a campaign that nobody has in hand (`CalmIsOrderly`). |
| `StopsAreSeen`, `UnsubscribesAreSeen` | `Spec => []StopsBetweenMessages`, `Spec => []UnsubscribeHolds` | `StopIsSeen`: while a stop stands the campaign is not active, and the messages in hand (`InHand`) are at most `leeway`; `UnsubscribeIsSeen`: those on the way to a recipient that has unsubscribed (`OnTheWay`) are at most its `grace`. A worker takes a message in hand only when it finds the campaign being sent, and to a recipient only when it finds it not suppressed; a hand-over takes one from either side (`Carries`). `KeepsHalt`: only an operator puts a campaign back into the queue, or the stop was overwritten. |
| `CompletedIsHandled` | no `retry`, no `audience`: `Spec => CompletedLeavesNobody` | `FinishIsLast`: nobody is pending once a worker's query found nobody, as only the operations left out make a row pending. |
| `ClaimsAreServed` | no `audience`, no `remove`: `Spec => []ClaimIsServed` | `ClaimIsKept`, with `RowsStay`: a worker on its way out with the claim of a campaign being sent has been asked to stop, unless a statement failed, and rows of a batch that are there do not fail. |
| `EditsReachTheSender` | PostgreSQL, one session: `Spec => SendsCurrentContent` | `EditsAreApart`: an edit that has passed its check finds no campaign in the queue, and what an owner goes by is what the campaign has. |
| `PreviewTellsTheTruth` | `would_change <=> Overwritten # r` | Field by field, for a recipient whose DN and custom field of that name agree, which `DnKeepsAgreeing` says every import keeps. |
| `OverwritingSettles` | the same row changes nothing the second time | `Or` takes the row's value or the one there is. |
| `UpsertLosesNothing` | of one row, what `ImportsLoseNothing` states of an import | By cases: no address, somebody else, left alone, overwritten. |
| `ImportsTypeCorrect` | `Spec => []TypeOK` | `ImportInv`: the two copies of the DN agree in every recipient, and a draft is well formed (`DraftOK`): its mapping is a sequence, its rows are as wide as the mapping, and a file's rows are still `read_csv` of the file. The width of a table is a greatest number (`GreatestNumber`), the columns of a directory's answer are its keys in some order. |
| `NothingIsLost` | `Spec => ImportsLoseNothing` | What filing a row does to its recipient is `Gentle`, and so is what many rows do one after the other. |
| `FirstLinesArrive` | `Spec => FirstLineArrives` | Every line with text of a headerless file is a row, its first cell stays first (`HeaderlessRows`), only the first column is the address, and whoever a row names is there after its turn and stays (`NamedArrive`). |
| `PreviewsAreKept` | `Spec => PreviewIsWhatHappens` | The rows `first_per_email` keeps are the firsts the preview looks at, one per address, so each is filed with what the book held before the import and nobody else is touched (`FirstsAreFiled`). Rows are counted on one side and people on the other: a bijection (`FirstsCountPeople`). Of one row, `PreviewTellsTheTruth` (`FiledChanges`). |
| `ReviewedImportsSettle` | `Spec => ReviewedImportSettles` | The same, with `OverwritingSettles` of one row (`FiledSettles`): no first is new, or a change, to the book it was filed in. |
| `DirectoryTypeCorrect` | `Spec => []TypeOK` | `TypeInv` adds what the requests have read: a session that names a list, a draft or a provider has one of that kind. |
| `SyncedOncePerInterval` | `Spec => OneSyncPerInterval` | `LockedIsDue`: on PostgreSQL, a list that is being searched for is locked by its worker and is there, not fresh, and its sync is switched on; every other writer of the row waits for the lock. |
| `OffIsLeftAlone` | `Spec => SwitchedOffStaysOff` | The same: the list a worker writes the members of has its sync switched on. |
| `DraftsEndOnce` | `Spec => DraftEndsOnce` | From `TypeInv`; every action that writes a draft asks for it to be live in the same step, as `DELETE ... WHERE token` does with its row count. |
| `EmptyAnswersAreHarmless` | `Spec => EmptyAnswersChangeNobody` | From `TypeInv` and `Refused`: the one step that writes members looks at those the list has in that step. |
| `ListsStayWithTheirDirectory` | `Spec => []ListsKeepTheirDirectory` | `LinkInv`: a list outside `crossed` names a provider that is there and is the one searched (`ListsAreBacked`); ids are given in turn (`IdsAreGiven`); a delete that has flushed knows every list that names its provider (`DeletesKnow`); drafts, and whoever is about to import one, have the provider that was searched (`DraftsAreKept`, `ClaimsFound`). The row an import leaves names the provider and the query that belong together, or the list joins `crossed` (`KeepsLink`). Steps that only let go of providers settle all of these (`ListsSettle`, `DraftsSettle`, `RequestsSettle`). |
| `AccountsTypeCorrect` | `Spec => []TypeOK` | `TypeInv` adds that a login has read providers that were there (`ProfilesAreThere`). That `_unique_username` finds a name, if one is free, is that a set of numbers has a least one. |
| `WayInIsGuaranteed` | `Spec => []GuaranteedWayIn` | `AccessInv`: nobody knows of an account that was never made (`RowsAreGiven`); a request that is about to take access away has not read it as the initial administrator's (`InitialIsSpared`); nobody is at a setup when one is done, and the administrator it made is there (`SetUpOnce`). Most steps are `Harmless`: no local account is worse off, and no request begins that could make it so. |
| `InitialAdminStays` | `Spec => InitialAdminKeepsAccess` | The same invariant: `AccessStep` proves both of every step. |
| `RetriesAreCaused` | `Spec => RetriesHaveACause` | `NamesWereFree`: of the accounts there were when a name was chosen none has it as it is spelt, unless `lower()` does not fold it (`IsFolded`), nor is the person's. Most steps are `Calm`: no account becomes somebody else. |
| `FormStaysThere` | `Spec => []FormIsThere` | `HiddenIsSafe`: with the form hidden no directory is open, and who has flushed one that is will show the form. Most steps are `Still`: they have nothing to do with either. |
| `AccountsAreNobodyElses` | `Spec => []NobodyElsesAccount` | `PersonInv`, with `AccessInv` under it: every account of a provider that is not in `stray` has been used by exactly the person it was made for, and the id it names is of the very provider that vouched for that person (`EverybodyBelongs`): on SQLite, where ids return, because a delete cuts its accounts loose in the same transaction (`FlushFits`) and nobody else writes in between (`OneFlush`). What a login has read of an account, it may still use (`LoginFits`). Most steps are `Plain`. |

Imports are loops over rows. That the recursive function of a loop is a function
is shown by building it turn by turn (`Looping`); what every turn keeps, the loop
keeps, by induction over the set of turns that keep it (`StepByStep`: otherwise
the turns that do not keep it would have a first one). `import_rows`, `Picked` and
the width of a table are reasoned about in this way, for files of any length.

`TypeInv`, `OneServer`, `RowsAreTrue`, `CopyInv`, the invariants of
`SendingPromisesProofs`, `PersonInv` and `ImportInv` were also checked by TLC as
invariants of instances like those of the runs before they were proved.

What the theorems on the sending leave out does go wrong, and TLC shows it:

- *`audience`*, for the bounds on copies: a rebuild that passed its check before
  another session queued the campaign commits while it is being sent, and who has
  had a copy is pending again within the round. On SQLite one operator is enough,
  as the replaced rows' keys are given to other people.
- *`audience`, `retry`*, for `CompletedLeavesNobody`: after a worker's last query
  the campaign is paused, people are added or retried in the pause, and then
  `_finish_campaign` writes `completed`.
- *`audience`, `remove`*, for `ClaimIsServed`: a removal whose check came in a
  pause commits when the row has been fetched; the flush raises, the call ends
  with the claim still held, and only the lease brings the campaign back.
- *Pause and resume on PostgreSQL*, for `ResendsAccountedFor`: see the finding
  `PauseResume`.
- *Two sessions*: an edit whose check came before a resume is committed after it.
- *SQLite*, for `SendsCurrentContent`: a claim's `UPDATE` does not notice what was
  written since its `SELECT` (as in `PauseLost`).

Only model-checked: `QueueDrains`, which holds, and `OthersGetTheirPass`, which
does not (the finding `FailingList`): liveness under fairness is out of the
prover's reach, and so is `ENABLED`. Every other property of a passing run is
proved as well, under the conditions named above.

No module declares a `RECURSIVE` operator.

## 5. Plan

1. *Directory*: an abstract specification of the sync (a list gets the members its
   directory had at some time of the interval), refined by `Directory`.
2. *Sending*: `SendsCurrentContent` on SQLite, with the claim that crossed an edit
   excluded by name instead of by database.
3. *Accounts*: an abstract specification of sign-in (a person and the one account
   they have), refined by `Accounts`.

## 6. Not modelled

- *Attachments.* Files next to their rows. What can go wrong is in the file
  system (a file unlinked before its row is deleted, or under a reader); the
  sender logs a missing file and sends without it, and no state depends on it.
- *`create`, `duplicate`*: they insert another campaign in `draft`, which no
  worker looks at; the initial state of the sending is what they leave.
- *Templates and rendering*: text; that a template fails is an outcome.
- *Sessions, passwords, tokens, CSRF*: cryptography and the browser's cookies. In
  particular a cookie holds a user's id alone and SQLite hands the id of the last
  account out again; which cookies still exist is unknown to the program.
- *Requests of imports at the same time*: two imports of one new address clash on
  the unique index, and the one that loses rolls back as a whole, draft included.
- *Migrations, schema creation and the startup lock*: the schema is no state of
  the running program, and instances of an older version beside a newer one are
  not considered. The one migration of data is in `AccountRequests`.
- *Directory and SMTP protocols, system pages, static files, release tooling*:
  I/O, presentation and build files.
