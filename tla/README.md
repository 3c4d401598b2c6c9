# Formal model of devify

devify turns a user's e-mails into summaries and issues.  Mail arrives over
IMAP or a Haraka server, is saved as an `EmailMessage` row, is merged into its
conversation, is processed by Celery tasks that run a LangGraph of LLM nodes,
is paid for in credits, and is announced to integrations (Jira, GitHub, Feishu)
through the relay.  A Django REST API serves the web interface; Stripe sells
the plans the credits come from.  Everything interesting happens between
processes that share a PostgreSQL database, a Celery broker, a cache and
external services: what can go wrong there is what these modules are about.

Paths below are relative to `src/devify/` unless they begin with `src/`.

## Inventory

| Component | State | Operations | Correct when |
|---|---|---|---|
| Status machine (`threadline/state_machine.py`, `threadline/models.py`) | `status`, `updated_at` of a row | `set_status`, `save` (validates, then writes), `set_processing_progress` | a row moves only along the table |
| Merge task (`threadline/tasks/email_merge.py`, `threadline/services/merge_workflow.py`) | the row, the queue, its lock | `process_email_merge`, `enqueue_merge_workflow`, `_mark_email_failed` | an email is reconciled and its workflow queued; a failure is visible |
| Workflow (`threadline/tasks/email_workflow.py`, `threadline/agents/`) | graph state (errors, charge, parts), the row, `self.email` of the finalize node | prepare, credits, LLM nodes, error handler, finalize, fatal error path | results before the event before SUCCESS; parts of one text; what was made survives errors |
| Task locks (`threadline/utils/task_lock.py`, package `agentcore_task`) | cache keys with a time limit | acquire or skip, delete, expire | one run of a task per email |
| Stuck reset, startup recovery (`threadline/tasks/scheduler.py`, `threadline/services/startup_recovery.py`) | the row, `fetch_retry_count` | reset every 10 minutes; requeue when a worker starts | no email hangs for good, and none that is alive is hurt |
| Credits (`billing/services/credits_service.py`, `threadline/agents/nodes/credits_check_node.py`) | `UserCredits`, `EmailCreditsTransaction` | charge, refund, grant, reset, first wallet | no overdraft, one charge per key, one refund per charge, wallet and rows agree |
| Subscriptions (`billing/services/subscription_service.py`, `billing/tasks.py`, `billing/webhooks.py`, `billing/services/payment_check/`) | `Subscription`, `UserCredits`, `PaymentRecord`, dj-stripe's mirror | checkout, webhooks, payment check, renewal, downgrade, changes by users and operators | a paid plan was paid; what is paid is recorded and served |
| Plan catalogue (`billing/services/stripe_sync_service.py`, `payment_provider_gateway.py`, `init_billing_*`) | `Plan`, `PlanPrice`, products, prices and customers at Stripe | edit, reset to `plans.yaml`, sync, checkout | what is sold is what the plan says; one customer per user |
| Ingestion (`threadline/tasks/email_fetch.py`, `threadline/utils/email/`) | files in inbox, processing, processed and failed; mailboxes; rows | scan, claim, parse, save, delete, queue | no mail lost or saved twice |
| Mail parsers (`threadline/utils/email/parsers/`) | the text and attachments of a mail | find images, place them, save them, clean | the text shows only what was saved |
| Merge of emails (`threadline/services/email_merge.py`, `manual_merge.py`) | `merged_into` links and their evidence | reconcile, manual merge, batch, command | no circle; a conversation stays together |
| Relay (`relay/services/`, `relay/tasks.py`, `relay/views.py`) | `RelayEvent`, `RelayDelivery` | publish, dispatch, deliver, retry | one issue per delivery; events settle |
| Issue drivers (`relay/services/adapters.py`, `localization.py`, `threadline/utils/issues/`) | the delivery; issues and files at Jira, GitHub, Feishu | localize, create, update, upload | an issue has the files its text shows; no other issue is touched |
| Import of old settings (`relay/services/legacy_sync.py`, `legacy_issue_sync.py`) | `Settings`, `Issue`, `RelaySubscription`, events and deliveries | import channels, import issues | each issue is imported once |
| Accounts (`accounts/`, `threadline/views/email_alias.py`) | `User`, `Profile`, `EmailAlias`, tokens | registration, Google login and setup, operators' users, resets, aliases | one user per email; no request takes another user's account |
| Share links (`threadline/views/share_link.py`, `serializers/share_link.py`, `src/ui/src/composables/useThreadlineShare.js`) | `ThreadlineShareLink`; what a page shows | share, change, stop, visit, clean up | one link at a time, which ends for good; the page shows the truth |
| API, admin (`threadline/views/`, `threadline/admin.py`) | the rows above | retry, delete, reprocess, merge, todos, metadata | a request never leaves an email in between |
| Notifications, audit, statistics, monitoring, the rest of the web interface | rows and pages | reports | not modelled |

How they meet:

* The fetch saves a row (FETCHED) and queues `process_email_merge`; that task
  reconciles and queues `process_email_workflow`; that one runs the graph,
  whose finalize node stores the results, publishes a relay event and writes
  the verdict.  Both tasks take a lock named after the task and the email, and
  drop the message when it is taken.
* The row is the only state that everybody writes: the tasks, the retry
  endpoint, the delete endpoint, the periodic reset.  Nobody holds a database
  lock from the read of a status to its write.
* The credits node calls the credits service, which locks the wallet after it
  has looked for an earlier charge.  Plan changes, webhooks, the renewal and
  the payment check write the same wallet, mostly without that lock.
* The relay's dispatcher chooses between a new issue, an update and a linked
  issue, from the merge forest and from earlier deliveries; the adapter of the
  target then does it in a handful of HTTP calls, none of which is undone.
* Stripe speaks twice: its webhooks copy into the mirror and then into the
  local rows, and the payment check asks it directly.

The behaviours that are hard to test are listed, each at its line, under
`hazards` in `PROJECT.json`, with the properties that cover them.

## Modules

| Module | What it is |
|---|---|
| `EmailStateMachine` | the statuses and `EMAIL_STATE_MACHINE`, `can_transition_to`, and what `save` accepts (a status that stays is accepted) |
| `EmailPipeline` | the processing of emails: workers, queue, locks, rows, retry requests, reset, recovery, crashes |
| `EmailLifecycle` | what a user may count on: an abstract specification of `EmailPipeline` in calm settings |
| `CreditsLedger` | wallets, transaction rows, runs of the credits node, refunds, renewals, grants, plan changes |
| `CreditsAccount` | what the credits promise: an abstract specification of `CreditsLedger` |
| `Subscriptions` | one user's subscription rows, wallet and payment records against Stripe |
| `PlanCatalog` | plans, their prices at Stripe, and purchases |
| `Ingestion` | both fetches, their files, mailboxes and the rows they save |
| `MailContent` | what the two parsers make of the parts of a mail |
| `MergeForest` | the links between emails and who makes them |
| `WorkflowNodes` | what the nodes make of an email over several runs |
| `Relay` | events, deliveries, their plans, retries |
| `IssueDrivers` | one delivery inside: the calls to a tracker |
| `LegacyImport` | old settings and issues brought into the relay |
| `Accounts` | users, profiles, aliases and the requests that make them |
| `ShareLinks` | the share links of an email, its pages, visitors and cleanup |
| `EmailContents` | `MailContent`, `WorkflowNodes` and `IssueDrivers` side by side, with what their proofs assume of the constants |
| `Web` | `ShareLinks`, `Accounts` and `LegacyImport` side by side, likewise |
| `CatalogForest` | `PlanCatalog` and `MergeForest` side by side, likewise |
| `CatalogForestProofs`, `CreditsLedgerProofs`, `EmailContentsProofs`, `EmailPipelineProofs`, `IngestionProofs`, `RelayProofs`, `SubscriptionsProofs`, `WebProofs` | theorems about the module they are named after, and about those it composes |
| `MC...` | instances for TLC; `MCAccounts`, `MCCatalog` and `MCContents` hold several components that share no state, of which one moves in each behaviour |

Everywhere one action is one database statement or transaction, one broker,
cache or HTTP call, or several of them between which nobody else can change
what they read: these are the points between which other processes act.
Variables that are called history (`dropped`, `crossed`, `excused`, `spoiled`, `cut`,
`orphaned`, `granted`, `since`, `reported`) record what a property needs to
know of the past; no action reads them.

### EmailPipeline

| Variable | Code |
|---|---|
| `row[e]` | the `EmailMessage` row: `status`; `age`, how long ago `updated_at` was written (0 fresh, 1 older than `TASK_TIMEOUT_MINUTES`, 2 older than the 30 minutes of the reset); `retried`, `fetch_retry_count > 0`; `synced`, a history variable: the results of the run that set PROCESSING last are stored; `dropped`, another: a database error ended the step that would have moved the email on, and no status was written since |
| `queue[m]` | copies of a Celery message |
| `locks` | keys of `prevent_duplicate_task` in the cache |
| `pc`, `msg`, `mem` | where a worker process is, the message it works on, and what it has in memory: the status the merge task read, the errors, the charge, the email it is about to write |
| `node[w]` | `WorkflowFinalizeNode.email`; the compiled graph is cached per process, so it outlives the message |
| `event` | emails with a published `workflow_completed` event |
| `client` | a retry request inside `enqueue_merge_workflow` |
| `reset` | the loop of `schedule_reset_stuck_processing_emails` |
| `budget` | how much of each bound is used |

`EmailMessage.save` is two actions, `Settle`/`Write`, `Rescue`/`RescueWrite`,
`RetryUndo`/`RetryUndoWrite`, `ResetFails`/`ResetWrite`: the read that
validates, and the write.  Either may fail, and where the code logs that error
and goes on (the saves of FAILED, the first read of a task, the load of the
finalize node) the row stays as it is: `Drop`.  A move to PROCESSING is legal from every status, so
there the write alone is kept.  The four LLM nodes are one action (`Nodes`): no
error, a user's error or a system's; what they compute is in `WorkflowNodes`.
`set_processing_progress` is kept as the renewal of `updated_at`.  `Reconcile`
renews `updated_at` of the emails it links, whichever they are.

Faults are a parameter: `broker` (a message cannot be queued), `database` (a
transaction fails), `graph` (LangGraph fails between nodes).  A crash of a
worker leaves its lock behind, and its message comes back (late
acknowledgement, worker lost) or does not (process lost).

### CreditsLedger

A wallet holds `base`, `bonus` and `consumed`; `Available` is the code's
`available_credits`.  `txns` are the transaction rows with their ids.  A run of
the credits node goes through `check`, `checkRefund`, `lookup` and `charge`:
the reads before the lock are steps of their own, the transaction under the
lock is one step with its four outcomes.  A refund, a reset and a grant are
transactions under a lock or single UPDATEs, so one step each.  A plan change
is a load and a later save of every column, with a reset; the payment check's
repair (`RepairSave`) writes every column back as it was loaded, and a reset is
another step.  `stale` remembers the wallets whose count it overwrote with an
older one.

### Subscriptions

`remote`, `paid` and `events` are Stripe's side: what a subscription is, which
invoices are paid, which webhooks it still delivers, late, twice or never.
`mirror` is dj-stripe's copy, `subs`, `wallet` and `record` are the local rows.
`hook`, `check`, `down` and `renew` are the processes under way: a webhook
handler, the payment check, the downgrade of subscriptions that did not pay and
the renewal of credits, each read and each commit a step.  The check reads the
wallet after its sync and saves the whole row (`CheckLook`, `CheckSave`); its
worker, like that of the downgrade, may die between two commits.  `Scheduled`
says which of the payment check and the backfill an operator has switched on, and
`old` which invoices have left the days the backfill looks back.  Users cancel and
resume, operators assign plans and sync by hand.  `sync_from_djstripe` is one
transaction, and one step.

### PlanCatalog

An administrator edits `plan`; each start of the server resets it to
`plans.yaml` (`init_billing_base`); a sync of a plan (`job`) searches the
product, lists prices, deactivates one, creates one and saves `row`, the
`PlanPrice`, and may stop after each call.  The command takes the amounts it
read at its start.  A purchase takes the price of the row, makes a customer at
Stripe under an idempotency key and stores it.

### Ingestion

`eml`, `meta` and `old` say where the files of a mail are and whether the
cleanup may take them; `mailbox` is in the server's order, whose numbers an
expunge changes; `temp` is the parser's store of attachments, shared between
mails by name.  `run[w]` is a fetch at one of its calls.  A search asks for what
meets the filters of the user, is not older than `max_age_days` and, with the
filter "unread", was not read (`Wanted`); a server that refuses the criteria is
asked for everything.  Each of the three locks may expire under its holder:
`shared` remembers the mailboxes that two fetches may have open since.

### MailContent

A mail has parts, each with a payload, a declared type, a name and a content
id, and bodies that refer to images.  Each parser reads it in one walk for
images and another for files; a save may fail.  Pure operators give the images
found, the places the text has for them, and what is left after
`_clean_invalid_image_placeholders`; the walk of the flanker parser and the
replacement of tags are recursive functions (`Walked`, `Replacing`).

The two walks drop repeated payloads each in its own way: the first only among
images (`parsers/enhanced.py:548`), the second among all attachments
(`parsers/enhanced.py:1114`).  When a payload that its signature does not give
away comes first as a file and then, declared, as an image, the first walk puts
its placeholder and the second saves it as no image, so that the placeholder is
cleaned away; if the HTML refers to no other image, the text shows none, though
nothing failed.  `TextShowsSavedImages` excuses such mails (`ToldOneWay`); the
run has some.

### MergeForest

`into`, `why` and `proof` are `merged_into`, `merge_reason` and
`merge_evidence`.  The matchers are operators over abstract mails (subject,
references, forward marks, bodies that are close to or inside each other,
images).  `reconcile` follows the heads, locks its own row, then the rows of
the heads one by one, as the code does.  A merge by hand takes an id of
`fresh`, which is never used twice, and says what its sources say (`Merged`).
What a walk along the pointers meets (`Above`) and what a conversation is
(`Cluster`) are least closed sets: no definition is recursive.

### WorkflowNodes

A part (descriptions of images, text, summary, metadata) is known by the run
that made the text it was made from.  Each node takes what the state has, asks
an LLM (which answers, fails or says nothing) and adds its part or an error;
the last node stores the state, after errors too.  An answer that says nothing
replaces nothing: a summary without details, steps and todos leaves the content
as it is (`Silent`), a plain one may be empty (`Plain`).  `shown` is the
percentage a user sees; the plan of stages (`Units`, `Spans`, `EndOf`) is
computed as in `agents/progress.py`.  A report reads the metadata (`Reaches`) and
saves it with the percentage in a step of its own (`Report`), as
`set_processing_progress` does; the sync (`Store`) replaces the metadata with one
that has no percentage.  Users edit todos and metadata meanwhile.  A todo says
what it says, is done or not, and has details (priority, owner, deadline and
such) that are the run's or the user's (`by`); the sync overwrites the details.

### Relay and IssueDrivers

`Relay` has both sides of a delivery: `RelayEvent` and `RelayDelivery` with
their statuses, task messages and locks, and the tracker's `issues`.
`resolve_delivery_plan` is `PlanFor`.  A call to the tracker may fail, or
succeed with its answer lost; an update may be taken for one of a missing issue
(`UpdateMistaken`).  A task lock may expire under its holder (`Overrun`), and a
user may point a subscription to another repository (`MoveSubscription`).
`IssueDrivers` opens this call up for one
delivery and its retries: localization with its cache, Jira's components,
uploads before or after creation, the comparison of files on an update, the
fallback to a new issue.  What the code refers to is what it can infer: the
number of the row or else of the email's latest success (`Reference`), the
repository of the row or else of that success (`Previous`), which need not belong
together.  `others` are the other deliveries of the email (`OtherDelivers`).

### LegacyImport, Accounts, ShareLinks

An import reads, decides and writes; a channel import is two steps, an issue
import a read (one step) and a transaction.  A request to the accounts is cut
where a later query relies on an earlier one.  A page of the share dialog is
part of the model, since it works on its last answer: it sends a request, an
answer is received or lost, and a reload asks the server.

## Runs

Every property of every run below has a mutant in `PROJECT.json`: a plausible
bug in one definition with which TLC finds that property violated.

| Run | Question | Answer |
|---|---|---|
| `pipeline_reset` | Do the locks exclude, does a SUCCESS have its results, is an event published after its results are stored, when two workers, a reprocessing, a crash, failing broker and database and the reset interfere? | yes |
| `pipeline_calm` | Without the reset and without broker and database errors, is the pipeline the lifecycle, retries, a deletion, a crash and a failing graph included? | yes |
| `pipeline_live` | Does every email settle, whatever fails? | yes, thanks to the reset |
| `pipeline_single` | With one worker process and no crash, has an email that is PROCESSING always something behind it? | yes, unless a database call failed that nothing repeats |
| `pipeline_refund` | Are system errors refunded? | no |
| `ledger_race` | Overdrafts, double charges, double refunds, unpaid runs, wallets that disagree with the rows? Is it an account? | none; yes |
| `billing_sync` | Does a wallet only get a paid plan Stripe had active or an operator gave? With the backfill and the payment check switched on, is each paid invoice recorded, does a user whose subscription stays active end with its plan? | yes |
| `mail_fetch` | Is mail saved once, deleted on the server only after it was handled, saved at last if it stays there, and does a saved email get its task? | yes |
| `catalog_forest` | Is what is sold what the plan says, and has a buyer one customer? Circles between merged emails, evidence that contradicts its reason, serial merges that split a conversation? | yes; none |
| `relay_delivery` | One issue per delivery, issues of the right conversation, COMPLETED without failures, events and deliveries that settle? | yes, but for the crashes and lost answers the properties name |
| `contents` | Does an issue have the files its text shows, a delivery one artifact, is another's issue spared? Does a text show saved images only? Are results kept, of one text, and is progress monotonic? | yes |
| `accounts` | One user per email, no account taken over by a request? One share link at a time, for good, with the password shown? History imported once? | yes |

`pipeline_refund` is expected to be violated: the graph routes to the error
handler exactly when there are errors, and the node inherits an entry condition
that asks for none, so it is always skipped.  `threadline/admin.py:556` promises
the refund.

`AccountSpec` and `LifecycleSpec` are refinements: the abstract module is
instantiated in the detailed one with a mapping of its state, and its
specification is a PROPERTY of the run.

### What the properties excuse, and why

A property says what the code does keep; where it does not keep more, the
exception is named in the property.

* `OneRunPerEmail`: while no lock expires under its holder (`MaxOverruns = 0`).
* `ProcessingIsOwned`: not an email whose step ended in a database error the code
  only logs: the first read of the merge task (`tasks/email_merge.py:37`), the
  load of the workflow task and of the finalize node, the save of FAILED in an
  error path (`merge_workflow.py:58`, `tasks/email_merge.py:210`,
  `workflow.py:53`, `workflow_finalize.py:734`).  It stays PROCESSING until the
  reset finds it, or a retry.
* `LedgerBalances`: not a wallet that a repair of the payment check loaded before
  a charge, a refund or a reset and saved after it
  (`payment_check/stripe.py:341-362`), until it is reset: that update is lost.
* `PaidPlanIsPaid`: credits of a paid plan stem from a subscription Stripe had
  active once or from a plan an operator gave (`admin_views.py:640-666` takes paid
  plans too), but for the renewal, which works through a list read earlier, and
  the save of the payment check, which puts back the wallet it had read
  (`payment_check/stripe.py:341-362`).
  They may stay those of an earlier plan until the next renewal, and with two
  subscriptions at Stripe the wallet may follow either.
* `PaidInvoicesSettle`: where the backfill is switched on, and for an invoice that
  does not leave its lookback, 30 days unless configured, before it is recorded.
* `ActiveIsServed`: where the payment check is switched on, for a user with one
  subscription that stays active.  Both tasks are registered as disabled
  (`billing/periodic_tasks.py:20-37`) and off in the default configuration
  (`config_service.py:14-19`): without an operator who turns them on, what a lost
  webhook left behind stays.
* `OneIssuePerDelivery`: of policies without an explicit strategy, or with
  "update", that update on a retry: the others ask for new issues.  Excused is a
  delivery whose answer from the tracker was lost, whose worker died between the
  call and the save, whose issue somebody deleted in the tracker, or whose retry
  runs beside the run of its event (two locks, one row).  Excused are also the
  delivery whose update failed with a text that holds "404" or "not found", which
  `is_missing_issue_error` takes for an issue that is gone
  (`utils/issues/error_utils.py:8-19`); the deliveries with an issue of a
  subscription that was pointed to another repository (`adapters.py:402-464`); and
  the deliveries of a task that outlived its lock, whose timeout is the time limit
  of the task (`relay/tasks.py:22`, `:74`).  `RelaySettles` excuses
  the event of a crash: a delivery left PROCESSING is skipped for good.
* `DeletionFollowsSave`: a mail whose save failed is deleted all the same.
  Nor does it speak of a mailbox whose lock has expired under a fetch: two fetches
  then count messages that the other deletes, and the second can delete one that
  nobody has read (in the model the server renumbers for both at once).
  `ServerMailIsSaved`: of the mail the search asks for, by the filters of the user
  and, by default for a month (`user_bootstrap.py:47-51`), by its age; and not
  where the fetch asks for unread mail only: a save
  that failed leaves the mail marked as read.  Both speak of mail with a date,
  and excuse a mail for one user, not for the others it is fetched for.
* `SerialMergesKeepTogether`: with one worker.  Two workers at once can split a
  conversation, as each follows heads before it locks them.
* `NoCircle`: with one worker, which is the default (`docker/entrypoint.sh:22`),
  or with two.  Three that link three manual canonicals of similar text to each
  other, all at once, close a circle: each has followed the head it links to
  before the others lock their own emails, and an email that gets children
  while its task is under way is not looked at again.
* `IssueHasItsFiles`: but for a file that was gone, an upload that failed, an
  issue somebody deletes.  `StrangersUntouched`: not for Jira, where a key is
  used after the server in the configuration has changed; for GitHub only while
  the other deliveries of the email lie in one repository (`PlaceIsTold`).  A
  delivery that adopted number 5 of the first repository and failed is
  compared, when it is retried, with the repository of the latest success
  (`relay/services/adapters.py:391-404`, `delivery_strategy.py:174-194`): if
  that is the second one, it writes to number 5 there, whosever it is.
* `OneTextBehindAll`: unless a forced run was cut short and continued by an
  unforced one; its SUCCESS then has parts of two texts.  The same comes of one
  forced run without any error if an answer says nothing: the new text, title
  and structured summary are stored beside the old content
  (`summary_node.py:294-299`).  Nor when a metadata request put back what it had
  read.
* `ResultsSurvive`: a todo keeps its row, what it says and whether it is done,
  not its details (`workflow_finalize.py:460-488`).  A report that saves metadata
  it has read loses an edit in between (`models.py:526-536`); it is not counted
  as a step of the run.
* `ProgressNeverFalls`: of the percentages a run saves.  Between the sync, which
  removes it, and the next report there is none, and a metadata request puts back
  the one it has read.
* `OneUserPerEmail`: unless two requests for one address overlapped.  Then
  there are two users, `User.objects.get` raises, and neither can complete.
* `LinksEndForGood`: a renewed link may end before its time if somebody found it
  expired just before it was renewed (`tasks/cleanup.py:620`).
* `HistoryOnce`: an issue whose channel was deleted keeps its event and gets
  a second one when it is imported again.
* `OffersAreTrue`: the price of a plan whose last sync was cut short after
  `stripe.Price.modify`, or overlapped with another, may be inactive: nobody can
  buy it until a sync runs alone.

### Known disagreements that no run shows

Seen while modelling, each between the code and what it says of itself, or
plainly surprising.  `pipeline_refund` shows the one that matters most.

* `save` validates against a read and writes later: the reset may fail a row in
  between and the verdict makes FAILED a SUCCESS (`threadline/models.py:539`).
* The finalize node of a process keeps the email it finalized last; when the
  next email is deleted before it is loaded, the error path fails the earlier
  one, against its comment (`workflow_finalize.py:718`).
* A retry marks an email PROCESSING; if the merge that is ending still holds
  the lock, the message is dropped and nothing works on the email until the
  reset (`merge_workflow.py:25`).
* Tasks over TASK_TIMEOUT_MINUTES are not terminated; their lock expires and a
  second worker may start beside them (`core/settings/email_system.py:103`).
* Refunded work is not paid for when it is done again: the key is the same and
  `consume_credits` answers with the old row (`credits_check_node.py:137`).
* A plan change saves the bonus it loaded over a grant made meanwhile.
* The two halves of a conversation that were merged at once stay split.
* After a change of price the `PlanPrice` row is overwritten, and events of
  subscribers to the old price raise `StripePlanMappingError`
  (`subscription_service.py:305`).
* `update_billing_config` reads, changes and saves every field: two at once
  lose one's change.  `init_billing_stripe` may die after it has made a webhook
  endpoint and before it has stored its secret.
* A plan's page shows `monthly_price_cents`; the price charged is the row's
  until the next sync.  The command syncs amounts it read at its start, over a
  newer one from the console.
* A file is moved to processed before its email is saved: a crash in between
  loses the mail.  A mail without a date gets a fresh message id at each parse;
  two of equal subject, sender, recipients and date are one.  The deletion on
  the server follows a failed save too.  The cleanup deletes old inbox files
  that `core/settings/email_system.py:123` says are moved to the failed directory.
* `upload_attachments` returns counts only, though `test_jira_handler.py:109`
  expects keys; each update attaches images again.  "404" in any error text
  counts as a missing issue, and a second issue is made.  Files uploaded to
  Feishu before one fails are orphans there.
* Duplicate todos make every later sync of that email fail.  A todo deleted
  during a run comes back.  Details of a todo that a user edits during a run are
  overwritten with those read when it was prepared
  (`workflow_finalize.py:460-488`).  An edit of the metadata during a run is lost,
  or writes an old percentage back.  The run is shown as 100 % done after its last
  image, with the text still to be made, and its percentage is gone between the
  sync and the next report.
* A change of the password of a link without an end makes it a link of a week;
  a change to "forever" is sent as null and refused
  (`useThreadlineShare.js:491`, `:584`).  A share password is said not to be stored
  and has a column.
* Each start of a worker applies old settings to channels again and undoes the
  user's edits, though the docstring of the bootstrap speaks of a one-time
  import; a renamed channel gets a twin.
* `EmailAliasSerializer` lists a field that was removed: the answer to a
  creation is an error after the alias was stored.  `assign_internal_plan`
  leaves the users it makes with an incomplete registration.

### Bounds

Bounds called `Scenes`, `Deliveries`, `Budgets` are sets of budgets: each
behaviour picks one, which says how often each kind of request, edit or fault
may happen in it.  A scene brings together the few events that can meet; all of
them at once would only multiply states.

* One email in the pipeline runs: locks, messages, memory and rows of
  different emails touch only in the reset's list and in `Reconcile`.  The
  theorems hold for any set.  Two workers are what it takes to run a task beside
  itself; a third would only repeat the roles (`SYMMETRY` over workers in the
  runs of safety properties; none in the liveness run).  `pipeline_reset` also
  has a `VIEW` (`WhatCounts`): states that differ only in what no later step and
  none of its properties reads, the memory of a task that has used it and the
  history `dropped`, count as one.
* `MaxCopies = 2`: one message that runs and two that wait meet every branch
  of the lock.  `MaxRetries`, `MaxCrashes`, `MaxDeletes` are 0 to 2 per run:
  two retries can overlap each other and the pipeline, one crash leaves one
  orphaned lock with or without a redelivered message.  `MaxOverruns` is 0 in
  the runs on purpose (see Proofs); the liveness run has one worker, beside which
  no second run can start.
* Ledger: `MaxRows = 3`, a charge, its refund and another charge; `MaxBonus = 1`
  and `MaxSecond = 1`, a grant, and forced runs with equal and different keys;
  runs and emails are alike (`SYMMETRY`); prices 1 and 2, so that the price can change between a charge and a refund.
* `Subscriptions`: two Stripe subscriptions (`LastRemote`), a second period
  (`LastPeriod = 1`), three local rows, one webhook handler at a time (`Hooks`;
  handlers are one transaction each after the mirror is written), both tasks
  switched on (`Scheduled`), one invoice that grows too old.
* `PlanCatalog`: two plans that trade amounts 1 and 2, two workers, one buyer.
* `Ingestion`: eleven mails in scenes of one to three, one per way in and
  kind of trouble (see `MCIngestion`); two workers; a mail without a date is
  parsed twice at most (`MaxUndated`), since each parse makes a new id.
* `MergeForest`: four mails that match each other in four different ways and
  one made by hand; one or two workers, which are alike (`SYMMETRY`).  A body is
  a set of passages, of which one is long.
* `Relay`: two merged emails, two subscriptions, one retry of each kind, one
  trouble; four scenes of who takes part.
* `IssueDrivers`: five files of all kinds in lists of two or three, two places,
  four issues, a delivery and its retry, and in one scene another
  delivery of the email.  `MailContent`: mails of up to two
  parts of eight kinds, which is enough for a name, an id or a content to
  clash, and of three where two have one payload and only one calls it an image.
  `WorkflowNodes`: three runs, two images, two todos stored at most three times.
* `Accounts`: two addresses, three names, two clients, four users.
  `ShareLinks`: two pages, three links, two weeks: a link of a week expires and
  is found so.  `LegacyImport`: two imports, two issues, three engines.
* `CHECK_DEADLOCK FALSE` everywhere: a system whose work is done and whose
  users ask for nothing rests, and so does one whose bounds are used up.

### Fairness

Nothing obliges users, operators, crashes, restarts or the replacement of
processes, in any run.

* `pipeline_live`: a live worker takes messages and goes on, a live request goes
  on, time passes for a row nobody writes (`Age`), and the reset goes on: beat
  schedules it every 10 minutes (`threadline/periodic_tasks.py`).  All weak.
  `EmailSettles` therefore rests on the reset, not on redelivery or recovery;
  the reset's own queries are assumed to succeed at last.
* `billing_sync`: a webhook handler, the downgrade and the renewal go on when they
  can: beat schedules the two tasks daily.  The payment check and the backfill of
  payment records go on if they are in `Scheduled`, for only then does beat run
  them; a property that needs one says so.  Webhooks may be lost; the check makes
  up for them.
* `mail_fetch`: a fetch goes on, the reset and the expiry of a lock happen.  The
  starts of both fetches are strongly fair: beat fires them every few minutes,
  but one that finds the lock held is skipped.
* `relay_delivery`: a worker and a request go on.

## Proofs

`CreditsLedgerProofs`, for any users, emails, owners, prices, plans and bounds
that satisfy `LedgerAssumption`:

* `TypeCorrect`, `BalancesNeverOverdrawn`: type correctness and no overdraft.
  The two are proved together, step by step: the balance is tested under the
  lock, refunds only raise it, whatever resets `consumed` leaves plan and bonus,
  which are not negative, and a wallet that is written back whole was not
  overdrawn when it was loaded (`LoadedSolvent`).
* `KeysPayOnce`, `RefundsAreBacked`, `PaidRunsAreBacked`.  The inductive
  invariant is `LedgerInv`: ids lie below `serial` (else a new row could be
  older than the charge it refunds), charges belong to the owner of their email
  (the refund is paid to the charge's user), one charge per key, and refunds
  match charges.  `PaidRunsAreBacked` adds `SawCharge`: a run that is about to
  look for a refund has seen a charge that is still there.
* `WalletsMatchLedger`.  `Total` is a fold, which takes the rows one by one in an
  order of its own choice.  That the order does not matter is proved by taking the
  smallest set for which it would (`TotalOf`); then a row adds its amount
  (`TotalAdds`), and each transaction changes `consumed` and the rows of the
  period alike.  A repair breaks that for one wallet and marks it `stale`.
* `LedgerImplementsAccount`: each step is a step of `CreditsAccount` or a
  stutter, under that invariant.

`EmailPipelineProofs`, for any emails, workers, clients, faults and bounds that
satisfy `PipelineAssumption`:

* `PipelineTypeCorrect`.  `TypeOK` is not inductive: a step that writes
  `mem[w].target` needs to know which email it is.  `UnderWay` says what a
  worker, a request and the reset hold at each label.
* `LocksExclude`, under `NoOverruns == MaxOverruns = 0`.  `LockInv` adds that
  a worker with a message holds its lock and that no two have the same
  message.  Without `NoOverruns` the theorem is false.
* `SuccessIsBacked` and `AnnouncementsAreBacked`, under `NoOverruns`.
  `ResultsInv` adds `RunInv`: from its sync on, a run without errors has
  stored its results, and no other run has begun for that email since, by
  `LockInv`.
* `PipelineIsLifecycle`: the pipeline implements `EmailLifecycle`, under `Calm`,
  each part of which is needed.  With overruns or the reset, two runs write one
  row; a broker or database fault makes a request or a recovery undo what it
  did; and a deletion beside other emails lets the finalize node fail the email
  it had before (see "Known disagreements"), which is no step of the lifecycle:
  TLC finds that behaviour with two emails and one deletion.  `CalmInv` is what
  is left then: nobody writes a row from outside (`Quiet`), what is queued, held
  or claimed exists (`AllKnown`), and a run is about one email, whose row it finds
  as it left it (`OwnRun`).  Every action is then shown to be a step or a stutter.
* `ProcessingIsInHand`: with one worker that does not crash (`Single`) an email
  in PROCESSING has a task, a message, a request or a reset that will still move
  it, faults and the reset included, or a database error dropped it.  An email is
  `Accounted` for when it needs no worker: it is not PROCESSING, or dropped, or a
  message or a request is there; no step but a worker's own changes that
  (`AccountedStep`).  `SingleInv` adds that every lock is held for the message in
  hand (`LocksOwned`), that an error path fails the email of its message, if it
  needs that (`RescuesOwn`), and that whoever marked an email after the merge task
  read it has queued it or is about to (`NotForgotten`).

`WebProofs` on `ShareLinks`, for any pages and bounds that satisfy
`ShareAssumption` (no page is called `None`):

* `ShareInvariant`.  Beside the types, `Points`: what a page, a visitor or
  the cleanup remembers is a link that exists (links are never deleted here);
  `OnlyOne`; `FoundExpired`: what was found expired is so, or was renewed since
  and is in `crossed`; `PagesKnow`: a page that was the last to change a link
  has its password, in the answer it waits for or in what it shows.
* `OneLinkLives`: only a creation adds an active link, and it is refused when
  there is one.
* `EndedLinksStayEnded`: a renewal leaves `active` alone, so that only the
  owner and those who found a link expired can end it, and nobody revives it.
* `PasswordsOpen`, from `PagesKnow`.  It needs `LoseAnswer` to clear `by`: a page
  that has not heard the answer is not told the password.

`WebProofs` on `Accounts`, from `AccountsAssumption` (every email has a username
to offer; `None` is no value), for any clients, emails and numbers of users:

* `OneUser`.  Nothing in the database keeps two users of one email apart; each
  path looks for a user and makes one later.  The invariant says, of an email
  whose requests have not overlapped, that at most one client is at it
  (`AloneOn`), and that what this client read of the users of the email is still
  so (`Unmoved`) when it acts on it.
* `UsersSurvive`, from the same invariant: who is deleted is the temporary user
  the client found, not one who has completed a registration meanwhile.

`WebProofs` on `LegacyImport`, from `ImportAssumption` (no engine is `None` or
gone), for any imports, issues and engines:

* `ImportOnce`.  `HasRead`: what an import has read of the issues and of the
  channels keeps its meaning until it writes (issues do not change, they only
  go; channels keep their ids); `OneCopy`: an issue has one delivery at most, to a
  channel that exists, and one event with it.

`CatalogForestProofs` on `PlanCatalog`, for any plans, users, workers and bounds, from
`CatalogAssumption` (no customer is called `None`):

* `OneCustomer`.  The row of a user is read before the customer is made and
  written after, and the checkouts of a user overlap; what keeps them apart is
  the key (`KeyedCustomers`): while a checkout may make a customer, the key
  knows the customer in the row, and the customer a checkout is about to keep
  is the one of the key.  It rests on `KeyExpires`: no request outlasts its key.
* `TrueOffers`.  `OfferInv` follows a sync through its calls.  A worker that was
  alone at its plan throughout leaves a row with an active price; one that was
  not leaves the plan in `spoiled` (`Disturbed`, `Apart`); a price that was
  dropped is in the hands of the worker that dropped it, or recorded.

`CatalogForestProofs` on `MergeForest`, from `ForestAssumption` (ids and days are
numbers, the ids of merges by hand are no mail's, a crew is finite), for any mails,
matches, workers and numbers of requests:

* `EvidenceIsTrue`.  `Held`: a task that has decided holds the lock of its email,
  which is there and points nowhere, and the evidence in its hands agrees with
  itself, as the primary source has the strongest reason; an email keeps the pair
  of reason and evidence it got, until it is merged again, or by hand.  `OneEach`
  keeps two tasks off one email.  The number of workers does not matter.
* `EveryWalkEnds`.  `Rooted` says it of sets: from each set of emails a pointer
  leads out, or there is none.  It is not inductive alone: a task links its email
  to a head it has followed earlier.  `ApartFrom`: the email is not among those
  that a walk from the target meets.  `Known`: if the email of the other worker is
  among them, it is the target, whose row that worker has locked, so that the link
  waits.  With a third worker `Known` says too little, and the theorem is false.
  Absorbing, merging by hand and deleting turn pointers to a root or cut them
  (`TurnedToRoot`, `Loosened`).
* `ConversationsStay`.  `Alone`: there is no manual canonical to link to, and
  the heads a task has found are still heads when it is done, since nobody
  else moves pointers; so that absorbing only adds pointers, and a conversation,
  a least closed set, can only grow.

`RelayProofs`, from `RelayAssumption`, for any workers, requests, events,
subscriptions and policies.  Each action has an effect lemma, which says what it
writes of the delivery, event and issue it is at, and frame lemmas say what the
others leave alone; the invariants are proved from these.

* `RelayTypes`: `BaseInv`, the types with what a worker remembers at each step.
* `IssuesStayWithTheirEmail`: `Published` (a delivery exists only for an event
  that was published) and `Refers` (what a row, a worker or a link names was made
  by the same subscription, for the same or a merged email).
* `OneIssue`.  `LockInv`: whoever works on an event or retries a delivery holds
  its lock, or it ran over its time limit and all its deliveries are excused
  (`Lapsed`).  `LocalInv`, of one delivery that is not excused (`Careful`): at most
  one worker is at it (`Alone`); its issues are those in its row, or that worker
  has just made one and has not saved it (`Issued`); and what the worker read of
  the row is still so when it decides between a new issue and an update
  (`Attempt`).
* `CompletedIsComplete`: with one worker and without edits, no event is COMPLETED
  of which a delivery failed.  `FailureInv`: an event task has each failure before
  it, behind it (then it has counted it) or at hand (`Tracked`); rows exist only
  for enabled subscriptions (`Enabled`), which is why the list it read at first
  leaves none out; and only the tasks, never a request, make a delivery fail.
  Two workers, or a subscription disabled between two runs, break it.

`EmailContentsProofs` on `IssueDrivers`, from `DriversAssumption` (an artifact and a number are not
`None`, the files of a delivery are finitely many, place 1 exists):

* `ArtifactIsOne`: `ArtifactInv`, that work past the first step, the cache and
  the issues written agree on one artifact (`Settled`).  Only what is written is bounded, not which issue it goes to.
* `StrangersAreSafe`, while `PlaceIsTold`: `TargetInv`, that every issue a step
  may write (`Target`) is the delivery's own or nobody's yet (`Safe`), and that a
  number taken over is an own one in one of the places of the email's other
  deliveries (`ReferenceInv`): if these are one place, it is the one that is
  compared.  New numbers lie above
  all that were given (`Given`), so that what was remembered as one's own
  cannot become another's.
* `DeliveredFiles`: `FilesInv`, that a file an issue still lacks (`Due`) is among
  those left to upload or among the lost (`Pending`).  It assumes `OwnNames`: a
  file whose name is the stored name of another of the same size has its
  content.  The comparison on an update goes by name and size
  (`utils/issues/jira_client.py:674`), and stored names are hashes of the
  content: two files that break `OwnNames` would be a user's file deliberately
  named like a hash.  The run's files satisfy it.

`EmailContentsProofs` on `WorkflowNodes`, from `NodesAssumption` (images and todos
are finitely many, `None` is no number, no verdict and no todo), for any emails,
plans and numbers of runs.  One invariant, `NodesInv`, carries the three theorems; a lemma
says once what the end of a node keeps (`NodeKeeps`), one lemma per node what the
node leaves in the state of the graph:

* `PartsShareTheirText`.  Outside a forced run the parts of the row agree on one
  text (`RowAgrees`).  A run without force continues that text (`GraphAgrees`); a
  forced run replaces the parts one by one, in the order of the nodes
  (`Replaces`), so that text, title, summaries and metadata are all of one text
  only when it reaches the end and no answer was silent.  A report under way has
  metadata of the text of the stored ones (`Percents`).  `NoWords`: without words there never is
  a text.
* `StoredResultsSurvive`.  `HoldsStored`: what a run without force has of a part
  that is stored is what is stored, and the image node, which may lose a
  description, starts from the stored ones.  That the todos have numbers left
  (`NumbersExist`) is what lets a new todo leave the others alone.
* `ProgressRises`.  The end of a stage is a sum of shares of 100, rounded by the
  largest fractions (`build_workflow_progress_plan`): it is a number because the
  units of a plan are and do not sum to zero (`SumBounds`, `SpansCount`,
  `EndCounts`); the rest is that the tracer keeps the largest (`ReachesUp`) and that a
  report carries it, which is no less than all that was saved before
  (`Percents`, `ReportKeeps`).

`EmailContentsProofs` on `MailContent`, from `MailAssumption` (no content id is the
hash of a payload: `_extract_inline_images` keeps both in one dictionary), for any
mails, tags and failing saves:

* `TextsShowSavedImages`.  The walk over the parts and the replacement of tags
  are recursions over a sequence.  `UpTo` is induction up to a number, stated with
  a set; with it each recursion is shown to have a solution (`WalkExists`,
  `ReplacingExists`) and is then followed step by step.  The first walk finds
  exactly the payloads worth showing (`InlineHoldsWorth`), the text refers to some
  of them, or to all without HTML (`TextRefersToWorth`), and `MailInv` says that
  the text is made from the first walk alone and that a saved file that is no
  image comes from a part that is none.

`IngestionProofs`, from `IngestionAssumption`, for any mails, mailboxes, workers,
crashes and expiries of the locks:

* `IngestionTypes`, and `OneRow`: what the model has to keep is that an id is
  unique per user (`RowsInv`), and that a mail that states its date gets the same
  id at each parse.
* `DeletedIsSaved`.  A fetch remembers a number, and an expunge renumbers a
  mailbox.  `BoxInv`: the lock of a user, until it expires under its holder, lets one
  fetch at a time into the mailbox; so `HandInv`: the number still means the message that was parsed;
  `SavedInv`: when the fetch comes to delete it, it is saved, unreadable or excused.

`SubscriptionsProofs`, from `SubscriptionsAssumption`, for any Stripe
subscriptions, periods, rows, handlers and scenes:

* `SubscriptionsTypes`: `TypeInv` and `RowInv`: a Stripe subscription has one
  row, a row of the platform is never past due, and the paid plan of a row that
  follows a subscription and holds was reported by Stripe.
* `PaidIsPaid`.  A plan reaches the wallet through copies of copies, each of
  which may be old: Stripe's subscription (`StripeInv`: once an invoice is paid,
  its present plan was reported), dj-stripe's mirror (`MirrorInv`), what the
  payment check has read and stores later (`CheckInv`), the rows (`RowInv`), the
  list of the downgrade (`DownInv`).  Every action keeps each of them
  (`StepOk`), since `reported` only grows and no row is deleted, and grants only
  what one of them, or a row an operator made, backs.  The renewal and the save of
  the check are excused by the property itself.

Only model-checked, and why:

* all liveness (`EmailSettles`, `PaidInvoicesSettle`, `ActiveIsServed`,
  `ServerMailIsSaved`, `SavedMailGetsTask`, `RelaySettles`), which is out of the
  prover's reach.

## Not modelled

* Deleting an email deletes its credit transactions with it
  (`billing/models.py:298`); the ledger keeps its rows.
* The task lock of the reset, and its own crash: the outcomes of a crash
  (the loop ends early) are those of its faults.
* Prompts, the parsing of LLM answers, checkpoints (nothing reads them), the
  tracer's execution records, notifications.
* In ingestion: the command `process_emails` (it calls a method that does not
  exist), other clients of a mailbox.  In the parsers: wording, decoding,
  headers.
* In the relay: a change of the provider of a subscription; links between
  issues; the caches.  The retry loop of the Feishu driver serves a path
  nothing takes.
* In billing: audit rows, statistics, trials, schedules, the webhook endpoint and
  API keys, a switch between test and live mode (it leaves rows with the other
  mode's prices), a rename of a plan's slug.
* In the accounts: sessions, profile edits, lists.  In the share links: view
  counters, and several requests of one page at a time.
* Views, statistics, monitoring, retention of task records, and the rest of the
  web interface: they show rows.

## What comes next

1. The ledger with the deletion of emails.
2. The plan of deliveries and the calls of the drivers in one composition.
