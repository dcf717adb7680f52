# TLA+ models of the home-warranty back office

The repository is a Rails 3.2 application with which agents sell and bill home
warranties, settle claims and read the faxes contractors send. This directory
holds models of its parts in TLA+, the TLC configurations that check them on
small instances, and proofs checked by TLAPS for instances of any size.

## The parts of the system

| Part | Where | Model |
|---|---|---|
| NMI billing: charge, subscribe, refund, cancel, void | `admin/subscriptions_controller`, `credit_card`, `subscription`, `lib/gw_api` | `NmiBilling`, which implements `GatewayBooks` |
| Fax retrieval | `workers/fax_fetch_worker`, `fax_source`, `admin/fax_sources_controller` | `FaxFetch`, which implements `FaxMailbox` |
| Claims and repairs | `admin/claims_controller`, `claim`, `admin/repairs_controller`, `repair` | `ClaimRepair` |
| Tables of the customer page | `cip.src.js` (CITable, CIRequest, CIForm), `customers/edit.html.erb` and the controllers behind it | `CITable` |
| Contractor sheet of the customer page | `contractor-map.js` over CISheet, CIButton, CITable | `RepairSheet` |
| Purchase and billing on the public site | `site_controller`, `site/billing.html.erb` | `WebOrder`, which implements `Enrolment` |
| Authorize.net charges and silent posts, billing a card | `admin/transactions_controller`, `credit_card`, `admin/credit_cards_controller` | `SilentPost`, composed with `WebOrder` |
| Everything else | see "Not modelled" | |

`PROJECT.json` lists every part with its files, and the main hazards.

The parts meet in the database. A customer has claims, transactions,
subscriptions and credit cards; a claim has repairs, a repair a contractor; a
fax is joined to customers and contractors. No handler opens a
transaction around several saves or locks a row, so the unit of
interleaving is one query, one save or one call to a service. That is the grain
of the models: a request is a sequence of such steps, and between two of them any
other request may run, the answer may be lost, or the process may die.

## NmiBilling

**State.** A request is one call of a controller action. It creates at most one
row in each table, so the tables are functions of the request: `subStatus`,
`subStart` and `cancelled` are columns of `subscriptions`; `txn` and `refund`
of `transactions`; `note` is the customer's note. `captured`, `vault` and
`refunded` are the gateway's own books. `answer` and `loaded` are what the
request holds in memory. `raced` is an observer.

**Actions.** `nmi_billing`, `manual_billing`, `bill_subscription_nmi`,
`bill_manual_nmi`, `Refund`, `del_subscription`, `delete_subscription` and
`void_transaction` are the controller's actions up to the gateway call, with
their early returns and the exceptions they raise. `doSale`, `doRefund` and
`cancelSubscription` are the calls: the gateway acts, then the answer arrives or
is lost (`GwApi#doPost` gives up after 15 seconds). `SaveSubscription`,
`SaveTransaction`, `SaveRefund`, `SaveCancel` and `SaveNote` are the writes that
follow. `Abort` is a crash, or a save or mail that raises.

**What the code does that one would not expect.** The model keeps each of these:
a subscription that starts on another day gets no transaction row although the
sale is asked for; `delete_subscription` asks the gateway's demo account;
`void_transaction` always raises; a state that names its own merchant account
makes `nmi_login` raise; the default start date is the server's local date and is
compared with the application's (`LocalDates`).

**External.** The gateway is known only from how `GwApi` uses it: it answers 1,
2 or 3, captures on 1, and refunds only what it captured. No bound of refunds
by the captured amount is assumed.

**What it implements.** `GatewayBooks` is what billing promises about money, without
requests, answers or saves. The gateway's books and the office's rows are two sets of
books, and no step writes in both. The office writes a sale down at most once and for
what was taken. Money is given back only on a sale that is written down, only a
subscription with both rows is stopped, and the refund column says at most what was
given back. The mapping takes the rows as they are, except that a sale counts as
written down when its transaction row is approved. It does not promise that every
sale is written down: a lost answer or a crash prevents that, and `CaptureIsRecorded`
says exactly when.

## FaxFetch

**State.** `lock_flag` and `last_scanned_id` are columns of `fax_sources`;
`inbox` and `flagged` the mail server; `faxes` the rows saved, with the process
that saved them. Each job or request has the rows it loaded (`copy`), the
sources left, the source it is at, the messages found and the last one
handled. `overlap` and `failed` are observers.

**Actions.** `perform`, `Seize`, `Skip`, `Unlock` and `PerformDone` are
`FaxFetchWorker#perform`; `retrieve` is the agent's request, which does not look
at the flag. `Connect`, `ScanSkips`, `ScanOther`, `ScanFax`, `Flag`, `ScanDone`
and `Finish` are `FaxSource#retrieve!`. `Raise` is an exception inside it (the
worker's empty `rescue` goes on), `Die` a crash, `Deliver` a new message.

**Abstractions.** A message is a fax or not (a number in the subject and an
attachment). Uploads and pictures lie between `ScanFax` and `Flag` and are
there only as places to raise. Messages are never removed from the inbox, so
their numbers are stable; the code does not expunge.

**Fairness.** `FairSpec` has weak fairness on `Step(p)` for each process: once
a job or request is running, its thread runs on until it ends. Nothing is
assumed about jobs being started, mail arriving or failures stopping.

**What it implements.** `FaxMailbox` is what fetching promises, without jobs, locks
or passes: messages arrive, faxes are kept, and a message is settled, so that
nobody looks at it again, only if it is kept or is no fax.

## ClaimRepair

**State.** `claim` has the settlement, invoice and status columns of one claim,
`repairs` its repairs in order (`claim.repair` is the first). `copy` is what a
request loaded, `req` its parameters. `clean` is an observer: no one else has
written since this form was rendered.

**Actions.** The edit page has two forms that post to `claims#update`: the claim's
own ("Update": claim status, invoice date and status, the repair's amount, among
the fields modelled) and the settlement's ("Update REL": buyout and reimbursement).
`Render` is `claims#edit` for a page of which one form will be sent, and `Load` is
the sending, with any of its fields changed, and the loading of the records.
`SaveForm` and `SaveDate` save the first, whose date is saved twice, `SaveRelease`
the second, and `Answer` ends both. `Amount`, `BlankAmount`, `Assign`, `StatusCode`,
`InvoiceStatus` and `AsyncReceive` are the branches of
`async_update_claim_or_repair`; `Receive` and `ClearReceive` the popups of
`claims#update`; `toggle_status`, `toggle_authorization`, `complete` and
`unassign` the actions of `RepairsController`. `GiveUp` is a closed page, an
exception or a crash.

**Conversions.** A save writes only the columns that differ from what was loaded
(`Kept`). `buyout` and `reimbursement` are text columns, and a Float assigned to
a text column always differs, so the zero of `buyout_or_reimbursement` is always
written (`Zeroed`): `OneSettlement` rests on this. A settlement is therefore an
amount and how it is written. `authorization` is a text column too, so
`toggle_authorization!` only ever withdraws. The model's date parser is a
constant, `Misread`, which the runs set to exchange day and month. A select sends
the option it shows: for a claim status that is no longer active, which is not among
the options, the first active one (`Listed`), and for an invoice status that is NULL
an empty text, which is not NULL and is written (`Prompt`). Which statuses are active
does not change while the model runs.
The page's script disables "Update REL" while both sums are zero or both are positive;
the model lets such a form be sent, and `FormTakesEffect` says nothing of the sums of
one with both positive.

**Left out.** Free-text columns, `updated_by`, `service_charge`, the other dates,
the contractor and customer fields nested in the form, time zones, mails, and the session
filter of the dashboard.

## CITable

**State.** `db` is the customer's records on the server, `rows` what the table
shows, `hud` the cell editor, `busy` the title's indicator and `requests` what is
in flight. `kind` picks one of the four tables of the page, which differ in what
can be edited, added and deleted and in whether they reload. `served`, `writes`,
`shownAt`, `calm` and the field `opened` of a request are observers.

**Actions.** A handler of the page runs to its end, so it is one step: `GetData`,
`EditCell`, `StopEditing`, `CommitChanges`, `AddRecord` and `DeleteRecord` are the
user's. Selecting the tab has sent `FirstGet`. `Serve` is the controller's side of a
request; `Redirect` is an expired session; `Lose` a failed request. What an expired
session looks like to the page depends on the browser. The login page answers html
only (`admin_controller.rb:42-47`). A browser that sends the request's Accept header
again after the redirect gets 406, a failure, which `Lose` has; one that drops it,
as some older ones did, gets the page as a success whose JSON is null, which is
`Redirect`. The properties are shown for both. `Receive` is the handlers of an
answer. Answers come in any order, since every `send` makes a new XMLHttpRequest.

**Left out.** Sorting, layout, animation, and every text but one value a record.

## RepairSheet

**State.** One sheet object serves all claims: `claim`, `selected` and
`disabled` are globals that outlast a showing. `repair` is the server's
contractor of each claim, `shown` the claims table, `listed` the contractors
found. The field `meant` of a request, `writes`, `shownAt` and `calm` are
observers.

**Actions.** Opening and cancelling the sheets, searching, selecting, and the
buttons Assign, Unassign, Assign New and Add & Assign; `Serve`, `Redirect` and `Lose` as in
`CITable`; and one action for each handler of an answer, the geocoder's included.

**Fairness.** Weak fairness on the network as a whole: the browser ends every
request, with an answer or an error, and runs its handlers. Nothing is assumed of
the user, or of answers being successes.

**Left out.** Animations (show and hide take effect at once), distances, the
map's drawing, and the fields of a contractor.

## WebOrder

**State.** The `customers` rows an order writes, the number of `accounts` with
the visitor's address, the browser's `cookie`, the gateway's `subscriptions`, and
for each billing request its step and local variables. `thanked`, `cut` and
`overlapped` are observers.

**Actions.** `Quote` and `Purchase` are the purchase page; `Billing` to `AddCard`
are `SiteController#billing`, sent with the mode the page's script has put in the
hidden fields (single when the page is ready; `scriptless` where it does not run),
one step for each call to the gateway and each row written; `RecurringLost` is a
subscription whose answer is lost, `Abort` an exception anywhere. An error page
carries no Set-Cookie header, so the cookie goes only with the answer, in `AddCard`.
`ChangeStatus` is an agent.

**Left out.** Addresses, card data, contract length and texts. All orders of the
browser give one e-mail address. The price with and without a discount is one
number.

**External.** That the gateway refuses a subscription of no payments.

**What it implements.** `Enrolment` is what an order promises, without requests, pages
or a cookie: people ask for quotes, subscriptions are opened for them, each is recorded
at most once and with its holder, one that has been lost track of is never recorded,
and only a person with a recorded one is welcomed. A subscription is `pending` from the
gateway's answer to the save; a request that ends in between loses track of it.

## SilentPost

Extends `WebOrder` by the gateway's `ledger`, the `posts` under way, the
`transactions` table and the `notes` of `bill`. Its next-state relation is that
of `WebOrder` with these unchanged, or one of its own actions: `PaymentDue`,
`Credit` and `Void` at the gateway (external), `Bill` and `BillNothing`
(`CreditCardsController#bill` over `charge_cents!`), and `Deliver`, `Repeat` and
`LosePost`, around the handler `SilentPost`. The two halves share only the
subscription id that an order saves and a post looks for.

Amounts, agents and merchant names are left out. Subscription ids have one length,
so that `LIKE '%id%'` is equality. `orderly` is an observer: every post came once,
and a void after its charge. The handler renders a 200 in an `ensure`, which does not
keep an exception from becoming an error answer; what it answers is left out, since a
post may be repeated in any case.

## The runs

| Run | Instance | What it shows |
|---|---|---|
| `nmi_requests` | 1 sale of 0 or 1 and 2 requests about it, refunds of 0 to 2 | `NoteTellsTruth`, `CaptureIsRecorded`, `RefundNeverOverstated`, `RefundExactWhenSerial`, `CancelledMeansDeleted`, `DeletedMeansCancelled`, `OnlyTodayIsStopped`, `ImplementsBooks` hold |
| `fax_overlap` | 2 jobs, 1 agent, 1 source, 2 messages, 1 failure | `NothingLost`, `SavedOnce`, `LockHasHolder`, `ImplementsMailbox`, `NoneRunsInCircles`, `LockIsReleasedUnlessStuck` hold |
| `fax_lock_leak` | 2 jobs, 1 source, 1 failure | `LockIsReleased` is violated |
| `claim_requests` | 2 slots, 3 requests of any kind but `async_status`, 3 statuses of which 2 active | `OneSettlement`, `FormTakesEffect`, `ZeroIsNeverAuthorizedAfresh` hold |
| `repair_limit` | 2 amounts up to 500 | `AuthorizedWithinLimit` is violated |
| `citable` | 4 tables, 2 records, 3 requests of the user, 1 fault | `SaveTargetsOpened`, `RowsWereServed`, `BusyMeansWaiting`, `QuietTableIsFresh` hold |
| `citable_twice` | the properties table | `NoRecordTwice` is violated |
| `repair_sheet` | 2 claims, 1 contractor and 1 new, 4 requests, 1 fault | `EnabledMeansSelected`, `QuietTableShowsAssignments`, `RequestsRunOut`, `AssignSettles`, `AssignEnds` hold |
| `repair_sheet_new` | the same | `AssignedToThisClaim` is violated |
| `web_order` | 2 requests, 2 quotes, 2 subscriptions, 1 fault | `ThankedMeansRecorded`, `NoOrphanWhenSerial`, `OneAccountWhenSerial`, `ImplementsEnrolment` hold |
| `charged_as_shown` | 1 request, 1 quote | `ChargedAsShown` is violated |
| `silent_post` | 1 request, 2 customers, 2 gateway transactions, 1 note, 1 fault | `PaymentsReachOwner`, `ApprovedMatchesGateway`, `BilledIsOnTheBooks` hold |

Each passing run also checks its module's type invariant. `ApprovedIsCaptured` and
`RecordedIsOwn`, which are proved, are no invariants of a run: `GatewayBooks` has the
first of every sale above 0 and `Enrolment` has the second, so `ImplementsBooks` and
`ImplementsEnrolment` check them.

**What the premises leave out.** Several properties hold only under a premise,
because the code does nothing against the rest. `NoOrphanWhenSerial` and
`PaymentsReachOwner` say nothing of orders that overlap or are cut short after the
gateway was asked; `OneAccountWhenSerial` nothing of overlapping ones;
`ApprovedMatchesGateway` and `BilledIsOnTheBooks` nothing of posts that are lost,
repeated or overtaken by their void; `QuietTableIsFresh` and
`QuietTableShowsAssignments` nothing of failed, expired or overtaken answers
(`calm`); `ZeroIsNeverAuthorizedAfresh` nothing of the edit form, a blank amount
or a stale copy; `FormTakesEffect` nothing of a form whose rows someone else has
written since it was rendered. The models have these steps; the hazards in `PROJECT.json` say
which of the main ones are not covered.

**Bounds.** A sale shares no row with another, and two requests about it give every
overlap; the constraint `OneSale` keeps other sales out, and sales above the least
amount billed, which take the same branches. In `FaxFetch` a pass interferes with
another only through one source; two jobs and an agent are the two kinds of pass and
one more of the kind that locks. `FirstScanned` is 1 where the code has 500, which
moves the boundary to where two messages reach it. In `ClaimRepair` the amounts are
one on each side of the code's tests; two requests overlap and a third comes before
or after. One of the two statuses a claim is created with is not active, so that
both cases of the select occur. `async_status` is the same assignment as
`invoice_status`, of fewer values, and is left to the proof. In `CITable` and
`RepairSheet` two rows or claims are the one meant and another; a user makes a
request while at most one is in flight, and those that handlers make come on top. In
`WebOrder` 144 is divisible by 12 twice, two quotes are two values of the cookie,
and one fault separates a failed attempt from its repetition. `silent_post` has one
billing request, so orders do not overlap there; `web_order` has the overlaps.
Requests are interchangeable, and their permutations are the symmetry used in
`nmi_requests`, `claim_requests` and `web_order`; runs with liveness use none.
Deadlock is not checked where a bounded user or gateway simply has nothing left to
do.

**Fairness.** Only `fax_overlap`, `fax_lock_leak` and `repair_sheet` assume any:
`FaxFetch` as said above, `RepairSheet` on the network.

## What the violations show

- `fax_lock_leak`: an exception in `retrieve!` skips the line that clears
  `lock_flag`, so later jobs skip the source for good, against the comment at
  `fax_fetch_worker.rb:23`.
- `repair_limit`: $50 and then $500 is an authorized repair of $500, against
  "Pre-authorize under or equal to $100" at `claims_controller.rb:15`.
- `citable_twice`: the answer of a save is written to the row that is being edited
  by then, against "just the table row is updated" at `cip.src.js:13761`.
- `repair_sheet_new`: a new contractor is assigned to the claim the sheet shows
  when the answer comes, against "assigned this Claim" at
  `contractor-map.js:279-281`.
- `charged_as_shown`: the gateway gets the terms of the row, and the terms chosen
  on the page are saved only afterwards, against `billing.html.erb:176` and the
  amount shown at line 314.

Three more disagreements were met and have no run of their own. Two jobs may seize
one source (comment at `fax_fetch_worker.rb:13`). Messages below
`last_scanned_id`, which starts at 500, are never fetched
(`doc/shw_description.md:46`). The form sets an authorized amount to $0 (comment at
`claims_controller.rb:26`).

## The proofs

The theorems hold for any sets of requests, jobs, agents, sources, claims,
contractors, amounts and dates, and any bounds, that satisfy the named assumptions
of the modules. These give the constants their types, keep jobs and agents apart,
and say that the codes the code mentions exist. Every invariant and action property
of a passing run is proved, and so are the refinements of `FaxMailbox`, `GatewayBooks`
and `Enrolment`.

| Module | Theorems | Inductive invariants |
|---|---|---|
| `NmiBillingProofs` | `TypeCorrect`, `RefundsNotOverstated`, `NotesTellTruth`, `CapturesAreRecorded`, `ApprovedRowsAreReal`, `SerialRefundsAreExact`, `CancelledWereDeleted`, `DeletedAreCancelled`, `OthersKeepRunning` | `TypeOK`, `RefundInv`, `ChargeInv`, `ExactInv`, `CancelInv` |
| `GatewayBooksProofs` | `BillingImplementsBooks` | those of `NmiBillingProofs`, `BooksInv` |
| `FaxFetchProofs` | `TypeCorrect`, `NoFaxLost`, `FetchImplementsMailbox`, `FaxesSavedOnce`, `NoCircles`, `AlwaysAStep`, `LocksAreHeld` | `TypeOK`, `FaxInv`, `OnceInv`, `SeizedInv`, `LockHasHolder` |
| `ClaimRepairProofs` | `TypeCorrect`, `SettledOneWay`, `ZeroNotAuthorizedAfresh`, `FormsTakeEffect` | `TypeOK`, `FormInv` |
| `CITableProofs` | `TypeCorrect`, `SavesReachOpened`, `RowsAreServed`, `BusyIsWaiting`, `QuietTablesAreFresh` | `TypeInv`, `ServedInv`, `FreshInv` |
| `RepairSheetProofs` | `TypeCorrect`, `EnabledIsSelected`, `QuietTableIsRight`, `NoEndlessRequests`, `AssignsSettle` | `TypeInv`, `SelectedInv`, `FreshInv` |
| `WebOrderProofs` | `TypeCorrect`, `SubscriptionsAreOwn`, `ThanksAreDue`, `OneAccount`, `NoOrphan`, `OrdersImplementEnrolment` | `TypeInv`, `OwnInv`, `RecordInv`, `SerialInv`, `OrphanInv`, `DistinctInv` |
| `SilentPostProofs` | `BooksTypeCorrect`, `PaymentsFindOwner`, `ApprovedIsTaken`, `BilledIsBooked`, `ComposedNoOrphan` | those of `WebOrder`, `BooksInv`, `NotesInv` |

**NmiBilling.** A request writes a sum computed from an old value: `RefundInv`
adds that this sum never exceeds the gateway's total, and `ExactInv` that it equals
it where refunds did not overlap. `ChargeInv` follows a billing request through its
steps. `CancelInv` ties the gateway's subscription to the transaction row and the
start date. For the refinement, `BooksInv` adds what a request may count on when it
calls the gateway or writes: that the row it refunds or cancels is still there, and
that nobody else has written its own rows. Then `doSale` takes, `doRefund` gives,
`cancelSubscription` stops, each save writes one entry, and no other step shows.

**FaxFetch.** A pass trusts the `last_scanned_id` it loaded and writes one that
others will trust. `FaxInv` says that below every such number, stored or loaded,
each fax from `FirstScanned` on was saved, and that a flagged message was. It holds
for stale numbers because saved faxes stay saved. The refinement maps saved faxes
to `kept` and messages no pass will look at to `settled`; `FaxInv` is what makes
each step a step of the mailbox or a stutter. `OnceInv` counts who may have saved a
message on a source without overlap or break. That passes end has a safety core, which
is proved: every step that moves a process decreases the sources left to it, its place
in the pass or the messages it has still to look at, lexicographically (`NoCircles`),
and a running process always has a step whose guard holds (`AlwaysAStep`). The first
needs `SeizedInv`: a job inside a pass has the source among those left to it, so that
leaving the pass takes one away. `LockHasHolder` is inductive with it: a job that
clears a flag another job has set leaves it 0, and one that leaves it at 1 is itself
among those that stopped.

**ClaimRepair.** `OneSettlement` needs only the types: every save that stores a
positive sum writes the Float zero to the other column. `FormInv` says, of a form
nobody interfered with, what the rows and the loaded copy agree on at each step: the
copy is the row until the save, and from then on the row is the copy with the form's
values in it, the misread date until the second save.

**CITable and RepairSheet.** `TypeInv` adds that an attached editor is on a row
with the record it was opened on. `ServedInv` carries the records from answer to
row. `FreshInv` says that, while all is calm, what is shown is as new as the last
write or a request in flight will make it so; in `RepairSheet` that includes the
open sheet, whose hiding reloads the table. `SelectedInv` adds that a request to
assign exists only after a selection. `NoEndlessRequests` gives a request a number:
the chain of requests its handlers may make, and its own way through the network.
Whatever replaces a request has a smaller one. `AssignsSettle` follows from the
types and the handlers alone, the one for another claim's answer included.

**WebOrder and SilentPost.** `OwnInv` and `RecordInv` say what each step of a
billing request has written so far. `SerialInv` says that without overlap at most
one request runs, and `OrphanInv` that a customer whose cookie is still there has
no subscription nobody knows. For `Enrolment`, `DistinctInv` says that no two requests
are about to save the same subscription, so that saving it takes exactly that one out
of `pending`. In the composition every other step leaves the order
alone or only counts a fault, so these carry over (`ComposedNoOrphan`). `BooksInv`
matches posts and rows with the ledger, and `NotesInv` injects notes into charges.

**Only model-checked.** The liveness properties `AssignEnds` and
`LockIsReleasedUnlessStuck`: fairness is out of the prover's reach. What they rest on
is proved: for the first, that requests run out and that the step which ends an
assignment settles it; for the second, that a lock has a holder or is stuck, and that
the holder neither runs in a circle nor stands still. The step from there to the
liveness property is left to TLC.

## Not modelled

- *Third-party and compiled scripts*: MooTools, jQuery, Prototype, editors, charts
  and the compiled copies under `public/`. They are nearly all of the repository's
  JavaScript by lines; they are used through the calls that `CITable` and
  `RepairSheet` model, and a model of them would not be one of this program.
- *The library's other widgets and CIPaginator*: layout, or pure functions of two
  numbers.
- *The quote page's script and other pages' scripts*: validation and display.
- *Customers beyond an order, web accounts, fax assignment, renewals, leads API*:
  writes of single rows for which the repository states no rule relating them.
- *Login and the session's clock*: `CITable` and `RepairSheet` have the expired
  session as a fault at any time, as a null success or as a failure.
- *iContact*: switched off in the source. *Contractor payments*: only in
  `Repair#after_save`, which Rails 3.2 does not call.
- *Lookup tables, partners, notes' mails, content, settings*: single-row edits.
- *Reports, e-mail, PDFs, cloud storage, maintenance tasks*: read-only, pure I/O
  or run once by hand.

## Seen in the code, without a property

In the models, but held to nothing the repository states:

- Add & Assign is disabled by its first click and enabled by nothing
  (`contractor-map.js:291`). A failed assignment whose sheet was cancelled raises at
  the first button and leaves Assign New disabled (`:216`). Unassign, once enabled,
  is not disabled for a claim without a repair (`:240`).
- `CIForm.submit` does not disable its button, so a second click adds a record again
  (`cip.src.js:12335`).
- An order with twelve payments stores a twelfth of what the row had, which the
  purchase page has already divided (`site_controller.rb:91`). One sent without the
  page's script, which chooses the single payment as soon as the page is ready
  (`billing.html.erb:252-254`), stores an empty amount (`site_controller.rb:93`).
- Payments of a deleted customer go by e-mail address to another one, or to nobody
  (`transactions_controller.rb:61`).
- The edit page lists the active claim statuses only: saving it, for whatever reason,
  gives a claim whose status was switched off the first one listed
  (`claims/edit.html.erb:25`). A form rendered before another agent's change writes the
  old values back, the claim status included.
- Two requests that find no repair both create one (`claims_controller.rb:33`).
  `toggle_authorization!` compares a text column with numbers and never authorizes
  (`repair.rb:74`).

In parts that are not modelled:

- Two agents may grant one customer two web accounts (`account.rb:131`), and two new
  statuses may get one `csid` (`customer_statuses_controller.rb:41`).
- Merging accounts clears an address before the property that is to hold it is added
  (`customers_controller.rb:583`).
- Unassigning a fax twice calls `destroy` on nil (`faxes_controller.rb:182`).
- The claims list counts the claims of one status only (`claims_controller.rb:85`),
  and with every filter off its condition is `IN ()` (`:83`).

## Running

    tlc -config MCNmiBillingRequests.cfg MCNmiBilling
    tlapm FaxFetchProofs.tla

`PROJECT.json` names the module and configuration of each run, the mutants that
show that each property can fail, and the source lines of each definition.
