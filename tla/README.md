# InsurShield: TLA+ models and proofs

InsurShield is a motor insurance marketplace for Zambia. A customer enters a
vehicle once and sends a quote request to every active insurer. Insurers answer
with a premium and a quotation document, the customer pays for one of the
quotes, and the insurer issues the certificate. A NestJS API (`apps/api`) keeps
everything in PostgreSQL and an object store; a React application (`apps/web`)
is used by customers, insurers' users and administrators.

The API has no queue, no scheduler and no in-memory state that matters. What is
hard about it is several HTTP requests running at once, each of them one READ
COMMITTED transaction of several statements, and clients that lose answers and
try again. That is what is modelled here, statement by statement, with the row
locks each statement takes.

## 1. Inventory

Paths are under `src/apps/api/src` unless they start with `web/`.

| component | state | operations that change it | what makes it correct |
|---|---|---|---|
| Payments (`payments/`) | payments, policies, NCD codes redeemed | `pay` | a request is sold once, from an offer that stands, with a discount spent once; a retry gets its receipt |
| Account closure (`customer/account.*`) | customers | `close` | no account closes with cover in force |
| Quote requests (`customer/quote-requests.*`) | requests, recipients, photos | `submit`, `requote` | sent to active insurers only, sent again once |
| Renewal (`customer/policies.*`) | requests | `renew` | one open renewal of a policy |
| Insurer portal (`insurer-portal/`) | quotes, deliveries, policies, claims, NCD applications | `submitQuote`, `extendQuote`, `issueCertificate`, `acknowledgeClaim`, `decideNcdApplication` | one quote per delivery, one certificate per policy, one code per application |
| Insurers (`insurers/`) | insurers, their audit rows | `create`, `update`, `setStatus`, `remove`, `restore` | the audit log is the history of the status |
| Documents (`documents/`, `storage/`) | documents, stored objects | `upload`; attached by the calls above and `claims.notify` | a document is evidence of one thing; its bytes exist |
| Claims (`customer/claims.*`) | claims, attachments | `notify` | as documents; never blocked by a wrong policy number |
| No-claim discounts (`customer/ncd.*`) | applications, codes | `apply` | a code discounts one policy of its customer and insurer |
| Idempotency (`common/idempotency/`) | idempotency records | `execute` around `submit` and `notify` | a key runs its work once |
| Web submissions (`web/src/api/idempotency.js`, `features/quote-journey`) | the saved command, in sessionStorage | `submitWithRetry` | one request per attempt to submit |
| Web identity (`web/src/app/IdentitySessionBoundary.jsx`) | the user a tab is bound to | boot, adopt, transition, message from another tab | no tab shows another user's records |
| Web insurer portal (`features/insurer-portal`, `web/src/api/sync.js`), mock API, pages | lists of claims, applications, quotes | change, then reload | a list shows what was just done |
| Photo hand-off (`web/tools/capture-relay.js`, `PhoneHandoff.jsx`, `CapturePage.jsx`) | sessions at the relay, a dialog, a phone | open, scan, photo, complete, poll, stream | a hand-off that ends is whole; what was removed stays removed |
| Sign-in limit (`auth/sign-in-limit.plugin.ts`) | attempts, window and lock per key | admission, success, sweep | ten admissions per window, no lock ends early |
| API rate limit (`common/rate-limit/`) | count and last request per address | admission, pruning | the limit per window; refusals are earned |
| Authentication (`auth/`) | users, sessions (Better Auth) | registration, sign-in, linking | a library, configured |
| PIA rate (`pia/`) | the rate and its history | `set` | the history says how the rate came about |
| Money, cover period, premium floor (`common/money.ts`, `customer/domain/`, `insurer-portal/domain/`) | none | | dates exist and do not go back; rounding and floors are fair |
| Inspections (`inspections/`) | photo inspections | `update` | a customer's own record |
| Vehicles, administration | | reads | |
| Audit (`common/audit/`) | audit log, state history | written by all of the above | rows say what happened |
| Database access (`db/`) | pool, transactions | | every transaction ends |
| Migrations (`db/migrator.ts`) | the schema | `migrate` | all or nothing, from a known state |

How they interact. Components call each other inside one transaction: the
portal and the customer services call `DocumentsService.assertAttachable` and
`AuditService` with their transaction, the controller runs `submit` and `notify`
inside `IdempotencyService.execute`. Across transactions they meet only in rows:
a payment and a closure in the customer row, two payments in the request row or
in an NCD code, a distribution and an administrator in the insurer row, any two
attaches in the document row, an application and a deactivation in the insurer
row, two deployments in an advisory lock. The browser and the API meet in
idempotency keys and in the session cookie all tabs share; tabs in a broadcast
channel; a laptop and a phone at the relay.

What is hard, in that order: interleaved statements of transactions that do not
lock what they read; foreign keys that lock rows nobody mentions; instants taken
before a wait and used after it; retries of calls that did commit, or have not
ended; an object store outside the transaction; browser code that awaits between
reading and writing its saved state; answers, notifications and frames that
arrive after what they were asked for is gone. `PROJECT.json` lists each hazard at its
line, with the property that covers it or the reason why none does yet.

## 2. Modules

| module | models | state and actions |
|---|---|---|
| `RowLocks` | PostgreSQL's row locks | operators only: the four modes, their conflict table, what may be granted, what a commit drops |
| `Sale` | the promise of payments | sold, closed and spent; `Sell` and `Close` are one step each |
| `Payments` | `PaymentsService.pay`, `AccountService.close`, `extendQuote`, the activation of a policy | one action per statement: `Replay`, `FindQuote`, `Stamp` before the transaction, `LockCustomer`, `LockRequest`, `InsertPayment`, `InsertPolicy`, `Redeem`, `Commit` in it, `ReplayWinner` after a lost race; `LockForClosure`, `CheckPolicies`, `EndClosure`; `StartExtension`, `ExtendOpenQuote`; `IssueCertificate`; `Tick` |
| `Market` | the promise of quote requests | who accepts requests and until when, who got which, what was sent again, who answered; `Submit`, `SendAgain`, `Answer`, `Admit` are one step each |
| `QuoteRequests` | `submit`, `requote`, `renew` and `distribute`; `submitQuote`; an insurer's `create`, `update`, `setStatus`, `remove`, `restore` | the checks and locks of each (`LockOriginal`, `CheckLinks`, `LockPolicy`, `CheckRenewals`, `FindEligible`, `ShareEligible`, `InsertInsurer`, `ChangeInsurer`, ...), licences that end, the foreign keys they take, history and audit rows |
| `Evidence` | the promise of attaching | `Attach` and `Carry` in one step |
| `Documents` | `upload`; the attaches of `submit`, `notify`, `submitQuote`, `issueCertificate`, `requote` | `PutObject`, `InsertDocument`; parent locks and checks, `LockDocument` in the order of ids (`inOrder`; a row that appears behind the last one locked is not among them), `CheckDocuments` (`referencedIds` included), `Insert`, `KeyShots`, `Commit`; `kept`, the documents a request has, of its own or carried on by a requote |
| `InsurerDesk` | `acknowledgeClaim`, `decideNcdApplication`, `ncd.apply`, `pia.set` and a deactivation; the portal's claims and NCD lists | `Receive`, `LockApplication`, `DrawCode` in its savepoint, `Decide`, `ShareInsurer`, `LockRate`, ... on the server; `Send`, `Answer`, `ServeLoad`, `ApplyLoad`, `LeaveTab` in the portal |
| `Submission` | `submitWithRetry` and the two pages around it, of quote requests and of claims; `IdempotencyService.execute` | `Edit`, `Complete`, `Prepare`, `Send`, `Resend`, `Receive` (`ReceiveQuote`, `ReceiveClaim`, `ReceiveError`), `Show`, `Reload`, `Leave` in the browser; `Insert`, `Lookup`, `Work`, `Commit`, `Fail` on the server |
| `IdentitySession` | the tabs of one browser, their bound user, the shared cookie; `AuthGuard`, the identity precondition, `me` | `SignIn`, `Register`, `SignOut`, `Begin` of other work; `Reload`, `Freeze`, `Restore`; `Serve*` at the server; `Receive*`, `Deliver`, `Unload` in a tab; `Expire`, `Lose` |
| `AttemptLimits` | the counters of sign-ins and of the API's limiter | `SignIn`, `Admit`, `CleanUp`, `Check`, `Reset`; `Arrive`, `Guard`, `Prune`; `Tick` |
| `SchemaUpgrade` | the promise of a deployment | the version goes to a release's last, in one step |
| `Migrator` | `migrateDatabase` | `Begin` (the advisory lock), `Decide` from three facts, `Adopt`, `NextMigration`, `Statement`, `Record`, `FinalCheck`, `Commit`, `Lose`; the application's `AppBegin`, `AppCommit` |
| `PhotoHandoff` | the relay, the dialog on the laptop, the capture page on the phone | `Opens`, `Created`, `CloseByHand`, `Connect`, `OnPhotos`, `OnComplete`, `Tick`, `GetAnswered`, ... ; `Scan`, `TakePhoto`, `StorePhoto`, `Saved`, `Finished`, `TryAgain`, `Continue`; `Age`, `Restart` |
| `CoverTerm` | `addQuarters`, `coverPeriod`, `rtsaAnniversaryStart`, `divideRoundHalfUp`, `premiumFloorMinor` | operators only, on dates as year, month, day and time of day |
| `PaymentsProofs` (of `CoverTerm` too), `QuoteRequestsProofs`, `SubmissionProofs`, `DocumentsProofs` (of `PhotoHandoff` too), `InsurerDeskProofs`, `MigratorProofs`, `IdentitySessionProofs`, `AttemptLimitsProofs` | | the theorems of section 5 |
| `MC*` | | the instances TLC checks |

Conventions. A row is named by the call that wrote it. A statement sees what is
committed and what its own transaction wrote, so a model keeps the rows a
transaction wrote apart from `committed`, or writes them in its commit when no
other statement could tell. A lock is a record of transaction, row and mode in
`locks`; an action that needs a lock is disabled while another holds a
conflicting one, which is the wait. `Fail` is every way a statement may end
badly: a timeout, a lost connection, an aborted deadlock. A lost answer of the
API is a retry with the same body, one more call with the same ask. A crash of
the API process is `Fail` of its calls, since it keeps nothing. In the browser
an action is one event of a document, between two awaits.

Names are the code's where TLA+ allows it. Amounts are small numbers, documents
and people model values. The method of payment goes with the amount. Reads that
change nothing and answers that only format are left out.

Each module has mutants of some definitions beside them, marked as such: the
same code with one lock, check or order changed. They are used by no action;
with one of them in place of the original a property fails, which shows that the
property depends on that line of the code.

## 3. Runs

Two or three calls at once are enough for the races the code guards against:
each is a pair of calls that both pass a check, and the third is a retry, a rival
on other rows, or the call whose rows the pair needs. All bounds are CONSTANTs
of a `.cfg` or sets of an `MC` module.

| run | instance | shows |
|---|---|---|
| `payments` | 2 attempts: one body, and 9 others for the second (a retry, a rival quote, a wrong and a too high amount, the same code or key for another request); a closure repeated without bound; extensions; the certificate; clock to 2 | typing; one sale per request, code and key and no closed account with cover (`SaleSafe`); retries never refused and given their receipt (`RetriesAgree`); bought while on offer; the implementation of `Sale`; every call answered |
| `quotes` | four workloads: a request sent again while 3 replies of 2 insurers come in; 3 renewals and requotes of one policy over its deadline, with a stranger; a request distributed during changes of 2 insurers' statuses; one distributed while an insurer is created, twice under one name, and licences end or are renewed | typing; rivals refused by name and one open renewal (`RivalsSettled`); no circle of waits; audit rows chain; the implementation of `Market` |
| `quoted_twice` (violation) | 1 request, 3 replies | two "first" quotes |
| `submissions` | 1 tab with a quote journey or a claim, 3 sends, 2 contents, 2 edits, photos taken again once | one request per key and per saved form (but for what `away` marks, section 4), retries not mistaken (`SubmittedOnce`); results of the form that was sent |
| `submitted_twice` (violation) | 1 tab, 2 sends | one attempt, two requests |
| `documents` | 3 calls of one of three families (customers' submissions and claims; requests sent again; insurers' quotations and certificates), 9 documents; one, whose id is between others', still uploading | typing (bytes before row, row before attach); no circle of waits; the implementation of `Evidence` |
| `desk` | 3 calls of one of four kinds of work, at most 2 of portal clerks; 3 codes of which one is issued, 2 draws; 1 failure or lost answer | typing; a code for an approval and for no other (`OneCodePerApproval`); repeats answer what the first recorded; histories chain; a clerk who waits sees the change; no application to an inactive insurer |
| `identity` | 2 tabs, a customer, a newcomer and a member of staff; 2 things users start, 1 reload, restored page, lost answer or expired session | typing; one person per tab; nothing for one person under another's session; tabs come to rest |
| `guest_sign_in` (violation) | 1 tab | a guest's own sign-in resets the tab |
| `limits` | 2 callers, 6 sign-ins or 6 API calls; limit 2, window and lock 4, late by 1, clock to 8 | typing; no lock ends early; guesses and served calls bounded; a refusal only after a run of more than the limit |
| `migrations` | 2 processes of a release with 3 migrations of 2 statements, one with 2, each run twice; 13 databases, accepted and not | typing (one transaction at a time); always deployable and never taken back; no row escapes a conversion; the implementation of `SchemaUpgrade`; every run ends |
| `handoff` | 2 shots, 1 phone, 1 poll at a time, 2 dialogs, 2 photos taken, 1 edit, 1 loss, restart, expiry or reload | typing; a finished hand-off is whole; removed photos stay removed; the dialog catches up |

Bounds in the modules' guards: `MaxTime` (clock and extensions) in `Payments`,
`QuoteRequests` and `AttemptLimits`, `MaxAttempt` (edits of a tab) and
`MaxPhotos` (photos taken again) in `Submission`, `MaxActs` and `MaxMishaps` in `IdentitySession`, `MaxMishaps` in
`InsurerDesk`, `MaxRuns` in `Migrator`, `MaxDialogs`, `MaxTakes`, `MaxEdits` and
`MaxMishaps` in `PhotoHandoff`. A clock of one step more than a validity is
before, at and after a deadline; `limits` runs for two windows. Two tabs are one
that acts and one that follows. Two shots are a last photo, which ends the
hand-off, and one before it. One mishap at every point of a protocol finds what
depends on each message; two would find what depends on a repair failing too,
and do not fit five minutes. Deadlock checking is off because every system here
may be done with all its calls; that nobody waits in a circle is `NoDeadlock`,
and that calls, runs, reactions and dialogs go on is what the liveness
properties say.

The families of `documents` are `Orderly`: they leave out three ways to wait in
a circle, each of which TLC finds when a family has it, and PostgreSQL ends by
aborting a call. Two submissions name each other's photo as their White Book, an
id of the wrong kind, locked before its kind is looked at. An insurer's user
names a customer's unattached claim document as a certificate: the claim locks
the document and then keys the policy, the certificate the other way round. And
a request of several photos is sent again beside a call that names them
(section 4). Section 5 proves that there is no fourth.

`ReloadShowsChange` is about a clerk who waits for each reload; section 4 says
what another one sees.

Fairness.

- `Payments`: weak fairness of each attempt's next statement or failure, and of
  the steps of a closure that has started. The server runs a statement it has
  received; one that waits is ended by `lock_timeout` 5 s, `statement_timeout`
  10 s or the client's `query_timeout` 15 s, which `createPool` sets
  (`db/database.module.ts:47-67`). Nothing obliges anyone to call, so there is
  no fairness of `Call`, `LockForClosure`, `Tick` or extensions. Without the
  timeout, closures that come one after another may keep a payment waiting for
  ever, and the property fails.
- `Migrator`: weak fairness of each run's next step. A run that waits for the
  advisory lock waits without a bound (`lock_timeout` is set after it), so it
  depends on the holder, whose statements do have one. The application need not
  end its transaction.
- `IdentitySession`: requests are served or lost, answers and notifications
  arrive, a document that is leaving unloads. Users and the browser start
  nothing they must.
- `PhotoHandoff`: weak fairness of each dialog's poll, a timer of the browser
  whose request is answered unless the loss is one of the counted mishaps. The
  event stream and the phone promise nothing.

## 4. Disagreements found

With a run:

1. `quoted_twice`: two insurers that answer at once both record SUBMITTED to
   QUOTED as the first quote, since `lockDelivery` reads the request's status
   without locking the request.
2. `submitted_twice`: a customer who leaves the page during the uploads and
   comes back sends one attempt twice. So does one whose reload drops the photos
   of a journey, or who leaves the claims page while the answer is out; and,
   without another page of the tab, one who reloads the claims page after the
   answer: `submitWithRetry` has removed the saved command
   (`idempotency.js:53`), the page awaits `hydrateCustomer()`
   (`ClaimsPage.jsx:292`), and only then is the form cleared and the result
   shown. A reload in that wait leaves a claim that is recorded and was shown to
   nobody; entered again it gets a new key and makes a second.
   `OneRequestIfSaved` is what does hold: `away` leaves out a journey whose page
   is left while it uploads, a claim whose page is left at all, and a claim whose
   page is reloaded in that wait.
3. `guest_sign_in`: the plan of the identity work says that a guest's journey
   survives the guest's own sign-in. The page asks `me` before the tab is bound,
   with the header of a guest beside the new cookie, is answered
   IDENTITY_CHANGED and forgets the journey.

Met while modelling, on paths the runs leave out or that no modelled decision
reads:

- *Attaching in a circle.* `lockForAttach` says "Locks in id order … cannot
  deadlock" (`documents.repository.ts:49`, tested in
  `documents-access.e2e-spec.ts:396`). A requote takes foreign keys on its
  photos, which are FOR KEY SHARE locks, in the order of the shots
  (`quote-requests.repository.ts:228`), and may wait in a circle with a
  submission that names the same photos. `NoDeadlock` fails when the two are
  given one family of `documents`; PostgreSQL aborts one of the calls.
- *The deadline itself.* `extendQuote` takes `validUntil >= now`, a payment
  refuses `validUntil <= now`: a quote at its deadline is expired for one and
  revived by the other.
- *Renewals have no end.* `renew` distributes a request with the policy's end as
  its start, "New cover picks up where the expiring policy leaves off"
  (`policies.service.ts:60-79`), but with no end and no days; a payment copies
  both to the policy (`payments.service.ts:133-134`) and nothing sets the end
  later, where the comment on `coverPeriod` says that it is always derived on the
  server. `customer.e2e-spec.ts:1153` expects the missing end. A renewed policy
  is therefore never due for renewal. A lapsed renewal that is sent again gets an
  end, but loses its `renewalOfPolicyNumber`.
- *Overtaken reloads.* `sync.js:23` applies results as they arrive: with two
  changes at once the older list may come last and stay.
- *Photos of another vehicle.* "Change vehicle details" and `requoteFromRequest`
  (`store/slices/journey.js:148-166`) keep the photos of the journey;
  `domain/inspection.js:86` says that a photo "can only be used for the request
  it was taken for".
- *A poll of an earlier dialog.* `PhoneHandoff` ends its timers when it closes but
  not a read under way, whose completion closes whatever dialog is open then.
  `HandoffWhole` and `RemovedStaysRemoved` hold nevertheless.
- *The phone's draft.* "Continue quote" on the phone takes the White Book along,
  not the photos the laptop already had.
- *Two calendars.* The browser shows an end of cover of start + 91, 182, 273 or
  365 days (`premiumEngine.js`, `insurers.js:29-32`), the server reckons calendar
  quarters; `CoverageDays` gives what they may be. The browser says a request is
  open for 14 days, the server for 7 (`cover-period.ts:6`). That a cover aligned
  to the RTSA anniversary has already ended is checked in the form only.
- *Guides.* The server distributes a request to every eligible insurer when it is
  submitted. The comparison page then offers a choice of guides for it
  (`store/shared.js:26`) and says that the request goes only to the insurers
  chosen; `requestQuotesFromGuides` (`store/slices/journey.js:110`) changes only
  the tab's copy, which the next reload overwrites.
- *Renewing in the browser.* `RenewalPage.renew` opens the renewal and goes to the
  quote form, which shows whatever journey the tab had left and submits it as a
  new request: the body names neither the policy nor the request. When a policy
  may be renewed is shown to the customer, not checked by `renew`.
- *Paying again.* The HTTP client draws a new key for each press of Pay. After a
  lost answer the second press is refused as already paid, where the same key
  would have been given the receipt. Nobody is charged twice.
- *Photos that look alike.* The fingerprint of a photo is its first 64 characters
  and its length (`submitRequest.js`): two photos that agree in both are one to
  `submitWithRetry`.
- *A steady caller.* The rate limiter moves `lastRequest` at every call, refused
  ones too (`api-rate-limit.guard.ts:85-90`), so its window never ends for who
  calls more often than once a window. An address well below the rate is refused
  after `limit` such calls, and stays so until it pauses for a whole window.
  `RefusalsEarned` says what does hold: the calls behind a refusal came less than
  a window apart, not all in one window.
- *Two first rates.* Where no rate was seeded `lockCurrent` finds no row to lock
  (`pia.service.ts:30`): two administrators who set the first one at once both
  record that there was none before. `HistoriesAreChains` asks for an unbroken
  chain wherever the rate was there before the history began, as after
  `seedReferenceData`; otherwise it lets an entry name none, and nothing else.
- *A reload in between.* A list of requests asked for before a submission and
  answered after it drops the new request from the page until the next one.

## 5. Proofs

Each is for every value of the constants that satisfies the module's
assumptions.

### Payments

| theorem | property |
|---|---|
| `Typing` | `TypeOK` |
| `SoldOnce`, `ClosureSafe`, `CodeSpentOnce`; together `SaleSafety` | `SaleSafe` |
| `RetrySafe`, `KeyStandsForOnePayment`; together `RetryAgreement` | `RetriesAgree` |
| `OfferHeld` | `BoughtWhileOnOffer` |
| `Refinement` | `ImplementsSale` |

None of these is inductive: a payment about to commit says nothing
of what another has read. `IInv` adds, in this order, which locks each program
counter holds (`LocksHeld`) and that no two conflicting ones are held
(`LocksExclude`). From these, `Exclusion`: two payments of one request are never
both past its lock, and a payment past the account's lock excludes the closure.
Hence what was found under a lock is still true when it is acted on
(`StillUnpaid`, `StillOpen`, `StillClear`), what is redeemed is redeemed by the
sale that uses it (`CodesSpent`), and the offer still stands, since extensions
only move deadlines forward and the confirmed instant was compared with the
deadline as read (`OfferStands`). `Answers` says why each refusal was given:
"already paid" means that another key bought the request, which is why a retry
of the buyer's own key cannot get it. Each conjunct has a lemma with one step
per action; `Next` of `Sale` follows from `IInv` at `Commit` and at the end of a
closure, and every other step leaves the mapped state alone.

### Quote requests

| theorem | property |
|---|---|
| `Typing` | `TypeOK` |
| `Settling` | `RivalsSettled` |
| `Auditing` | `AuditFollowsStatus` |
| `NeverStuck` | `NoDeadlock` |
| `Refinement` | `ImplementsMarket` |

`IInv` says of every call, reply and change of an insurer what its program
counter implies (`CallStep`, `ReplyStep`, `ChangeStep`), which locks it holds
(`CallLocks`, `ReplyLocks`, `ChangeLocks`; `LocksOnly`: it holds no others) and
what it read under them and is therefore still so (`Checked`, `FirstReply`,
`SeenStays`). `OneCreating` keeps two creations under one name apart, and
`Stamped` orders the times that were read. For `NoDeadlock` every
statement that waits is given a rank: whoever holds the row it needs stands at a
statement of a higher one, so a circle would have to climb for ever. The order
of the ranks is the order in which the code takes its locks.

### Submissions

| theorem | property |
|---|---|
| `Typing` | `TypeOK` |
| `Submitting` | `SubmittedOnce` |
| `Showing` | `ResultIsOfThisJourney` |

That one filled form is sent under one key holds because of what the tab saved,
so `IInv` follows a form from the page to the server: a visit was entered with
what the tab held or an earlier one (`Visiting`), a command is the one that the visit of
its key prepared (`AllKnown`) and is only sent for the form it was made from
(`FormKept`). `Saving` is the heart: as long as the page was not left, a visit
that prepares is the first of what the form holds (`FirstOfEntry`), and the
command of what was already sent is still saved (`StillSaved`), which is what
`submitWithRetry` finds and sends again; or it is a claim that was answered, and
the page that waits for its lists will empty the form (`Watched` says that the
page does wait, unless `away` is set).
`Submitting` is therefore as strong as `SubmittedOnce` and no stronger: it leaves
out what `away` marks. `Serving` is the idempotency record on the
server: what was made is what is recorded, under the key and hash it was sent
with.

### Documents

| theorem | property |
|---|---|
| `Typing` | `TypeOK` |
| `Refinement` | `ImplementsEvidence` |
| `Orderliness` | `Orderly => NoDeadlock` |

`ImplementsEvidence` is the argument of `Exclusion` over document rows.
`DocumentLocks` says that whoever attaches locks its documents for update,
`Attachable` that what was then found proper and unattached still is when the
call commits, `OnlyChild` the same of the quote or policy a quotation or certificate is
for, `Original` and `Committed` that what a requote copies is there, and
`WhiteBookChecked` that the White Book was looked at. A requote locks no
document: what it carries on (`kept`) is evidence of a committed request of the
same customer.

`NoDeadlock` does not hold for every ask, so the theorem is `Orderly =>
NoDeadlock`: no White Book is also named as a document, insurers' documents are
not customers', and where requests are sent again, who names a photo of another
call's request names that photo alone (section 3 has a circle for each part left
out). `LInv` adds to `IInv` that a call holds nothing but its parent, documents,
White Book and policy, each from the statement that takes it (`Held`), and that
what is sent again was given to a committed request (`KeptFrom`), hence is
refused to whoever still asks for it. A call that waits has a `rank`, by the row
it waits for: a parent, documents before a policy, a policy, a White Book or
documents after a parent, photos sent again. Whoever holds that row has a
higher rank (`Ahead`), with one exception: two submissions or claims that both
wait for documents. There the holder waits for a document with a higher id, so
of a circle the call that waits for the highest id (`Bounded`, `Largest`) would
wait for nobody.

The proof needs that the statement which locks documents never goes back. An
earlier form of the model looked for rows again after each wait, and then a
document uploaded meanwhile, with an id lower than those locked, closed a circle
that PostgreSQL does not have: the statement reads its rows once, in order
(`inOrder`, `unlocked`).

### Photo hand-off

| theorem | property |
|---|---|
| `HandoffTyping` | `HandoffTypeOK` |
| `WholeHandoffs` | `HandoffWhole` |
| `NothingPutBack` | `RemovedStaysRemoved` |

`HandoffWhole` says what a finished dialog has received and what a phone shows;
neither follows from itself, since both act on answers that are old by then.
`HandoffInv` therefore speaks of every place a completion may be. `Complete`: a
session that is complete has every photo its dialog asks for, and keeps them
(`Onward`: photos stay, a completion is not taken back, what a linked dialog asks
for is settled). `Told`: a completion in the frames of a stream is true.
`Answered`: so is one in an answer to a poll, and the last read, asked because
of a completion, comes back whole. `Handed` is then what the dialog did with
them. Of a phone, `Knows` says that what an answer showed it is in the session,
and that it only finishes, sends or restores when that has every photo; `Shown`
that its page agrees. `Unlinked` keeps a dialog without a link out of all this: nobody
knows its session, so closing it early harms nothing. `Age` and `Restart` end
sessions and streams but move no photo into one.

`RemovedStaysRemoved` needs only the types: whatever answer comes, `absorb`
writes to the form what the dialog has not received before.

### Insurer's desk

| theorem | property |
|---|---|
| `Typing` | `TypeOK` |
| `OneCode` | `OneCodePerApproval` |
| `RepeatsAnswerFirst` | `RepeatAnswersFirst` |
| `HistoriesChain` | `HistoriesAreChains` |
| `ReloadsShow` | `ReloadShowsChange` |
| `AppliesWhileActive` | `AppliedWhileActive` |

`IInv` has a part for each side. On the server (`Server`): the locks each
statement stands under (`LocksHeld`, `LocksExclude`), what was read under them
and is still so (`StillTrue`), the code inserted for an application under
decision (`Drawn`; `DrawnApart`: two decisions under way never hold the same), one
call that makes a given application (`AppliedOnce`), that a claim is notified or
received and the rate is the last of its history (`ClaimsMove`, `RateIsLast`), that
who found no rate makes the first entry of the history or finds one made by
another who found none (`FirstRate`), and that each code issued here is carried by
one application, which is approved (`Carried`). In the portal (`Portal`): a clerk who waits has one change under way at
a time (`Waiting`), and a list on its way to the store is as new as every change
that is over (`Fresh`).

### Migrations

| theorem | property |
|---|---|
| `Typing` | `TypeOK` |
| `StaysRecoverable` | `Recoverable` |
| `NoRowEscapes` | `NoBreakingRowConverted` |
| `Upgrading` | `ImplementsUpgrade` |

The run that holds the advisory lock works on a copy, and what it read is what
is committed until it commits itself (`ReadsHold`); how far the copy is follows
from the program counter (`Progress`). `RowsConverted` says that once the
conversion is written, committed or not, no row breaks it and no transaction of
the application is open on the table, since the run holds its lock; `DoneIsApplied` that a run that ended well
left its release's migrations in place; `NeverStranded` that the database is one
some release accepts. The newest release exists by assumption
(`MigratorAssumption`): without it nobody can go on from a database of a later one.

### Identity of a tab

| theorem | property |
|---|---|
| `Typing` | `TypeOK` |
| `OnePerson` | `OnePersonPerTab` |
| `OwnSession` | `NothingUnderAnother` |

For any number of tabs. `TabOK` speaks of one tab's values and what is accepted
at the server, so each event has one lemma about its own tab and a frame lemma
for the rest (`Elsewhere`). It says that the page shows what is kept for the
person bound (`Shows`, `Keeps`), that a request in flight carries the person it
was sent for, that `boot` runs alone and other work for the person who was
bound when it began (`Boots`, `Changes`, `Works`), and that a document that is
leaving has already emptied the tab's storage, which is why an answer that
arrives late finds nothing to write to. That the cookie may change between
sending and serving does no harm because the server compares it with the person
in the header. There is at least one session (`IdentityAssumption`).

### Attempt limits

| theorem | property |
|---|---|
| `Typing` | `TypeOK` |
| `LocksHold` | `LockHolds` |
| `LimitsHold` | `AttemptsBounded` |
| `RefusalsAreEarned` | `RefusalsEarned` |

`LockHolds`: no sign-in lock ends early. The property speaks of
the clock and each statement of the time it was given, so the invariant is
`ClockRead`: that time has come. A lock a late statement finds over is then
over; `Counting` says what one upsert does to a row, and the sweep and the reset
delete a row only when its lock, if any, has passed. `SIGN_IN_LOCK >=
SIGN_IN_WINDOW`, which `LimitsAssumption` takes from the two constants of the
code, is why a sweep of old windows drops no lock.

The bounds speak of the times of past guesses and served calls. `Served` says
that since a bucket's window began at most as many calls were served as it
counts; `Guessed` that the guesses of the window are counted and that fewer than
the limit came in the one before, because a full one is locked. `Waits` bounds how
late a statement under way may be. A stretch then meets at most two windows, and
its guesses, as indices of the history, are spread over fewer remainders than
the bound (`FS_Injection`), so no induction over the history is needed. The
assumption `SIGN_IN_ADMISSIONS >= 2` (10 in the code) is needed: with a limit of one,
the first guess of a window would fill it without locking.

`RefusalsEarned` speaks of every call that was counted, in order (`counts`), and
not of the row, which late statements and prunings change. `Running` connects
the two: the row's count is the number of last calls that came less than a window
apart, its `lastRequest` the time of the last one.

### Cover periods and money

`CoverTerm` has no state; its theorems, at the end of `PaymentsProofs`, are
arithmetic.

| theorem | says |
|---|---|
| `WholeQuarters`, `EndsAfterItStarts` | the end of a cover is an existing date, whole quarters after the start, on the start's day or the last of a shorter month |
| `LaterStartLaterEnd` | cover that starts on a later day does not end on an earlier one (by day: two starts clamped to one last day keep their times) |
| `YearOfCover`, `AnniversaryExists` | a year ends on the start's day but for 29 February; an RTSA anniversary is a date of the current year |
| `CoverageDays` | a term has 89 to 92, 181 to 184, 273 to 276, 365 or 366 days |
| `Rounding` | at most half a unit off, half a unit away from zero |
| `FloorGrows`, `FloorWithinValue`, `FourQuarters` | the premium floor grows with value, rate and term, is never over the value, and four quarterly floors are within two ngwee of the annual one |

Days are counted by `dayNumber`, which counts leap years in closed form, so no
theorem needs induction.

### Only model-checked

- `NoDeadlock` of `Documents` for calls that are not `Orderly`: it is false.
- Liveness under fairness, which the prover does not reach: `EveryCallAnswered`,
  `EveryRunEnds`, `ReactionsEnd`, `PhotosArrive`.
- The violations, which are counterexamples.

No module declares a RECURSIVE operator, and no theorem is by induction over
data.

## 6. Not modelled

- Better Auth (sessions, passwords, cookies, the internals of registration), the
  object store's own failures beyond a failed put, and the HTTP layer are
  external; what `src/` relies on is in the actions that use them.
- Validation of bodies happens before any state is read; the sets of asks hold
  bodies that pass it. The conversions of `money.ts` between decimal text and
  minor units are not modelled; amounts are numbers.
- Inspections: a customer's own photo record, written by its one owner in one
  statement.
- Of an insurer's profile everything but name, status and licence: no decision
  reads it.
- Read-only components (vehicles, administration, lists), email, logging,
  reports, and presentation: most of the browser's code is pages and components
  whose state is a view of one tab. The mock mode of the browser is a
  demonstration double of the server.
- Of the photo hand-off: the address the relay advertises, how a photo is judged,
  requests still under way across a reload of the laptop, sessions nobody
  scanned. Of the migrations: SQL and catalogs, abstracted to how far they are.

## 7. What is left

Every safety property a run checks is a theorem, with the condition of section 5
in one case. What would add most:

1. A fixed order for the foreign keys of a request sent again. With it in the
   code, the last part of `Orderly` could go.
2. Inspections, and the conversions of `money.ts`, as operators beside
   `CoverTerm`.
3. The browser's lists that are reloaded, as a module of their own: `sync.js`
   with two changes at once, which `InsurerDesk` has for one clerk.
