# TLA+ models of the Movary backend

The Movary backend (`app/`, FastAPI over async SQLAlchemy, PostgreSQL and
Redis) sells subscriptions to a media service.  Users put money in through an
EPay gateway or spend a balance, orders grant or extend subscriptions,
subscriptions give accounts on Emby servers and a quota of video-on-demand
requests, and admins can override almost all of it.  This directory holds TLA+
models of that program, TLC configurations that check them on small instances,
and proofs, checked by TLAPS, of what matters most for every instance.

1. [Inventory](#1-inventory): the parts of the system, what is hard about them
2. [Plan](#2-plan): the modules, in the order they are written
3. [The modules](#3-the-modules): state and actions against the code
4. [The runs](#4-the-runs): what each shows, bounds, fairness
5. [What disagrees with the code's own words](#5-findings)
6. [Proofs](#6-proofs)
7. [What is left out](#7-limits)

Tools: `tlc -workers 2 -config <run>.cfg <Module>` for a run of `PROJECT.json`,
`tlapm <Module>.tla` for the proofs of `BillingProofs`, `PaymentSessionsProofs`,
`VodProofs`, `TmdbCacheProofs`, `SystemTasksProofs`, `AccountsProofs`,
`BindingsProofs` and `AccessProofs`.

## 1. Inventory

How steps happen.  Every request handler gets a database session of its own
(`db/session.py`), reads rows, awaits, assigns columns, and commits once, at
the end, in nearly every case.  An exception before the commit discards the
whole transaction, so an error path is, for the rows, a step that does not
happen.  PostgreSQL runs READ COMMITTED; only `adjust_balance` takes a row lock
when it reads.  Calls to the gateway and to Emby servers are made inside the
transaction and are not undone with it.  Background jobs (`services/system_tasks.py`)
run in the same process as the handlers and use the same services.

| Component | State | Operations | Talks to |
| --- | --- | --- | --- |
| Orders and payment (`routes/orders.py`, `routes/payments.py`, `services/payments.py`, `services/order_runtime.py`) | `orders`, `payment_transactions`, `balance_transactions`, `users.balance` | create, create recharge, pay by link or balance, close, cancel, time out, notify, return, `handle_paid_order` | gateway, purchase preview, chains, entitlements, Telegram |
| Purchase preview (`services/plan_purchase.py`) | none, reads subscriptions and orders | `build_purchase_preview`: direct, renew, upgrade, replace trial or blocked; credit for unused time | orders |
| Order chains (`services/order_chains.py`) | `order_value_links`, `orders.parent/root/chain/superseded_by/settlement_status` | assign a new order to a chain, link and consume on fulfilment, follow the links on refund | orders, refunds |
| Refunds (`services/refunds.py`, `routes/admin_orders.py`) | `orders.refund_status`, refund part of `pay_payload` | request, reject, refund to the balance, approve at the gateway, query the gateway, roll the subscription back, settle the sources | gateway, chains, subscriptions |
| Gateway client (`services/epay.py`) | none here; trades and refunds at the gateway | pay URL, close, refund, refund query; callbacks come back | payment routes |
| Order administration (`routes/admin_orders.py`) | `orders`, `order_value_links` | set a status, delete with detachment of the chain, cleanup of closed orders | payments |
| Subscriptions (`services/subscriptions.py`) | `subscriptions`, VOD limits in `users` | expire, clean up after the retention time, delete, recompute the entitlements | Emby accounts, Telegram |
| Plan administration (`routes/admin_plans.py`) | `plans`, `plan_billing_cycles`, groups, server assignments | create, update with cycle replacement, delete | orders, subscriptions |
| Entitlements and Emby accounts (`services/emby_accounts.py`, `routes/emby.py`, parts of `routes/admin_users.py`) | `emby_accounts`, accounts on the servers | create, enable, disable, delete, change password | Emby servers |
| VOD requests (`routes/vod.py`, `routes/admin_vod.py`) | `vod_requests`, `users.vod_*_used`, `vod_*_limit` | create within the quota, approve through MoviePilot, reject (which leaves the quota spent), delete (which gives it back), status sync | MoviePilot, subscriptions, TMDB |
| System tasks (`services/system_tasks.py`) | `system_tasks`, `system_task_logs` | schedule, run, record | subscriptions, VOD, caches |
| User administration (`routes/admin_users.py`, `routes/users.py`) | `users`, `subscriptions` | adjust or set the balance, assign and extend subscriptions, ban, delete | entitlements, Emby |
| Telegram (`services/telegram.py`, `routes/telegram.py`) | bindings, preferences, notifications, a rate limiter in Redis | bind, unbind, log in, notify | all of the above |
| Registration and login (`routes/auth.py`, `services/email.py`), invitations, social accounts | `users`, verification codes, one-time tokens, `invitations` | register, verify, reset, invite, accept | Redis, mail |
| License (`routes/admin_license.py`, `services/license_runtime.py`, `pro_artifacts.py`, `core/pro_extensions.py`) | `license-state.json`, `pro-artifacts.json`, the extension loaded into the process | activate, refresh, deactivate, roll back to the base edition, load the extension, let requests to it pass | license provider |
| Caches (`services/cache.py`, `services/tmdb.py`) | Redis, `tmdb_cache`, image files | two-level get and set under a lock per key, refresh and persistence jobs, reset | TMDB |
| Tickets, documents, dashboard, settings | their rows | plain create, read, update, delete | |

What is hard.

*Money that takes several paths.*  An upgrade is priced when it is created,
paid later, and what it consumed is settled when it is paid; a refund returns
what was paid and what was credited, and settles everything up the chain.
Between any two of these steps other orders of the same subscriptions are paid,
refunded, expire or are deleted.  Correct means: no sequence of legal calls
creates money or takes it away, and value that was consumed is not refunded on
its own.

*Time that several orders share.*  Renewals extend one row; a refund takes one
order's days out of it.  A term ends where the calendar says, a refund counts the
days that orders stored when they were created.  Correct means: a subscription
lasts about as long as the orders that still stand paid for, each of them worth
no less than a short term and no more than a long one.

*A graph with deletions.*  Value links and `superseded_by_order_id` are followed
over any number of upgrades; deletion of any order must leave no link behind,
and value must never flow in a circle.

*Callbacks.*  They come late, repeatedly, after the order timed out, and after
it was refunded.  Correct means: a captured payment is answered for, and a
finished refund stays finished.

*Rules in two places.*  A quota is a counter and a count, an entitlement is a row
and an account on a server, a schedule is a row and a job, a cached page is a
table and Redis, a license is two files and a loaded module.  Correct means:
they agree again after any mix of handlers, and after failures wherever the
code can see to it.

*Concurrency.*  Handlers await between what they read and what they write
(gateway calls, Emby calls, further queries), and nothing but the write itself
locks a row.  Two callbacks of one payment, a callback and a cancellation, two
operations on one balance can overlap.

*External effects before the commit.*  A refund call or an Emby account stays
when the transaction is discarded.

*Jobs.*  A task that dies leaves its row RUNNING; expiry and cleanup run beside
purchases of the same user.

`PROJECT.json` lists the hazards at the line where they bite, with the properties
that cover each.  Several are real and caught by no property, because the code
does go wrong there; they are listed without a property and with a note, and
section 5 says what happens.

## 2. Plan

| # | Module | What it is |
| --- | --- | --- |
| 1 | `BillingState`, `PurchasePreview`, `Billing`, `BillingProperties`, `MCBilling` | orders, chain, refunds, subscriptions and money of one user, handlers atomic |
| 2 | `BillingProofs` | for every instance: the value chain, the finality of refunds, the types; with handlers one at a time, the time that is paid for, the balance sheet, and consumed value |
| 3 | `Payments` (abstract), `PaymentSessions`, `MCPayments` | the handlers of orders one after the other, and split at their awaits over row locks and stale reads: duplicate callbacks, close against notify, balance read-modify-write |
| 4 | `PaymentSessionsProofs` | what survives every interleaving, and that harmless overlaps implement `Payments`, by inductive invariants over the sessions |
| 5 | `VodQuota` (abstract), `VodRequests`, `VodProofs`, `MCVod` | the quota check, consumption and return against approval, rejection, deletion and the sync job; implements the quota; its properties and the refinement for every instance |
| 6 | `TmdbCache`, `TmdbCacheProofs`, `MCTmdb` | readers under locks, two layers, jobs, reset; its safety properties for every number of readers and keys |
| 7 | `Entitlements`, `AccessProofs`, `MCEntitlements` | subscriptions and Emby accounts, remote calls before the commit; its safety properties for every number of plans, servers and faults |
| 8 | `SystemTasks`, `SystemTasksProofs`, `MCTasks` | scheduler, overlapping runs, crash while RUNNING, changes by admins; liveness of a task; its safety properties for every number of runs |
| 9 | `Accounts`, `AccountsProofs`, `MCAccounts` | registration, invitations, verification tokens, change of address, deletion; its properties for every number of handlers |
| 10 | `Bindings`, `BindingsProofs`, `MCBindings` | Telegram and Google bindings, logins through them, preferences; their properties for every number of handlers |
| 11 | `License`, `AccessProofs` | activation, refresh, deactivation, rollback, the two files, the loaded extension; its properties for every number of handlers |

All of these are written.  `AccessProofs` holds the proofs of two modules, both
about who may use what: servers, and the professional edition.  Left for later:
`Entitlements` with handlers that overlap; tickets and the administration of the
plan catalogue.

The abstract specifications: handlers run one after the other (`Payments`,
which `PaymentSessions` implements for the overlaps that do no harm), and a
quota that is spent one use at a time (`VodQuota`, which `VodRequests`
implements under the refinement mapping of `Ledger`: what is spent of a
subscription are the requests that hold quota of it).

## 3. The modules

### BillingState, PurchasePreview, Billing

One user, because every one of these handlers touches the rows of one user
only; one plan group, because the preview looks only at the plans of the order's group.
Order and subscription ids are numbers given out in creation order, so the
code's `created_at` comparisons are comparisons of ids.  Money is a number of
the smallest unit.  Time is a day count: expiry, credit and the order timeout
(30 minutes, less than a day) are all functions of it.

| Variable | Code |
| --- | --- |
| `order`, `placed`, `made` | the `orders` rows, those that exist, and how many were ever inserted.  The record's fields are columns (`status`, `pay_provider`, `refund_status`, `settlement_status`, `superseded_by_order_id`, `parent_order_id`, `order_chain_id`, `subscription_id`) or entries of `pay_payload` (`purchase_action`, `billing_cycle`, `duration_days` (`days`), `source_subscription_ids`, `renewal_of_subscription_id`, `base_price`, `credit_amount`, `payable_amount`, `carry_balance_amount`) |
| `links` | `order_value_links` as pairs of source and target |
| `sub`, `subs`, `granted` | the `subscriptions` rows, likewise |
| `balance`, `ledger` | `users.balance` and the sum of the deltas in `balance_transactions` |
| `offered` | `plan_billing_cycles`; a plan without a cycle is a deleted plan |
| `gateway`, `received`, `returned` | what the payment gateway knows (external): each trade, whether a callback of it was answered "success", its refund; money taken and paid back |
| `now` | `datetime.utcnow()` |

Each action of `Billing` is a handler from its first read to its commit, with
everything it calls.  For example `Notify` is `epay_notify` or `epay_return` with
`handle_paid_order`, which sells the term (`Sell`: cancel the sources of an
upgrade, extend or insert a subscription), marks stale subscriptions expired
(`ExpireStale`, the first thing `sync_user_subscription_entitlements` does),
carries a surplus to the balance, links and consumes the source orders
(`FulfilPlan`); `CompleteRefund` rolls the subscription back, refunds the order
and settles every order that fed it.  Error paths are guards.  `create_order`
commits three times; its action has one disjunct for each place it may stop.
Where the code's result depends on something the model does not hold (the order
of two `paid_at` of one day in `AnchorOrders`, whether the gateway's close call
comes through in `EndUnpaid`, what it answers to a refund) the model chooses
freely.

The length of a month depends on the day it begins on.  `TermDays` gives the
length of a term for each cycle and first day, over a calendar that repeats
itself (`CalendarDays`), and `CycleEnd` is `get_cycle_end_at`.  It is used twice, as in
the code: when an order is created, from that day, for the `duration_days` it stores
(`DurationDays`), and when it is paid, from that day or the end of the
subscription it renews, for the end of the term (`TermStart`, `TermEnd`).  A refund
rolls back by the stored days (`DaysLeft`), so what is granted and what is taken
away differ where the months do.

`PurchasePreview` is the decision table of `build_purchase_preview` and the
credit formula, rounding included; it is taken once, at creation, and stored in
the order, as the code stores it in `pay_payload`.  That is what makes stale
credit possible.

The environment has switches, so that each run asks one question:
`OneAtATime` (nothing is bought or refunded while something is pending: the
behaviour of a user and an admin who wait), `Redeliver` (callbacks come again
after "success"), `LossyGateway` (a refund call raises although the gateway
took it), `AdminTools` (which of status override, order deletion and plan
changes are used), `TrialBlocked`.

Definitions marked *Faulty* are not part of the specification: each is a
plausible bug that `PROJECT.json` puts in the place of a definition, to show
that a property notices it.

### BillingProperties

The properties, each under a comment that says what it means and for which code.

### Payments

The same handlers again, smaller: of the rows only what two handlers can spoil
for each other.  An order is its status, provider and refund columns; beside
the orders there are the balance, the ledger, the end of a subscription that
renewals share, and counters of how often each order was fulfilled and
refunded.  Chains, credit computation and entitlements are left to `Billing`.

A handler is an element of `Op`: `notify` (`epay_notify`, `epay_return`), `pay`
and `link` (`create_pay_link`, from the balance or by link), `close`, `cancel`,
`expire`, `request` (`refund_my_order`), `refund` and `approve`
(`refund_order`, to the balance or the original route), `reject`, `query`, and
`deposit` and `withdraw` (`adjust_balance`).  `Allowed`, `Covers` and `Settled`
are what it checks, `View` what it reads, `NewRow`, `Delta` and `NewEnd` what
it computes from that, and `Write` what it leaves in the tables.  `SerialSpec`
reads and writes in one step.

### PaymentSessions

The same operators with time between them.  `session[s]` is one request: what
it has read (`view`) and how far it is (`pc`).

| Action | Code |
| --- | --- |
| `Begin` | the request arrives, selects its order and checks it |
| `ReadFunds` | `create_pay_link` reads the user and compares balance and price |
| `Flush` | the handler has changed rows and runs its next query: SQLAlchemy sends the UPDATEs first (autoflush), so the row locks are taken, waiting if another session has them; then it reads the user and the orders that share the subscription |
| `AskClose`, `AskRefund` | the call to the gateway, outside any transaction |
| `BeginAdjust` | `adjust_balance` reads the user with `FOR UPDATE` |
| `Commit` | the remaining UPDATEs and the commit |
| `Abort` | an exception, a broken deadlock, the end of the process: nothing is written |
| `BeginRepeat` | a callback of a handled order, which only answers |
| `Outside` | the user pays at the gateway, the gateway pays a refund |

Three facts about the stack carry the model.  READ COMMITTED: a query sees what
is committed at that moment, and an UPDATE that waited for a lock goes on with
the values the session computed before.  The identity map: a row once loaded is
not overwritten by a later query (`expire_on_commit=False`), so checks made on
it are not made again.  The unit of work: an UPDATE sets only the columns that
changed, to the values computed in Python (`Merge`), never `balance = balance + x`.

`SameOrder` and `OtherOrder` are the pairs of handlers allowed to overlap, on one
order and on different orders of the user.  They are constants, so that a run
can ask what one pair costs.  The code allows all of them.

### VodQuota, VodRequests

One user and one media type: handlers and counters of the two types are the same
code over other columns.  `request` holds the `vod_requests` rows (`status`,
`quota_consumed`, `subscription_id`), `limit` and `used` the user's
`vod_*_limit` and `vod_*_used`, `sub` the subscriptions in the order of their
ends, `session` what a handler in flight has read.  `create_vod_request` and
`approve_vod_request` are split where they wait for MoviePilot; rejection,
deletion, status changes and settings are one step, as they await nothing
outside the database between reading and writing; `sync_user_subscription_entitlements`
(`recount`) and `_run_vod_sync` (`detect`) are split because they await Emby.
The exception handler of `create_vod_request`, which commits what an earlier
step of the automatic approval left, is an action of its own
(`CreateUnfunded`).  Admins change plans and counters without a count: `Edit` is
`update_user` (a list of subscriptions, one that overwrites a row, counters
alone) and `bulk_assign_subscription`, with numbers out of `Entered` where the admin
enters one, `Extend` is `bulk_extend_subscription`.  `edited` remembers that this
happened since the last recount, until which the counter may lag behind.
`overlapped` remembers that two handlers were in flight
together, and `Overlaps` says which may be.  `VodQuota` is what the plan
promises: a use is spent one at a time, up to the number of the plan, and only
given back otherwise.

### TmdbCache

A key of the cache has a kind, which decides what its reader does: a category
page, a genre list or company list (a failure is stored as an empty result), a
detail page (no lock, not stored when episodes are missing), an image (a file,
no Redis).  A value is the version of TMDB's data it came from, so that "stale"
is a comparison.  `redis`, `row` and `holder` are the two layers and the lock of
each key; `session` is a reader, a job or an admin's reset, with the key it is
at.  `Read` to `Write` is `get_or_set_cached_data` with `get_cached_data` and
`_set_cache`, cut at each await; `Refresh` is `refresh_defaults`, `Snapshot` and
`Upsert` are `sync_redis_cache_to_db`, `ClearRows`, `ClearRedis` and
`ClearFiles` are `_reset_tmdb_caches`.  Redis may forget (`Evict`) and, with
`Flaky`, refuse.  `Raise` is every exception, cancelled requests included.
`mixed` marks that a job overlapped with other work; nothing is claimed from then
on.  What can go wrong without a job is kept key by key.  `behind` holds the keys of which
Redis did not take its entry after the row was committed, or did not lose it
when it should (`delete_prefix` swallows the failure), and the keys that a reader
had in hand when their rows were cleared (`InHand`); a key leaves it when
Redis forgets the entry or is emptied while no reader has it in hand, or a job writes both layers.  `cleared` holds for each key
the version at the last clear that reached it: a clear does not reach keys that readers have
asked for when it begins, nor those that Redis fails to delete.

### Entitlements

One user, the rows of `emby_accounts` and the accounts themselves.  A handler
computes the calls it will make and the rows it will commit (`Begin`), calls one
server after the other (`CallServer`), and commits; a call or the commit may
fail, and then the rows are rolled back and the servers are not (`Rollback`).
`Sync` is `disable_orphaned_emby_accounts_for_user`, which trusts the row when it
decides what to switch off, `SyncOrDelete` and `Reconcile` add
`reconcile_emby_accounts_for_user`.  The handlers:

| Action | Code |
| --- | --- |
| `AccessInit` | `register`, with the plan of an invitation or none, and `import_users` with the plan of its file: neither makes accounts, and servers may know the name already |
| `Pay`, `Refund`, `Lapse`, `ExpireDue`, `Cleanup` | payment, refund, the passing of time, the two parts of the expiry job |
| `Assign` | `update_user` with a list of subscriptions: `_ensure_emby_accounts` for all of them, also those whose end has passed, then the reconciliation, which may delete what was just created (`Undo`) |
| `Overwrite` | `bulk_assign_subscription`, and `update_user` with a single subscription |
| `Extend` | `bulk_extend_subscription`, which calls no server |
| `SetStatus`, `SetStatusOnly`, `DeleteUser`, `AnomalyCheck` | the two `update_user_status`, `delete_user` (plans and accounts stay until the plans end), `anomaly_check` |
| `SetPassword`, `SetPasswordByAdmin` | `update_emby_password_for_user` and its sibling in `admin_users.py` |
| `ImportFromEmby`, `Backfill`, `SetRow`, `SwitchServer` | `import_from_emby`, `sync_emby_accounts`, the edits of `routes/emby.py` |

`gap` is the set of servers where these handlers leave the account behind.  It
is set in the actions in which that happens: registration and import with a plan
(its servers), the import from Emby and the status change of `users.py` (all servers, since
they set the user's status or row and tell no server), an extension, a failed call or commit, and
those section 5 lists.  The properties say that the handlers of the
module have no other way to get there; a server leaves `gap` when a call sets its
account.  A user who is deleted keeps the access of plans that still run, so
`NoAccessWithoutPlan` speaks of plans and bans only.  `AccessInvariant` says what holds half way through a
handler as well, and its properties are what is left of it when all is quiet.

### SystemTasks

One task (`key` is chosen at the start, three kinds of task differ), its row,
its job in APScheduler, and its runs.  `Mark`, `Look`, `Work`, `Reload` and
`Record` are `run_task` cut at its three transactions; `Fire` is the scheduler,
which never runs two instances of one job, `RunNow` the admin, who may; `Stop`
ends the process with all of it, `Start` is `start_scheduler` with
`ensure_default_tasks`.  `UpdateTask`, `Commit` and `Reschedule` are `update_task`
with the second read before scheduling, `UpdateSettings` and `CommitSettings` the
settings page, which schedules what it holds.

### Accounts

Rows of `users` (`account`), the invitations, and the tokens that were mailed
(`mailed`, by the address each went to).  `register`, `create_user` and
`bulk_import_users`, `verify_email`, `resend_verification`, `update_me`,
`update_user` and deletion read in one step and commit in another; the two
partial unique indexes are `Fits`, in the commit.  `proof` remembers for which
address an account was vouched for; `raced` names the rows and invitations that
two handlers in flight wrote, where the code has no guard.
`VerificationOn` is the setting that decides whether addresses are verified at
all; it stays as it is during a behaviour.  With it off, `update_user` writes
the new address and may settle its verification (`Settle`).

### Bindings

Active rows of `telegram_user_bindings` and `social_account_bindings` (an inactive row is never found
again), `preferences`, and what a handler has read.  Bind, unbind, log in with
either provider and the creation of preferences are cut between their query and
their commit; the partial unique indexes are `Fits`.  `Written` is the unit of
work: a login that sets columns to the values it read writes nothing.

### License

`local` is whether a package lies beside the application, which the loader takes
before it looks at any file (`get_effective_backend_extension_path`); a deployment,
that is a restart, may change it.  `license` and `artifacts` are the two files, `ext` and `routes` what the process
has loaded and mounted, `s` the handlers of `routes/admin_license.py` and where
each waits: for the provider, for the backend artifact, for the frontend
artifact, for the rows of a rollback.  Between two awaits a handler is alone, so
`Store` writes both files and forgets what was loaded (`reset_backend_extensions`) in one
step, except that the process may stop between the two (`DieStoring`,
`DieClearing`), after which `Starts` loads what is there.  `off` is a history
variable: a deactivation or rollback came to its end and nothing that could
bring the license back was on its way, nor has begun since.

## 4. The runs

Instances (`MCBilling`): a basic and a premium plan (tiers 1 and 2); terms of 1
day (trial), 2 or 3 days (a month, short and long ones in a calendar of five days)
and 20 days (lifetime, far beyond every behaviour).
`RisingPrice` makes each step up dearer than all it can be credited with.

| Run | Question | Instance |
| --- | --- | --- |
| `billing` | Is the money accounted for (`Solvent`), is consumed value never refunded again (`ConsumedNotRefundedAgain`), are columns in range and the balance never overdrawn (`TypeOK`); do subscriptions last as long as live orders paid for, between a short and a long term of each (`TimeIsPaidFor`, `PaidTimeIsKept`) | 3 orders, 3 days, one thing at a time, trial, month and lifetime |
| `billing_overlap` | Does anything, pending orders side by side, callbacks repeated without end, statuses an admin sets by hand, undo a refund (`RefundIsFinal`) | 2 orders, overlapping, redelivery, status override, plan changes |
| `billing_delivery` | Does deletion of orders and old subscriptions leave a dangling link (`LinksJoinOrders`) or break the inductive invariant (`ChainInvariant`); is a captured payment answered for in the end (`PaymentIsDelivered`) | 2 orders or a recharge, 2 days, immediate cleanup, refund calls that get lost, deletion of orders and plans, fair callbacks |
| `sessions` | Do handlers that overlap behave as if they ran one after the other (`Serializable`, which is `SerialSpec` of `Payments`); does what a request read stay true until it commits (`SessionsInvariant`); is a callback acknowledged only for an order that was fulfilled | 2 sessions, 5 requests, a renewal, a purchase and admin adjustments, pairs `Harmless` and `HarmlessAcross` |
| `vod` | Do the handlers implement the quota (`QuotaIsKept`), holds every download quota and is what handlers remember true (`RequestsInvariant`), is the counter not behind the count unless plans or counters were edited since (`UsedCoversHeld`), does a rejection stay | 2 requests, 2 subscriptions with one use each, 2 handlers in flight, an approval never beside another handler that takes quota, two counts never beside each other; an admin who edits does so while nobody else is in flight and may enter 0 |
| `tmdb` | Does a reader fetch what the one before it stored (`CacheInvariant`), do the layers of a key agree when nobody writes, unless Redis failed there (`LayersAgree`), does anything survive a reset that reached its key (`ClearedStaysCleared`), does every request end (`AllAreServed`) | 4 keys of different kinds, one of them in use at a time or both default ones while nobody clears, 2 sessions, 2 versions, failing Redis; runs stop where a job overlaps with other work |
| `entitlements` | Does an account without a plan, or a plan without an account, arise in a way that `gap` does not record (`NoAccessWithoutPlan`, `PlanGivesAccess`), and is `AccessInvariant` kept half way through a handler; does the expiry job get through (`DueExpires`) | 2 servers, of which one can be switched, 2 plans that share one, 1 failed call or commit |
| `tasks` | Is a RUNNING row alive or dead in a known way (`TasksInvariant`), is the job what the row says (`ScheduleFollowsRow`), is a user warned once, does a task leave RUNNING again (`RunningEnds`) | 3 tasks, 2 runs, 2 admins, 1 fault |
| `accounts` | Is what handlers remember true (`AccountsInvariant`), do live accounts differ (`LiveAccountsDiffer`), is an ACCEPTED invitation used by one account, is a verified address proven | 2 users, 2 names, 2 addresses, 1 invitation, 2 tokens, 2 handlers in flight |
| `bindings` | Is binding one to one (`OneToOne`), does a login revive nothing, do preferences follow bindings | 2 users, 2 accounts at each provider, 3 rows, 2 handlers in flight |
| `license` | Has a licensed instance its artifacts, is the status shown the truth, does a deactivation hold | 3 requests at once, 3 licenses, stops of the process anywhere, with or without a package beside the application |
| `refund_of_consumed` | A disagreement, see section 5 | 2 orders pending at once |

Why the bounds are enough.  Three orders are the shortest chain with a middle
(basic, renewal or trial, upgrade), the shortest where two orders share a
subscription that a third consumes, and where a refund settles more than one
source.  Three days with terms of two or three give every position of an order against
an expiry: before, on the last day, after; a calendar of five days has a month that is longer
than the one before it and one that is shorter.  `MaxSubs` equals `MaxOrders`, as each order
grants one subscription until it is reset by an admin or refunded and called
back again; the bound stops further grants.  `MaxEnd` is out of reach except in
`billing_overlap`, where an order can be fulfilled again and again; there it
stops the extension of one subscription.  Two orders are enough for the runs
with overlap: their questions are about one order and what a second, which it
consumes or is consumed by, does to it; what the longer chain adds is proved.

In the other modules two handlers in flight are the smallest race, and each
reads once and writes once, so that a third could only repeat what the first
did; `license`, where a handler waits three times, has three.  Two of each thing
that is contended for (requests, names, addresses, servers, accounts) let one be
taken and one be free.  Two versions make the difference between old and new;
one fault is enough to leave a state behind that later handlers start from.  The `tmdb` run
bounds the keys in use because keys meet only in the jobs and the reset: two default
keys are what a job handles, and a clear treats each key by itself.  A failure of
Redis is explored to the end, and so are readers in flight when the caches are
cleared; only overlapping jobs are cut off.  In the `vod` run edits and overlaps
exclude each other (`OneDisturbance`), for the counter is excused after either;
that the other properties hold for both together is proved.

For the sessions, two overlapping requests are the smallest lost update.  A
request is counted when it begins (`MaxRequests`); the life of an order from its
link to the query of its refund (link, callback, approval, query) takes four of
them, and the fifth runs beside any of those.  The amounts are such that the balance covers one
payment and not two.

Which pairs overlap without harm was found by adding each pair of handlers alone and
checking `Serializable`.  `PaymentConflicts`, `RefundConflicts` (on one order)
and `BalanceConflicts` (across orders) are the pairs for which TLC finds a
behaviour that is not serial:

- on one order, any two of callback, payment and closing; a new pay link against a
  payment from the balance or a closing; cancellation against close or timeout;
- on one order, a refund or an approval against a request, a rejection, or
  another refund or approval; two queries;
- across orders, any two of callback, payment, refund and query, and each of
  them against an adjustment by an admin, who takes a lock the others do not.

All other pairs, adjustments against each other among them, are in `Harmless` and
`HarmlessAcross`, and `sessions` shows them together.  That no bound hides a
conflict between the others is proved: `OverlapsAreHarmless` needs no bound on sessions,
requests or orders.  `AckedIsGranted` and `DeliveryInvariant` (a conjunct of
`SessionsInvariant`) hold for every pair, which is proved too.

`CHECK_DEADLOCK FALSE` is said where the bounds run out: requests, orders on the
last day, tokens, request and row identities, licenses.  The program itself just
waits.  `tmdb`, `entitlements` and `tasks` have it on.

History variables (`overlapped`, `edited`, `raced`, `mixed`, `behind`, `cleared`, `gap`, `off`, `died`) mark the
behaviours for which the code gives no guarantee, at the place where they begin
and for the rows they concern.  Each makes a property say more than it could
without: not "this never happens", which would be false, but "this happens in
these ways and no others".  Section 5 says what happens in those ways.

Fairness.

- `billing_delivery`: `WF_vars(Notify(o))`, because the gateway repeats a callback
  until it is answered with "success" (the handler answers "fail" for everything
  else, and that protocol is what the answer is for).  Nothing is assumed of
  users, admins or jobs.
- `tmdb`: weak for what a session does next, because the event loop runs what is
  ready and TMDB is asked with a timeout; strong for taking a lock, because
  `asyncio.Lock` serves those who wait in their order.
- `entitlements`: weak for the next step of a handler (calls have timeouts), strong
  for the expiry job, which the scheduler starts at every interval and which other handlers
  cannot keep away for ever.
- `tasks`: weak for the steps of runs and requests; strong for the trigger, which
  fires at every interval at which the job exists; weak for the restart of the
  process, which is an assumption about its deployment (the `Dockerfile` runs one
  process that ends with the container).

## 5. Findings

One disagreement has a run of its own, with `expect: violation`.
`refund_of_consumed`: the refund of an order waits at the gateway; an upgrade
that was pending is paid and consumes that order; the refund is queried and
completes.  The order's value went into the upgrade and back to the user,
although `refunds.py:43` names exactly this as refused.

The following behaviours of the code follow from the same modules.  Each was
seen as a TLC counterexample, or read off the actions while they were written.

*Orders and money.*

- An upgrade is created with credit for an order; the order is refunded; the
  upgrade is paid and refunded, with the credit counted again (`payments.py:75`;
  `billing` with `OneAtATime = FALSE`).
- An upgrade cheaper than its credit puts the rest on the balance; its refund
  returns the whole credit again (`refunds.py:70`; a price list where two basic
  terms are worth more than a premium one refutes `Solvent`).
- Two callbacks of one payment read the order before either has fulfilled it;
  the second waits for the first's lock and fulfils the order again
  (`payments.py:33`; `sessions` with the pair of two callbacks in `SameOrder`).
- Two orders are paid from one balance; both find it sufficient, and the second
  commit writes over the first (`orders.py:347`; two payments in `OtherOrder`).
- Two approvals of one refund pass the check before either takes the row
  (`admin_orders.py:653`).
- A refund call raises after the gateway took it; the handler's FAILED is never
  committed (`refunds.py:522`), and the order is refunded a second time.
- When an order's expired subscription was cleaned up, its refund takes the
  running one that another order of the same plan paid for (`refunds.py:110`).
- A month sold is not the month taken back: a renewal adds the calendar month
  after the current end (`plan_purchase.py:100`), its refund counts the days
  computed on the day each order was created (`plan_purchase.py:197`,
  `refunds.py:158`).  Bought and renewed on 1 January,
  a subscription ends after 59 days while its orders store 31 each; when a third
  term is refunded it lasts 62.  `TimeIsPaidFor` and
  `PaidTimeIsKept` bound the difference.
- A payment captured for a plan or cycle that was removed in the meantime is
  never fulfilled; the exception of `PaymentIsDelivered`.

*Video on demand.*  The automatic approval of `create_vod_request` that fails
after `_consume_quota` commits the counter with status FAILED: a use is counted
and attributed to nothing until the next recomputation.  Two approvals in flight
together both take the last use of a subscription.  `_run_vod_sync` completes a
request that was rejected while Emby was asked.  Plans that admins
extend, overwrite or delete (`admin_users.py:1461`, `:1440`, `:968`) and counters they
set (`:955`) are not counted again: a revived subscription brings back the uses its
requests hold, and the counter does not show them until the next payment,
refund or expiry recounts.

*Caches.*  When Redis fails after the row of an entry is committed (`tmdb.py:270`),
or fails to delete (`cache.py:149`), the old entry stays in front of the new row, or of no
row, until it expires or a job writes both; the persistence job may copy the old one
back.  A reader that has asked TMDB when the caches are cleared stores its answer
afterwards.  Pages that are filled without a lock, and genre lists, may end with
different versions in the two layers.

*Accounts.*  Two registrations with one invitation both get its plan.  Without an
address, `register` looks for `email IS NULL`, so a second registration without
one is refused although the index would allow it.  A deleted user's bindings
stay active and keep the external account from being bound by anybody else.

*Tasks.*  The admin's "run now" answers SUCCESS whatever the run recorded; it is
not kept from running beside the scheduler's run, so a user can be warned twice.
`update_settings` schedules the state it holds, not the row's.

*Entitlements.*  The ways into `gap`: registration with an invitation's plan and the user import
(`auth.py:164`, `admin_users.py:1815`), which make no accounts; `import_from_emby`, which binds
accounts of any status to users without a plan; an assignment that overwrites a plan which
is due and not yet ended; a commit that fails after accounts were
enabled; a user set ACTIVE again, who gets back every account, also those
without a plan; accounts that `_ensure_emby_accounts` finds in another state
than its row will say; `bulk_extend_subscription`, which revives EXPIRED and CANCELED
subscriptions and enables nothing; an admin's password reset, which takes ended
plans too; edits of `emby_accounts` rows, and switching a server on, which tell
the server nothing; `sync_emby_accounts`, which invents ids, so that the server
answers 404 to the ban or the expiry of that user, and the expiry of everybody
in the same run is rolled back with it.  `anomaly_check` turns BANNED users ABNORMAL.

*License.*  With a package beside the application the extension is loaded without
a license, and again after a deactivation; the overview is PENDING then, as
`tests/test_license_status.py` wants it.  An activation or a refresh in flight brings the license back after a
deactivation.  If the process stops, or the answer is lost, after the provider
took a deactivation, the license stays on file, and the repeated deactivation may
be refused.  A rollback to the base edition does not tell the provider, and its
deletions fail on foreign keys when tickets or requests of customers exist, or
invitations with a plan (plans are deleted before invitations).  After an
upgrade the imported modules of the old version run on until the restart
(`pro_extensions.py:50`), and a repeated download of one version replaces the
extracted directory before it is validated (`pro_artifacts.py:141`).

*Telegram.*  The rate limiter of `telegram.py:46` increments and then sets the
expiry: a failure in between leaves a counter that never expires.

## 6. Proofs

`BillingProofs` proves, for every number of orders and subscriptions, every
catalogue, every setting of the switches and every length of behaviour:

- `ChainInvariantHolds`: `Spec => []ChainInvariant`, the inductive invariant;
- `ValueAlwaysFlowsForward`, a part of the invariant: value links lead from older to younger orders except out of renewals;
- `NoDanglingLinks`: links join existing orders, each `superseded_by` has its link;
- `RefundsAreFinal`: `Spec => RefundIsFinal`, an action property;
- `ColumnsKeepTheirTypes`: `Spec => []TypeOK`.  `Typed`, the invariant behind it, adds
  what the amounts need: rows know the bounds of their ids, a credit is computed
  from subscriptions that exist, the balance is only debited of what it covers.

Under `Orderly`, that is when the preview and refunds are refused while anything
is pending, answered callbacks do not come again, admins only settle refunds and
no row gets old enough for the cleanup:

- `ActiveTimeIsPaidFor`: `Spec => []TimeIsPaidFor`, no more than a longest term of each
  live order, for every calendar;
- `NoPaidTimeIsLost`: `Spec => []PaidTimeIsKept`, no less than a shortest term of each;
- `UsedValueIsNotRefunded`: `Spec => ConsumedNotRefundedAgain`.

With `~LossyGateway` as well, that is when a refund call that raises was not taken by
the gateway:

- `NoMoneyIsMade`: `Spec /\ []Dearer => []Solvent`, where `Dearer` says that no order
  has a carry: no upgrade is cheaper than the credit it takes.

Assumptions: `BoundsAssumption`, `CatalogueAssumption`, `SettingsAssumption`, about
the types of constants, and `CalendarAssumption`, that terms last at least a day and
`ShortTerm` and `LongTerm` bound them; TLC evaluates them in every run.  `Orderly`, `~LossyGateway` and
`[]Dearer` are hypotheses of theorems, not assumptions: the run `billing` satisfies them
(with its prices no reachable order has a carry), and
the other two runs of `Billing` are there to show what happens without `Orderly`.
Neither of the hypotheses about money can be dropped: section 5 names, for each,
the behaviour of the code that refutes `Solvent` without it.

Why the invariant is what it is.  `ValueFlowsForward` is not inductive alone:
paying an upgrade adds links from every successful order that holds one of its
source subscriptions, and nothing in the links says those orders are older.
`SourcesAreOlder` does: an upgrade names only subscriptions granted before it
was placed, a subscription is granted to the order being fulfilled with a fresh
id, and only a renewal joins a subscription that exists.  So an order that is
not a renewal and holds a subscription some upgrade names was placed before that
upgrade.  Renewals are the exception in the code too: a renewal created before
an upgrade and paid after its creation extends the very subscription the
upgrade consumes.  `LinksJoinOrders` is needed so that deletion (`LinksWithout`)
keeps the rest, and `SupersededIsLinked` ties the denormalised column to the
links.  The remaining conjuncts are the part of the type invariant the argument
needs: rows that exist have ids already given out, and updates of a row keep its columns.

The proof has one lemma per kind of step.  Steps that keep every row's chain
columns, the links and the grants are handled once (`QuietKeepsChain`);
fulfilment is `PaidOrderHandled` for an order that was placed before and
`PlacedOrderHandled` for one placed in the same step; creation, refund and
deletion each have a lemma; `NextKeepsChain` puts them together.

The three theorems under `Orderly` rest on `TimeInvariant`: `Typed`, `ChainInvariant` and

- `Alone`: at most one order is pending, be it unpaid, paid and not yet
  acknowledged, or being refunded.  What was previewed when an order was created is
  therefore still true when it is paid; `Orderly` is there for this, and
  `refund_of_consumed` is what happens when an upgrade is paid while a
  refund of its source is under way;
- `OrdersAgree`: the columns of a row agree with each other and with the gateway (what is
  live was not refunded, what is being refunded is live and nobody's source,
  what is sold has a subscription), and a pending upgrade still finds its sources
  as it found them (`Claimed`);
- `LinksAreSpent`: whatever is the source of a link has nothing left to refund;
- `OrdersShare`: the orders of one subscription are all lifetimes or all not, one
  of them granted it and the rest renewed it, and they are consumed together;
- `TermsArePaid`: an active subscription has an order that holds value, and a
  subscription with such an order lasts between the sums of the shortest and of the
  longest terms of its live orders (`Allowed`).  `TimeIsPaidFor` (no longer) and
  `PaidTimeIsKept` (no shorter) are its two halves.  It is inductive because a
  refund sets the end anew from the stored days of the orders that are left, each of
  which is the length of some term (`Storable`), instead of subtracting one.

Old rows are not cleaned up, because that deletes a subscription which live
orders name; answered callbacks do not come again, because one for a refunded
order fulfils it once more; and an admin who sets statuses can make any order
live without a sale.  The days of a subscription are
a sum over a set of orders.  What is needed of such sums (adding an order,
removing one, replacing one whose days do not count) is proved from their
recursive definition by a minimal counterexample: the well-founded order on finite subsets
gives a least set for which the equation fails, and removing one element
of it contradicts that.  The step is then by cases: rows that keep their
days (`QuietTime`), a sale that grants, renews or consumes (`PlanSold`), and a refund
(`RowsRefunded`), which runs only through `Refunds(o)`; the action property is
read off one lemma about it, `OnlyRefundSettles`.

`Solvent` compares the balance, what was paid back and what is owed for every order
with what came in.  It is not inductive: a payment that the gateway has captured and
not yet reported has come in and is in no order.  `MoneyInvariant` is `TimeInvariant` and

- `Funded`: the same balance sheet with `Dues`, which counts such a payment as due
  to the user until it is answered; `Solvent` is its weaker form;
- `PricesHold`: payable and credit add up to base and carry (`Priced`), and the credit of
  a pending upgrade is no more than the base prices of the orders that it is going to
  consume (`Backed`), which `CreditIsCovered` shows of the preview;
- `RefundsTracked`: the gateway has taken a refund only of an order that is PROCESSING
  or REFUNDED, so that nothing is paid back twice, once by the gateway and once to
  the balance.

A sale then moves value: what it costs comes off the balance or out of a captured
payment, and the credit it may be refunded with comes off the orders that it
consumes, which nobody owes anything for afterwards (`SaleKeepsMoney`, on the sums of
`SumOfParts`).  A refund moves what is owed for the order to the balance or leaves it to
the gateway (`CompleteRefundKeepsMoney`); all else leaves every order's value as it
is or lowers it (`QuietKeepsMoney`).

`PaymentSessionsProofs` proves, for every finite set of orders with any kinds
and amounts, any number of sessions and requests, and every choice of
overlaps, that of all handlers included:

- `DeliveryInvariantHolds`: `Spec => []DeliveryInvariant`, which holds the type
  invariant and with it that the balance is never negative;
- `AcknowledgedIsGranted`: `Spec => []AckedIsGranted`.

If only harmless pairs overlap (`HarmlessOnly`: `SameOrder \subseteq Harmless` and
`OtherOrder \subseteq HarmlessAcross`), it also proves

- `SessionsStayConsistent`: `Spec => []SessionsInvariant`;
- `OverlapsAreHarmless`: `Spec => Serializable`, that is, the sessions implement `Payments`.

Assumptions: `PaymentsAssumption` (types of the constants, finitely many orders)
and `SessionsAssumption`.  `AckedIsGranted` needs that an order that counts as
handled was fulfilled, because a repeated callback is answered on that ground
alone.  That in turn needs `Merge`: a stale session may write an order, but
only a payment or a callback writes the status COMPLETED into it.  That the
balance stays natural needs `FundsAreCovered`: a session that takes money writes
the difference to a balance it has compared, however old, and all others add.
The balance is thus never negative even where spending is not covered (two
payments at the same time): the two say different things.  The proof follows the
actions, a lemma for each; the steps that write rows share `WriteDelivers`,
those of the gateway `GatewayDelivers`.

For the refinement the two specifications share their variables, so no mapping is
needed: reads and waits are stutters, and a commit must be the handler of
`Payments` on the rows as they are (`DueCommit`) or leave all as it is because
another request did the same (`NeedlessCommit`: two pay links, two requests for
a refund, two rejections, two closings).  `RowHolds` is what each handler needs
of the row for that, after its own checks are old: a refund still finds the order
paid and its refund not under way, an approval still finds the trade at the gateway, a
callback an order nobody fulfilled.  `MergedRow` then says that merging the
columns it changed is the same as running it on the row.  `SharedHolds` is the
same for the balance and the subscription, and holds because at most one request
at a time is going to write them (`OneWriter`).  Why is in `OneWriterOfAnOrder` (on one
order, two writers that may overlap need the row in different states) and in
`OverlapsAreApart` (across orders they may not overlap); two adjustments are
kept apart by the lock of the user's row.  `RowHoldsAfterCommit` is the heart of it: the
commit of any handler against what any other handler in flight relies on.

`VodProofs` proves, for any finite sets of requests and subscriptions, any
quotas and any number of handlers in flight:

- `AcceptedAlwaysHoldsQuota`: `Spec => []AcceptedHoldsQuota`, whichever handlers overlap;
- `HandlersImplementQuota`: `ApprovalsAreAlone => (Spec => QuotaIsKept)`, the refinement:
  the handlers implement `VodQuota` under the mapping of `Ledger`, unless a
  handler that takes quota runs beside an approval;
- `RequestsStayConsistent`: `Spec => []RequestsInvariant`, the types and the views;
- `CounterCoversUse`: `Spec => []UsedCoversHeld`, the counter in the user's row, from
  every recount to the next edit of plans or counters, while no handlers overlap;
- `RejectionsAreFinal`: `Spec => RejectionIsFinal`, an action property.

Assumption: `RequestsAssumption`.  The first theorem needs what the handlers in flight have read (`ViewsHold`): the rows a sync
job found waiting hold quota as long as they exist, because nothing but deletion
takes it from them and a new row has a new identity; a row that names a
subscription keeps naming one.  For the refinement, `TakersApart` says of the handlers
that will take quota that each has a request of its own which holds none, and
that the subscription an approval chose before it waited still has a use left.
No creation can take that use, since none runs beside it, and every other step
only lets requests go (`Released`).  A creation chooses when it writes, so
creations may overlap.  Each step is then an instance of `Released`, which gives back, or
`Taken`, which spends one use.  `MinMaxExist` is there because the code takes the
subscription that ends first or last.

The counter is compared with a sum over subscriptions.  `Counters`, what is
inductive about it, speaks of the handlers: one that runs alone has read the
counter that is still there, and a recount counts no fewer uses than
the subscriptions will have when it writes.  A handler writes one request, so
the use of one subscription rises by one at most, and the lemmas about sums (one term
changes; all terms are at most) are again by a minimal counterexample.

`TmdbCacheProofs` proves, for any sets of keys and readers and any number of
versions of TMDB's answers:

- `CachesStayConsistent`: `Spec => []CacheInvariant`;
- `LayersAlwaysAgree`: `Spec => []LayersAgree`, Redis has nothing or what the table has, for
  data read under a lock (genre lists excepted) and outside the keys of `behind`;
- `FetchesAreNeeded`: `Spec => []FetchIsNeeded`, what the lookup under the lock is for;
- `ClearedIsGone`: `Spec => []ClearedStaysCleared`, key by key from the last clear that
  reached it.

Assumption: `CacheAssumption`.  The invariant is stated session by session, so that
a step of one session leaves it to be shown for that session and for the
caches it wrote: what it has in hand is well formed (`Typed`), the lock of a key
belongs to the reader that fetches it (`Owned`), what it goes by is still in the
caches (`Backed`), and neither it nor the caches hold anything older than the last
clear that reached the key (`FreshView`, and for a clear that is going on `FreshCaches`).  `Layered` is `LayersAgree` with
the moments at which a session is about to set the two layers right.  Of the jobs that
write more than one key, `Quiet` says which may run side by side; where others
do, `mixed` remembers it, as in the properties.  `ProceedKeeps`
covers the steps that write no cache, `AdvanceKeeps` those that end or go on, `RedisFilled` and
`RowFilled` the two writes, `BeginKeeps` every beginning; each action has a lemma.

`SystemTasksProofs` proves, for any number of runs, warnings and faults:

- `TasksStayConsistent`: `Spec => []TasksInvariant`;
- `ScheduleAlwaysFollowsRow`: `Spec => []ScheduleFollowsRow`;
- `UsersAreWarnedOnce`: `Spec => []WarnedOnce`.

Assumption: `TasksAssumption`.  `TasksInvariant` is inductive as the run checks it: that the
schedule follows the row needs that whoever changed the row is still on the way
to the scheduler (`ChangesAreScheduled`), that a user is warned once needs that, while
no runs overlap, a run that is about to warn looked when nobody had been warned (`WarningIsNew`).

`BindingsProofs` proves, for any users, accounts and rows and any number of
handlers in flight:

- `HandlersRememberRightly`: `Spec => []BindingsInvariant`, the inductive invariant;
- `BindingsAreOneToOne`, `PreferencesNeedABinding`, `LoginsChangeNothing`: the
  three properties of the run, the last an action property.

Assumption: `BindingsAssumption`, that the two providers share no account.
`OneToOne` alone is kept by the indexes (`FitsKeepsOneToOne`).  The other two
depend on what handlers remember (`Remembers`): the rows a handler found are
still its user's and at its provider or are gone, and they are gone only if
another handler was in flight for the same user (`raced`).  Hence a login sets a
row to what it is, or a row that is gone to nothing, and preferences are
created without a binding only where handlers for one user overlap.  For the
row identities that a new binding takes, this needs that none is taken which a
handler still remembers.  `BeginKeeps` and `EndKeeps` say once what holds of every
handler that begins or ends; the lemmas of the actions say what each wrote.

`AccountsProofs` proves, for any users, names, addresses and invitations and any
number of handlers in flight, with verification on or off:

- `AccountsStayConsistent`: `Spec => []AccountsInvariant`, the inductive invariant;
- `LiveAccountsAlwaysDiffer`, `InvitationsAreUsedOnce`, `VerifiedAddressesAreProven`:
  the three properties of the run.

Assumption: `AccountsAssumption`, that a row of users is no invitation and that
a missing address is none.  The invariant adds to the properties what handlers
remember (`View`): a registration in flight has chosen a row nobody else knows
and invitations that are still PENDING, a change or a verification knows
whether the row counts as verified, and a token it read was mailed to the row's
address; each of these holds only of rows and invitations that are not `raced`.
`TokensReachAddress` says the same of the tokens that wait in rows.  A change of
address resets `verified` only if it was read as true, so without the view of
`verified` the proof would not go through, nor would the property hold.
`ReadingKeeps` covers every handler that begins, `ChangingKeeps` every one that
writes a row it knew; what is left to each action is the row it writes.

`AccessProofs` proves of `Entitlements`, for every set of plans and servers,
every assignment of servers to plans, and any number of failed calls and commits:

- `AccountsFollowPlans`: `AccessSpec => []AccessInvariant`, the inductive invariant;
- `AccessNeedsPlan`: outside the gap that the handlers record nobody has access without
  a plan or while banned (`NoAccessWithoutPlan`);
- `PlansGrantAccess`: outside it every current plan gives an active user
  access (`PlanGivesAccess`).

Assumption: `EntitlementsAssumption`, that plans have servers, one of which was
created first.  Neither property is inductive, for three reasons, and
`AccessInvariant` has a conjunct for each.  Between the end of a subscription
and the expiry job the properties say nothing, so what the job will find has to be
known: `Covered` counts a plan until the job has ended it, and `RowsFit` says
what the rows then grant, for a user who is ABNORMAL too.  The job trusts the rows, so
accounts must be known to follow them.  And a handler that has called some of its
servers leaves rows and accounts apart: the rows it is about to commit fit the
plans it is about to commit outside `GapAfter`, the gap it will leave, and every
account will be as its row after the call still to come.  `GapAfter` does not
change while calls are made, which is why `CallServer` keeps the invariant, `Commit` turns
what was promised into what holds, and `Rollback` puts exactly the accounts that
have left their rows in the gap.

The proof has one lemma for each handler.  `BeginWell` reduces a handler that begins to
its servers, one at a time; `SyncWell` and `DeleteWell` say that disabling or
deleting the accounts without a plan, on top of other calls, needs nothing else,
and are used for payment, refund, expiry and cleanup; `ReconcileKeeps` is the same for accounts
that are created and may be deleted at once, for the two assignments; `QuietStep`
covers what calls no server.

`AccessProofs` proves of `License`, for every set of handlers, however many run at once, and
every number of licenses:

- `LicenseInvariantHolds`: `Spec => []LicenseInvariant`, the inductive invariant;
- `LicensedAlwaysHasArtifacts`, `StatusIsAlwaysTruthful`, `DeactivationAlwaysHolds`:
  the three properties of the run.

Assumption: `MaxTokensAssumption`.  None of the three is inductive.  That the
artifacts are there when a license is stored needs that a handler which
downloads has a signed license in hand.  That the status is the truth needs what
is never visible from outside: the process has tried to load an extension
exactly when a license is on file or a package lies beside the application, because every step that changes the files
forgets what was loaded, and a restart looks again.  That a deactivation holds needs
that, while `off`, no handler is on its way to grant anything.  The proof has a
lemma for each kind of step: a handler that ends, goes on or begins without
touching the files, one that stores, one that clears, a deactivation of
nothing; `NextInvariant` goes through the actions and cites them.

## 7. Limits

*Model-checked only.*  Liveness (`DueExpires`, `AllAreServed`, `RunningEnds`,
`PaymentIsDelivered`) and everything with ENABLED, which the provers cannot
reach.  Every invariant and every action property of the passing runs is proved.

`Serializable` holds, and is proved, only for the overlaps named harmless in
section 4; the code allows the others as well.

*Simplified in `PaymentSessions`.*  What a handler reads after its first UPDATE
is read at one moment; the lock of the user's row, which a callback or a refund
takes late, is held in `Commit` only.  The admin's status override, order
creation and deletion, and the jobs on subscriptions are not among its handlers.

*Simplified elsewhere.*  In `Entitlements` handlers run one at a time; that they
overlap adds races on rows to the gaps that are modelled.  The servers a plan is for are fixed
(`admin_plans.py:280`).  An admin's request to change a subscription, the status and the
password of a user is a handler for each; handlers of admins may act on users who
are deleted, which the code refuses in part.  A user who is deleted and
imported again under the same name is not a second user.
`SystemTasks` leaves out the interval, which goes where `enabled` goes, the run count and the log,
which are written with the result, and a refresh of the row that fails after
`update_task` has committed (`admin_tasks.py:68`).  `License` leaves out the export, the
instance file, the versions of artifacts, and what a rollback deletes in the
database.  `VodRequests` has one media type; the period and the quota of a subscription are
fixed, where an admin may overwrite its plan or edit the quota of a plan, and
extensions keep the order in which subscriptions end.  Its run has no edits beside other
handlers and no two recounts at once; the theorems hold for every `Overlaps`.
`Accounts` has no passwords, neither a change of the verification setting while the process runs
nor the administrator that a start of the process creates (`users.py:26`).  Which
of TMDB's answers belong to a key is a version number in `TmdbCache`.

*Named and not caught.*  Some overlaps leave rows apart and nothing in the code
prevents it.  The models take these steps and record them (`raced`,
`overlapped`, `mixed`, `Stuck`, and the three sets of conflicts of `PaymentSessions`), and the properties
speak of what was not touched by them: they say how far the damage goes, not
that it is absent.  `PROJECT.json` names each of these hazards, those without a property with the reason.

*Not modelled.*  Tickets, documents, the dashboard and the settings page beyond
what tasks see of it: handlers that read and write one row.  The lists that
`vod.py` keeps in Redis for some minutes.  Servers and MoviePilot instances as rows (a default
one is kept), the plan catalogue beyond deletion, migrations, mail templates.

*Not in the model of orders.*  `payment_transactions` (written, never read by a handler
that decides); signature and amount checks of callbacks (a callback that fails
them changes nothing); the optional refund policies of `validate_refund_policies`, which only
refuse more; VOD limits, notifications and Emby accounts that fulfilment and
refund touch beside the rows, which are in `VodRequests` and `Entitlements`; changes of price and tier of a plan,
and of the days of a trial between order and payment (`admin_plans.py:198`);
subscriptions an admin assigns, which are not tied to orders; other groups,
which the preview of this group never reads.
