# A TLA+ development of the agentic data layer

This directory holds TLA+ models of the services of this repository, the TLC
configurations that check them on small instances, and TLAPS proofs of the
properties that matter most for every instance. `PROJECT.json` maps each
definition to the lines it models and lists the runs, mutants, findings, hazards
and theorems.

* [1. The system](#1-the-system)
* [2. What is hard about it](#2-what-is-hard-about-it)
* [3. What makes each component correct](#3-what-makes-each-component-correct)
* [4. Modules](#4-modules)
* [5. Runs](#5-runs)
* [6. Bounds](#6-bounds)
* [7. Fairness](#7-fairness)
* [8. Proofs](#8-proofs)
* [9. Where code and documents part](#9-where-code-and-documents-part)
* [10. Not modelled](#10-not-modelled)
* [11. Plan](#11-plan)

To check a run: `tlc -config subscriptions.cfg MCSubscriptions.tla`; to check a
proof module: `tlapm CdcSafetyProofs.tla`.

## 1. The system

A telecommunications provider's systems of record (SoRs) feed a context layer
that agents read, and agents write back through a governed path.

```
             events                    records
 CRM SoR  ──────────┐            ┌──────────────► Context Cache ◄──── ACG ◄──── agents
 Billing SoR ───────┼──► CDC ────┤  PUT /records      (8012)         (8013)       │
 Catalogue SoR ─────┘  Assembly  └── GET price ──► Catalogue (8014)    │          │
   ▲   ▲               (8011)                          ▲    offers     ▼          │
   │   └──── GET price ── Billing                      └────────── Offer Engine   │
   │                                                                 (8016)       │
   └──────── Action Broker (8018) ◄── intents ───────────────────────────────────┘
                  │ allow?
                  └────────► OPA (8019)
```

Every service is one Python process running one asyncio event loop, and keeps its
state in that process's memory; services talk by HTTP only.

| Component | State | Operations | Talks to |
|---|---|---|---|
| CRM SoR (`crm/crm_app.py`) | `crm_data` | startup emission with ten attempts; `PATCH /customers` with or without a change | posts `crm.customer.updated` to CDC |
| Billing SoR (`billing/billing_app.py`) | `billing_data` | startup emission; `PATCH /customers` (update a line, add a line, re-capture); `POST /recalculate` | reads list prices from the catalogue, posts `billing.subscription.updated` to CDC |
| Product Catalogue (`product/catalogue_app.py`) | `CATALOGUE`, `_GRAPH` | `PATCH /products`, `/reload`, `/validate-combination`, `/graph/compatible-candidates` | posts `product.catalogue.updated` to CDC |
| CDC Assembly (`cdc/cdc_app.py`) | `_pending` (open joins), background tasks | `POST /events`, enrichment, product fan-out, timeout checker | reads and writes the cache, reads the catalogue |
| Ontology (`ontology/`) | constants read from YAML | `assemble_domain`, `merge_domains`, `validate_cache_record` | a library |
| Context Cache (`context_cache/cache_app.py`) | `_store` (hot), `_permanent` | `PUT /records` (full or `_merge_domain`), `GET /records`, `GET /permanent` | – |
| ACG (`acg/acg_app.py`) | none | `get_context`, `get_compatible_offers`: hot cache, then permanent store, then the Offer Engine or a freshness label; MCP tools that forward intents | cache, Offer Engine, Action Broker |
| Offer Engine (`offer_engine/`) | the policies it has loaded | discount summary, proposals, compatible offers | catalogue |
| Commercial rules (`rules/`) | the policies of `discounts.yaml` | `evaluate_discounts` | a library of Billing and the Offer Engine |
| Action Broker (`action_broker/`) | `_audit_log` (a deque of 200) | `POST /submit-intent` | OPA, Billing, catalogue |
| OPA (`policies/`) | a table | `authz/allow` | – |
| Log service (`log/`) | a list | `POST /logs` | – |
| Journeys (`purchase_journey.py`, `pricing_journey.py`) | a snapshot of what to undo | read, offer, buy, cancel; read, reprice, recalculate, restore | ACG, Action Broker, Billing |

A **read** goes through the ACG to the cache and never reaches an SoR. A record of
the cache has two field groups, `profile` (from the CRM) and `commercial_state`
(from Billing, enriched with catalogue data). The first event of an unknown
customer opens a *join* in CDC's `_pending`; the event of the other domain
completes it, and only then is the record written. Later events are *upserts* of
one field group. A join that stays incomplete for 30 seconds is evicted by the
timeout checker and written as `partial_timed_out`. A record with both domains is
enriched: read back, its lines priced by the catalogue, its `commercial_state`
written again. A product event enriches every record again (*fan-out*).

A **write** goes through the Action Broker: permission (OPA), payload schema, for an
addition the validation of the combination by the catalogue, the call to the SoR,
the audit record. The SoR then posts its event to CDC before it answers.

A **journey** is a client script that does both: it reads through the ACG, writes through
the broker, and in a `finally` undoes what it did as `system-admin`. Its calls time out after
15 seconds, the broker's after 10; neither stops the handler that was called.

## 2. What is hard about it

No service uses threads, so a coroutine runs alone between two awaits; but nearly
every handler awaits several HTTP calls and keeps what it read across them, and
only `_pending` is guarded by a lock. The hazards are listed with their lines in
`PROJECT.json`; in short:

* *check, await, act*: CDC decides the assembly state from a record it read before
  the write; the enrichment writes back a `commercial_state` it read before it
  asked the catalogue; Billing writes back a copy of the record it took before it
  asked the catalogue; the broker's combination check is made against a portfolio
  read two calls before the line is written;
* *two owners*: a join can be completed by a handler while the timeout checker,
  which scanned earlier, is on its way to evict it;
* *failure between two steps*: a join leaves `_pending` before its record is
  written; Billing writes before it posts its event and answers 500 when that
  fails; the broker gives up after ten seconds while Billing goes on;
* *retries*: the startup tasks repeat all of their records when one POST fails,
  also when CDC is still handling the one that timed out;
* *two tiers, two reads*: the gateway reads the permanent store some time after it missed the hot
  cache, and passes what it read to the Offer Engine some time after that;
* *three copies of a portfolio*: an offer is computed from the cached record and a line without a
  list price, the broker checks the active lines it read at Billing, Billing prices its own copy;
* *undo*: a teardown runs while writes it did not wait for, or those of the other journey,
  are still going on;
* *process loss*: `_pending` and both cache tiers live in memory;
* *boundaries*: the strict 100-pound threshold that moves every line's discount, the
  bounded audit deque, two independent version counters for the two tiers.

## 3. What makes each component correct

* **Cache**: both tiers always hold the same record (the ACG falls back from one to
  the other); a record never changes without its version growing by one.
* **CDC**: no join stays in the pending store once it is complete; a join is written by
  one owner only; every body passes the cache's validation, which looks at its keys, at the keys
  and the `_meta` of each field group and at its state; an acknowledged domain is
  not lost; while joins complete in time, the cache holds complete records only and
  the profile only moves forward to committed revisions; the startup emissions converge
  to complete, up-to-date, enriched records; every join and every task ends.
* **Billing**: one line per product; a change is not undone; whenever the discounts are evaluated,
  the charges of active lines are those the policies give for the whole portfolio.
* **Catalogue**: a portfolio found valid breaks no declared exclusion and misses no
  prerequisite.
* **Action Broker**: only what the caller is permitted is written; every write is
  audited and the audit is truthful, whatever fails; every intent ends; who sends one intent at a
  time can rely on the catalogue's verdict and on what the intents before have changed.
* **Offer Engine**: what is offered passes the checks its purchase will meet, unless it lacks a
  product that the customer has suspended or cancelled, and after the purchase the bill is never
  higher than the offer's own evaluation of the portfolio.
* **ACG**: a packet is the whole context; reading again never goes back; a customer is found from
  the moment both systems of record had an event acknowledged.
* **Journeys**: each ends, whatever fails; when nothing failed, a recalculation has reached every
  holder at Billing, the purchase leaves no product behind and the pricing journey restores the
  price and the charges of the product it repriced.

## 4. Modules

The context path:

| Module | Models | State and actions |
|---|---|---|
| `Ontology` | `ontology.py`, `assembly_spec.yaml` | operators: `AssembleDomain`, `MergeDomains`, `ValidateCacheRecord`. A record is a function from its keys; of a domain's data the *revision* is kept, of an enriched `commercial_state` also the revision of the list price, and of each field group its `_meta` |
| `ContextCache` | `cache_app.py` | `hot`, `permanent`; `WriteRecord` (full or merge, both tiers in one step as under the code's lock), `CacheRestart` |
| `SorFeeds` | the emission side of the three SoRs | `sor`, `listPrice`, `unsent`; a change, a re-capture, a price change, the answer to a startup POST |
| `CdcAssembly` | `cdc_app.py`, composed with the three above | `pending`, the tasks (`pc`, `job`, `draft`, `assembly`, `todo`), `checker`; one action per section between two accesses to shared state |
| `LastKnownState` | the abstract promise for one domain | `committed`, `known`: what is known only moves forward, to something committed |
| `CdcProperties` | the properties of the path, and the refinement mapping to `LastKnownState` | |
| `CdcSafetyProofs` | theorems that hold whatever happens, and for instances without late joins (section 8) | |
| `CdcSerialProofs` | theorems for serial clients | |
| `MCCdcAssembly` | the instance for TLC | |
| `ContextRetrieval` | the two retrieval plans of `acg_app.py`, composed with `CdcAssembly` | `retrieval` (the plan an agent runs, where it stands and the record it read), `answer`; one action per graph node (`CacheRead`, `CacheReadPermanent`, `FetchCompatibleOffers`), `Packet` and `OffersPacket` for the two response nodes, `RetrievalFails` |
| `RetrievalProperties` | what the answers promise; its `.cfg` files run it directly | |
| `RetrievalProofs` | theorems about the answers | |

A POST to `/events` is a task in the label `"post"`; `LookupHit` and `LookupMiss` are the
read of the cache; `OpenPending`, `JoinPending` and `CompletePending` the section under
`_pending_lock`; `UpsertComplete`, `UpsertIncomplete` and `WriteJoined` the PUTs;
`EnrichRead`, `EnrichFetch` and `EnrichWrite` the enrichment; `ScanRecords`, `FanOutNext` and
`FanOutDone` the product task; `CheckerScan`, `CheckerEvict`, `CheckerSkip`, `CheckerWrite` and
`CheckerRest` the timeout checker. The faults are actions of their own: a POST lost, a POST
that times out at the sender while the handler goes on, a cache call that fails, a
cache write whose answer is lost, an unreachable catalogue, a restart of the cache and
one of CDC.

The write path:

| Module | Models | State and actions |
|---|---|---|
| `CommercialRules` | `commercial_rules.py`, `discounts.yaml` | operators: every rule scope, the additive discounts, the price rounded to the penny |
| `ProductGraph` | the graph of `catalogue_app.py` | operators: `LoadGraph` (one edge per ordered pair, the last declaration wins, as in the code's `DiGraph`), `Conflicting`, `IsCombinationValid`, `CompatibleCandidates` |
| `OfferEngine` | `POST /compatible-offers` | operators: `HeldSkus`, `ProposedLine`, `Delta`, `CompatibleOffers` |
| `BillingSor` | `billing_app.py` | `book`, `price`, and the handlers (`work`); an update is `UpdateLine` and `Capture`; an addition is `AddStart` (copy and check), `FetchPrice`, `AddCommit`, `Capture`; a recalculation `RecalcStart`, `FetchPrice`, `RecalcFirst`, `Emit`, `RecalcNext`, `RecalcDone` |
| `ActionBroker` | `action_broker_app.py`, `authz.rego`, `data.json`, composed with Billing and the catalogue | `chain`, `audit`; the steps of the governance chain and its faults; `UpdateProduct` and `AnnounceProduct` are the catalogue's handler |
| `SubscriptionProperties` | the properties of the path | |
| `SerialIntents` | what it promises to a client that sends the intents for a customer one at a time | `overtaken` (history: the customers whose last intent was sent while a write was outstanding) |
| `BillingProofs` | lemmas about the discount engine and the lines of a record | |
| `SubscriptionProofs` | theorems of the path | |
| `SerialIntentProofs` | theorems about serial customers | |
| `MCSubscriptions` | the instance for TLC: three related products, two customers | |
| `Journeys` | `purchase_journey.py`, `pricing_journey.py`, composed with the write path and the Offer Engine | `script` (each script's program counter, snapshot, and the handler it waits for); `sent` and `listed`, what a read of the cache may find; one action per call or local decision of a script |
| `JourneyProperties` | what the scripts and the offers promise | |
| `JourneyProofs` | the invariant that scripts and handlers share, and what the offers promise | |
| `JourneyOutcomeProofs` | theorems of what a journey has brought about when it ends | |
| `MCJourneys` | the instance for TLC | |

`Scenarios` names which scripts run together. A call of a script starts a handler at the broker,
or for the restoration of a charge at Billing, and sets `task`; the handler's last step (`Learn`)
hands over the answer. `ClientTimeout` lets go of the handler, which goes on. `clean` and `before`
are history: whether a call failed or was given up, and the book at the start.

The two paths meet in Billing and the catalogue. They are composed by what they share, not
by one product model: `SorFeeds` takes a write as a new revision whose event travels on its
own, and `BillingSor` takes the event as a call that succeeds or fails. Neither path reads
state of the other: CDC never calls Billing, and Billing uses of CDC's answer only whether
there was one. Of the context path `Journeys` needs the one record that a script reads. Enrichments
read, wait for the catalogue and write back, and fan-outs run in the background
(`CdcAssembly` has their steps), so that an older record or price may be the last to land. Nothing
is therefore assumed of the cache but this: what it answers was sent by Billing at some time
(`sent`, a record for each event of the buyer that may have arrived), each line at its own list price
or at any that its product has had (`listed`; lines are priced one by one, and an enrichment in which the
catalogue does not answer leaves a line as it was). `ReadRecord` picks any such record. What
the journeys promise is shown for every cache of this kind, and nothing is claimed about the cache itself:
whether it comes to follow the catalogue is the question of the run `converges`.

A serial customer's client waits for the broker's answer and sends its next intent then (`Busy`
looks at the broker's chains only). An answer 502 frees it although the handler which the broker gave up may
still have its write to do. An intent sent in that moment is decided on a record that the late write
then changes: a cancellation that lands late takes away the prerequisite of an addition that was
checked before, and an addition that lands late writes its copy over the cancellation of after. Both are
real, and TLC finds them at once when the exception is left out. `overtaken` marks the customer from
such an intent to the next one that is sent when nothing is outstanding; the two serial
properties speak of the customers that are not marked.

Abstractions worth knowing. `disturbed` of `ContextRetrieval` is history: a join timed out *early*, a
call failed after its handler had begun, the event of a product was lost (the catalogue does not send it
again), or CDC or the cache restarted. Early means that a domain of the customer was
still to be sent or being handled, or that its record existed already. A join that times out
because nothing will ever complete it is not excused, so a lost event or a forgotten retry
still shows in the properties that are stated for undisturbed behaviours. The awaited log calls are no steps: their failures are swallowed
and nothing reads the log. Prices are pennies and discounts whole percentages; `ToThePenny` is the
code's `round(..., 2)`, except that half a penny goes up in the model while in the code the float
next to it decides. Under the policies of `discounts.yaml` half a penny arises only from a list
price that is an odd multiple of five pennies, which none in `catalogue.yaml` is. The proofs
need of the rounding only that it is monotonic (`PenniesOrderly`). A payload that does
not fit its route may accompany any intent (`RejectPayload` is enabled for all of them).
`issued`, `written`, `acked` and `opened` are history the code does not keep (`opened` stands
for the fresh correlation id of each join).

## 5. Runs

Passing runs:

| Run | Question | Properties |
|---|---|---|
| `assembly_faults` | two customers, two tasks, joins that time out, any single fault | `TypeOK`, `PendingIsPartial`, `AssemblyHasOneOwner`, `DeclaredBodies`, `TiersAgree`, `VersionAdvances` |
| `joins_timely` | three tasks, lost, late and unanswered calls, no join times out | `RecordsComplete`, `AckedDomainsHeld` |
| `profile_kept` | three tasks, clients that wait for each answer before they write the same record again | `ProfileKept`, `ProfileImplementsLastKnown` |
| `converges` | three tasks, joins that time out, a price change, any single failure or restart, under fairness | `StartupConvergesUndisturbed`, `JoinsEnd`, `TasksEnd` |
| `retrievals` | both retrieval plans while two tasks assemble, enrich and re-capture a record | `AnswersWhole`, `ReadsAdvance`, `FoundOnceAcked` |
| `subscriptions` | three intents, permitted or not, two at a time, one serial and one overlapping customer, any single failure, the broker's timeout included | `TypeOK`, `OneLinePerSku`, `AuditTruthful`, `OnlyPermittedWrites`, `WritesAudited`, `AdditionsValid`, `SerialChangesKept`, `ChargesFollowPolicies` |
| `journeys` | both scripts at the same time, each as permitted or unpermitted client, reading older records and prices, no failure | `OffersAccepted`, `PurchaseUndone`, `PriceRestored`, `RecalculationReaches`, `NeverAboveOffer` |
| `journey_faults` | either script and any two of six kinds of failure, under fairness | `JTypeOK`, `IntentsEnd`, `JourneysEnd` |

What they show. Whatever happens, the pending store and the cache stay consistent: ownership
of a join is never shared although the checker pops from a list it made earlier, and the two
tiers never drift although they merge and count separately. What `_pending_lock` does not guard
holds only under conditions, and the runs name them: `RecordsComplete` needs `Timely` (no join
outlives its 30 seconds), because a timeout write may meet any record; `ProfileKept` also needs
`SerialClients`, since events of one record posted concurrently may be applied in either order.
On the write path `OneLinePerSku` is the pleasant surprise: the check for a duplicate is stale by
the time the line is written, but since the *copy* is written back, an overlapping addition
is overwritten instead of doubled — the same mechanism that loses changes in `change_lost`.
`AdditionsValid` and `SerialChangesKept` hold for a client that sends one intent at a time, with the one
exception of section 4: the intent it sends after a 502 while the abandoned write is still to come. Of
a record they compare products and status; a list price or a charge that a recalculation wrote while an
addition waited is undone by the addition, for a serial customer too.

`StartupConvergesUndisturbed` says that the startup emissions converge whatever requests are lost, time out or
are sent again, with a price update at any moment, and names what may prevent it: a join that times out
early, a call of the service that fails, a restart, a price event that is lost, and an enrichment that at some moment
holds a price already superseded, and may therefore be the last to write it.

For a reader of the gateway the second read does no harm: whatever is written between the miss of
the hot cache and the read of the permanent store, a packet is whole (`AnswersWhole`) and
never older than the one before (`ReadsAdvance`), as long as the assembly was not disturbed. For a
buyer, the three copies of the portfolio agree well enough: an offer is refused only if the product
lacks what it requires among the active lines and has it among the suspended or cancelled ones
(`RequiresLapsed`; the Offer Engine counts every line as held, the broker the active ones), although it is made on
a cached record of any age and checked at Billing with the price journey running. The buyer of `MCJourneys`
has a suspended line for this reason, and an add-on that would do with it as well as with the active package.
(With a seed in which the package is suspended instead, the offer of the add-on is refused: without the exception
`OffersAccepted` fails there, with it it holds.)

`NeverAboveOffer` is about the bill after a purchase at the terms of an offer that was made on the record
Billing has and at the price it finds: it is no higher than what the policies make of that record
plus the announced change, because the proposed line never counts towards the threshold. The bill
*before* the purchase may be lower than what the policies make of the record, as after a cancelled purchase
(`charges_restored`); the purchase evaluates all lines again, and the bill then rises by more than was
announced. A stale record or a changed price may break the promise too, and are what the conditions of
`AsOffered` leave out. `RecalculationReaches` is about the records of Billing; when they reach the cache is
another matter. It leaves out the customer who buys meanwhile: the addition may write an older copy over the
recalculated one.

Runs that expect a violation (section 9 explains them): `complete_but_missing`,
`enrichment_overwrites`, `change_lost`, `charges_restored`.

Each property of a passing run has a mutant in `PROJECT.json`: a plausible bug in one mapped
definition (a lock section that reads instead of pops, a merge hint forgotten, a deque that
refuses instead of dropping) under which TLC finds the property violated.

## 6. Bounds

* `Tasks` (2 or 3) bounds what is in flight at once. Every interleaving hazard of the
  code involves two handlers of one customer, or one and the checker (which is not counted);
  the third task lets a join, an upsert and a fan-out meet.
* `Customers`: records of different customers share only the checker's list and the
  fan-out's list; two customers exercise both (`assembly_faults`), one suffices elsewhere.
* `MaxRev` 2 tells a newer revision from an older one; `MaxPrice` 2 and `MaxRecaptures` 1
  likewise. With `MaxRev` 1 every startup event repeats the only revision.
* `MaxFaults` 1 or 2: one fault at every possible step, and a second one during the recovery
  from the first where retries matter. It stays below ten, so the tenth attempt of a startup
  task, after which it gives up, is never reached.
* `MaxIntents` 3 lets a cancellation, an addition and a recalculation of one customer meet, or
  a handler the broker gave up write while the next intent is governed; `Requests`
  has a client of each kind and one kind of intent that is denied, and recalculations are asked for
  products that can be repriced. `AuditMax` 1 (200 in the code) makes the deque overflow
  within them. In the journeys the scripts submit, so `Requests` and `MaxIntents` are empty.
* Three tasks in `journeys` let each script have a call in flight; in `journey_faults` they let two
  abandoned handlers still write while the third serves the script. Both runs have two customers
  who hold the repriced product, one of them over the threshold, so that a recalculation and a
  restoration have a middle, and `PricedAt` 39.99 takes the second one back under it. The other one, the
  buyer, also has a suspended line. A purchase carries the buyer over the threshold.
* `retrievals` has one agent: agents share nothing but the cache, which none of them writes.
* The catalogue of `MCSubscriptions` has an upgrade path and an alternative prerequisite, and
  prices (59.97, 59.97, 49.99) such that a package and the add-on cross the 100-pound threshold until
  the package is repriced to 39.99, and such that every discount has to be rounded.

Symmetry over tasks and customers is used in the runs without liveness properties.

## 7. Fairness

`FairSpec` of `CdcAssembly` assumes weak fairness of each task's handler (asyncio runs every
ready coroutine, and every HTTP call ends with an answer or a client timeout), of the startup
tasks (created in `lifespan`, retried with a backoff), of the checker (a loop with a 5 second
sleep) and of the passing of 30 seconds. Nobody has to submit anything and no fault has to
occur. `JFairSpec` of `Journeys` assumes weak fairness of each handler and of
each script, which are processes of their own with a timeout on every call. `RFairSpec` is the
fairness of `CdcAssembly`: nobody has to read. Strong fairness is not used.

## 8. Proofs

The theorems hold for any sets of customers, tasks and products, any bounds and any combination
of fault kinds, from the named assumptions on the constants alone: `SorBounds` and
`AssemblyParameters` of the context path (types and bounds), `PlansAreDeclared` of the gateway,
`SeedParameters` of Billing (the seed file gives every customer well-formed lines, one per product),
`BrokerParameters` (bounds, and a graph the catalogue's loader accepts) and `CatalogueParameters` of the broker (list prices and repricings are natural numbers, requests name
declared intents and clients of the policy), and of the journeys `JourneyParameters` (the scripts
call under declared clients, for a known customer and product), `OfferParameters` (the catalogue lists
every product, with at least one term) and `SeedAgrees` (`seed/billing.yaml` has each line at the list
price of `product/catalogue.yaml`, charges each active one by `rules/discounts.yaml` and has none that is
cancelled, as the files are). Only `RecalculationsReach` uses `SeedAgrees`: a recalculation reaches the
customers whose line of the product is at another price, and a line that was wrong from the start and
happened to be at the new price would be passed over. Where a property needs more, the theorem says so in
its `ASSUME`. `PROJECT.json` lists them all with the property each states. Every invariant below was
checked by TLC on the instance of a run before it was proved.

### The context path, whatever happens

* `CdcSafetyProofs!TypeCorrect`: `Spec => []TypeOK`. `TypeOK` is not inductive: that a write
  keeps the cache typed needs to know that a task about to write works for a customer, and that
  a task in an enrichment holds a `commercial_state`. `IInv == TypeOK /\ JobsFit` adds this;
  the proof has one lemma per group of actions (`RequestStep`, `LookupStep`, `UpsertStep`, ...)
  resting on lemmas about the operators (`UpdateIsRecord`, `StoredIsStored`, `MergeIsRecord`, ...).
* `CdcSafetyProofs!TiersAlwaysAgree`: inductive by itself, as every write
  applies one function of (record, body, hint) to both tiers (`CacheStep`: the cache changes by a
  write, a restart or not at all).
* `CdcSafetyProofs!VersionsAdvance`: an action property, from `IInv` (a stored record has a
  version) and `StoredVersion`.
* `CdcSafetyProofs!BodiesAlwaysDeclared`: from `IInv`, which types the bodies down to the keys of
  their field groups: what is read for an enrichment is a group the cache validated when it
  was stored, and only the group goes back, never the version the cache has added to the record.
* `CdcSafetyProofs!PendingAlwaysPartial`: inductive with `IInv`.
* `CdcSafetyProofs!JoinsHaveOneOwner`: the invariant only says that
  owners of a customer's joins hold different ids; for the step that opens a join one must know
  that its id is new. `OwnershipInv == IInv /\ IdsGivenOut /\ AssemblyHasOneOwner`, where
  `IdsGivenOut` bounds every id in use by the number of joins opened.

### The context path, under conditions

* `CdcSafetyProofs!RecordsStayComplete`, for `Undisturbed` instances (`Timely`, and the cache does
  not restart). That the cache holds whole records only rests on what every task is about to
  write, and that on the record still being there which the task saw when it looked.
  `DeliveryInv` adds this to `IInv`: `Delivers(t)` says what task `t` carries towards the cache in each
  of its labels, `NoTimeout` that no join is due and the checker sleeps. The step lemmas ask
  only that *this* step is no timeout and no restart of the cache (`Calm`).
* `CdcSafetyProofs!AckedDomainsStayHeld`, for `NothingLost` instances (also no failing call of the
  service to the cache, and no restart of it). A domain is held by a record, an open join or a
  join being written; `HoldsOn` says that no step takes it out of all three, and that
  nothing is confirmed to a system of record before it is in one of them.
* `CdcSerialProofs!ProfileFollowsCrm`: for instances that are `Serially` used (`Undisturbed`, serial
  clients), `Spec` implements `LastKnownState` under the refinement mapping of `CdcProperties`:
  initial states map to initial ones, and each step commits a revision, moves the known one forward
  to something committed, or stutters. `SerialInv` adds to `DeliveryInv` that at most one task handles a
  customer's domain and carries the revision committed last (`Senders`), and that what tasks and
  joins carry is not older than what the record holds (`ProfileInv`).
* `CdcSerialProofs!AckedProfilesAreKept`: from the same invariant, with `NothingLost`, no
  acknowledged profile is lost. The same is not claimed of the other field group, for which the run
  `enrichment_overwrites` shows it false.

### The gateway

Reads write nothing, so `RSpec => Spec`, and what is proved of the assembly holds under the
gateway (`AlwaysAssembled`).

* `RetrievalProofs!AnswersAlwaysWhole` and `ConfirmedAreFound` hold without any condition on the constants:
  the history variable `disturbed` of the properties takes its place. While it is `FALSE`, every
  domain of every customer is still to be emitted by a startup task or is held, and an acknowledged
  one is held (`Accounted`). Hence a join that is open while nothing of its customer is still to
  come would have both domains, which `PendingIsPartial` excludes: `LateJoinsAreOver`, no join
  times out at all. So each undisturbed step is one of those for which `CalmStep` and `HoldsStep` of
  `CdcSafetyProofs` were proved, and `DeliveryInv` is preserved where it matters.
* `RetrievalProofs!ReadsNeverGoBack`, while the cache does not restart. `LastRead` relates the last
  packet to the record it came from: it still exists, at the packet's version or a later one, and
  at the same version its context is the packet's (`Served`).

### The write path

* `BillingProofs` states what the discount engine and the operations on lines do:
  `DiscountBounded` (with one line per product a product's discounts add up to 0, 10 or 20 per
  cent, so no charge is negative), `AlikeDiscounts` (the discounts depend on the sku, the status, the
  list price and the term of the lines), `ReevaluatedLines`, `AppendedLine`, `RepricedLines`,
  `UpdatedLines`.
* `SubscriptionProofs` has one invariant, `IInv`, for `RecordsWellTyped`, `OneLineEach`,
  `WritesPermitted`, `AuditTells`, `EveryWriteAudited` and `RepricingConsistent`. It follows an
  intent's id from the chain to the handler, to the ids that were written and to the audit log: a chain
  carries the intent submitted with its id and passes the permission only if the policies allow it
  (`ChainFits`); nothing is written or handled for an id that was not forwarded (`Unforwarded`), and no
  two chains share one; a handler works for an allowed intent, and reports success only for what
  it has written (`WorkFits`); an entry of the log was true when it was made and stays true
  (`AuditFits`). That the stale check for a duplicate does no harm is
  `ProgressFits`: an addition that waits for its price holds a *copy* without the product, and
  the copy is what it writes back.
  Handlers that Billing was asked for directly, as a teardown does, have no id of the broker; the
  invariant lets them in (id 0, always an update), so it holds under `JSpec` too.
* `SerialIntentProofs!VerdictsHold` and `SerialWritesKeep` are about customers whose intents
  are sent one at a time. `SerialInv` adds to `IInv` that a customer who is not `overtaken` occupies one task
  (`OneAtATime`: an intent at the broker, or a write still to come at Billing), that of a record which an addition
  copied only list prices and charges have changed since (`CopiesCurrent`; a recalculation may overlap), and that
  the catalogue's verdict is about the products the customer still has (`VerdictsStand`). That the broker may
  give a handler up at any moment costs the proof nothing but the exception: an abandoned handler occupies its
  task until it has written, and the next intent either finds none or marks the customer.

### The journeys

All of it holds for any catalogue, any customers and portfolios, any number of handlers and of faults, and with
one script or both.

* `JourneyProofs` has one invariant, `JInv`, that the other theorems start from. Next to `IInv` and the types
  it says whose every handler is. `Linked`: a broker's chain waits for the request of its own
  intent. `Staged`: a handler is at a step of its own operation. `Accounted`: a handler at work
  is the one its script waits for, or something has failed. `Awaited`: what a script waits for carries what the script
  asked for at this point. Without `Accounted` a late purchase could be taken for the present one;
  without `Linked` nothing that Billing does says anything of the script.
  The services' steps are classified once (`ServiceSteps`: a handler goes on, or ends with an answer)
  and the script's once (`LocalKeeps`, `CallKeeps`). From it: `ScriptsWellTyped` and `JourneysKeepRecords`.
* `JourneyProofs!OffersKept`, that an offer never promises too much, is about two evaluations of
  the discounts: Billing's, over a line with a list price, and the Offer Engine's, over one without. `Dearer` relates
  the two portfolios, `DearerDiscounts` shows that a discount the offer has the bill has too, and
  `DearerPrices` that the total is therefore no higher, line by line, as the rounding is monotonic. `OffersMade` says of the first offer what the choice
  of the candidates guarantees: it is for a product not held, valid with those that are, at a term the catalogue has.
* `JourneyOutcomeProofs!PurchasesUndone`. `Undoing` says for each label of the script whether the buyer
  has the products of the beginning (`Unbought`) or also the bought one (`Gained`), and while the script
  waits, which of them by the stage of its handler. The *copy* an addition holds has the products of the
  beginning: a recalculation that overlaps may be overwritten but changes no status, and the
  handlers of the other script never change the products of the buyer (`HandlerSteps`, `Similar`).
* `JourneyOutcomeProofs!OffersBought`. Until the addition commits, the record of the buyer and every one
  that was sent or is about to be have the products of the seed (`Undisturbed`), however often they are
  repriced, and so has whatever the cache may answer (`ListedSeed`): the three verdicts are about the same products.
  `SeedOffers` compares them: a candidate that the catalogue finds valid among all lines is valid among the active
  ones, or lacks a requirement that a lapsed line meets.
* `JourneyOutcomeProofs!PricesRestored`. `Restored` says of each customer that the charge is noted and due, being
  sent, or back; `PriceSent` that the price is on its way or restored. Recalculations in between
  may change anything but the snapshot; a restoration meets no recalculation, as every handler of a clean
  script is the one it waits for.
* `JourneyOutcomeProofs!RecalculationsReach`. `Reaching` follows the recalculation: before it every holder
  is to be found (`Unreached`); in the middle every customer is in the handler's list, settled, or the one whose event
  is being sent (`Progress`); at the end everybody is settled: at the price of the catalogue and charged by the
  policies.

### Sums, sequences and recursion

The operators the proofs reason about are written with functions and folds. Where the argument is an induction over
numbers or finite sets, it is made by the least counterexample, which needs no operator as a
parameter: `SumTyped` (a sum over any portfolio is a number), `SumGrows` (and no higher than a sum of
larger terms) and `FlattenExists` (what the library's flattening of a sequence of sequences contains) are proved in this way.

### Only model-checked

All liveness (`StartupConvergesUndisturbed`, `JoinsEnd`, `TasksEnd`, `IntentsEnd`, `JourneysEnd`), which
is beyond the prover. Every invariant and action property of the passing runs has
a theorem. `CommercialStateKept` and the other expected violations are false.

## 9. Where code and documents part

Found by TLC, with a run each:

* `complete_but_missing` — after a join timed out, the late domain's upsert makes the record
  "complete" and leaves `missing_domains` as the timeout wrote it, so that a packet contradicts
  itself. (The same property fails when the checker's *full* write replaces a record that a
  handler wrote meanwhile: a join opened by a handler that had missed the cache just before the
  record was written strands its revision in `_pending`, and its timeout wipes the other domain.)
* `enrichment_overwrites` — an enrichment that read the record before a newer billing event was
  stored, and writes after it, restores the older `commercial_state`.
* `change_lost` — a cancellation acknowledged while an addition for the same customer waits for
  the catalogue is undone when the addition writes its copy back.
* `charges_restored` — both journeys end with "State restored — safe to run again". The purchase
  takes the portfolio over the threshold and its teardown takes it back, but an update never
  evaluates the discounts: the other lines keep the discount. The pricing journey, run in the
  same configuration with `Scenarios` `{{"pricing"}}`, restores the charge of the repriced product
  and not those of the lines whose discount the recalculation had changed.

Met while modelling, without a run, because they happen on a plain sequence of calls or are a
matter of wording:

* A merge replaces `provenance` by that of the last domain; a record that holds both domains can be stored as
  `awaiting_<domain>` when two upserts overlap, and as `complete` with one domain when it is
  replaced in between.
* A failed PUT of a completed join loses domains that were acknowledged: the join has left
  `_pending` (`AckedDomainsHeld` holds only while no cache call fails before it is applied).
* The timeout checker may evict a join opened after its scan, before its 30 seconds.
* An older list price can land after a newer one when two enrichments of a record overlap, and an older
  charge after a recalculated one: the cache may differ from the catalogue and Billing until the next event.
  A price event that is lost is not sent again.
* Billing answers 500 when the capture fails, and the broker 502 when it loses patience: an intent that is audited
  as an error may have taken effect, or may still do so.
* The discount summary of CDC reads `monthly_charge` where the ontology names
  `monthly_charge_gbp`: it is always empty (`cdc_app.py:254`). `pricing_journey.py:481` reads a field
  `total_discounted_monthly_gbp` of it that nothing writes.
* An enrichment renews `_meta.assembled_at` of a `commercial_state` Billing has not confirmed, so the
  gateway's freshness label starts anew with every change of the catalogue.
* After a restart of the cache in the middle of an enrichment, the record is stored without an
  `assembly_state`, and the gateway's default calls it "complete" (`acg_app.py:202`).
* `acg_app.py` calls a double miss a "genuinely unknown" customer for whom no event was ever
  emitted; a customer whose join is pending is missed as well (`FoundOnceAcked` says from when on
  a customer is found).
* The broker describes itself as auditing an intent "before being forwarded to the target SoR";
  the record is made after the write, and a payload answered 422 is not audited at all.
* The combination check fails open, is made against a portfolio that may have changed when the
  line is written (`AdditionsValid` therefore speaks of serial customers, and not of an intent
  sent after a 502 while the abandoned write is still to come), ignores suspended
  lines and does not look at cancellations: cancelling a prerequisite leaves an invalid
  portfolio. A cancellation does not evaluate the discounts again either, so the other lines
  keep a threshold discount they no longer earn.
* A recalculation carries the list price it read at its start through all of its customers; a
  second price change and recalculation may overtake it.
* `_validate_no_conflicts` promises to reject a pair declared both compatible and incompatible;
  when both declarations name the pair in the same order, the graph keeps only the last one
  and nothing is rejected.
* The catalogue describes its candidates as pre-filtered to the valid ones; it returns all with a
  `valid` flag. The Offer Engine leaves the candidate's list price out of the threshold, so that the policies
  an offer names are not always those "that would newly fire" (`ontology.py:712`), and counts
  suspended and cancelled lines as held (`ontology.py:636` says "all active subscriptions"): a product bought and
  cancelled is not offered again, so that the purchase journey runs out of products; and one whose
  only prerequisite is suspended is offered and then refused by the broker (customer C003 of the seed has a
  suspended line, on which no product depends).
* The change an offer announces is the difference of two evaluations at list prices. A customer who
  still has a discount that a cancelled purchase earned is billed more than that for the next one.
* The plan speaks of "upgrade-path products" (`ontology.py:598`); a product one of whose predecessors
  is held is an invalid combination with it, and is never offered.
* A purchase that Billing wrote but answered with an error, or after the script's patience, is not
  undone: the teardown knows of confirmed purchases only (`PurchaseUndone` speaks of clean runs).
* A price update the script no longer waits for may overtake the teardown's restoration.
* A reload of the catalogue restores its prices without an event; the reload of the Offer Engine
  replaces the policies of its own process and not those of Billing.
* A per-product policy is entered once per line in a list kept per product: two lines of one
  product would each get it twice. `OneLinePerSku` shows that no two lines arise.

## 10. Not modelled

* The MCP transport of the ACG, its tool schemas and descriptions; the freshness label, which is
  a function of the clock; the Offer Engine's `POST /proposals`, which compares two portfolios
  with the same `Delta`.
* An addition of a line that is not active, a change of contract terms, intents for unknown
  customers or products: single-step variants of modelled handlers that end in the same states
  or in a refusal.
* Reloading `discounts.yaml` or another graph (the policies and the graph are constants) and loading
  other YAML files. Which payloads fit their route: `RejectPayload` may meet any intent.
* Tokens (`auth.py`): a library's signature check; a caller in the model holds a valid token.
* The log service: a list that only receives.
* Seed loader, shell scripts, UI: clients of the endpoints.
* Field transforms, formatting and introspection endpoints: no state, no control.

## 11. Plan

Done: the context path, the retrievals over it, the write path, the Offer Engine and the journeys
(modules and runs), and the theorems of section 8.

What could follow, in this order:

1. The payload schemas: that the tool schemas of the gateway admit what the broker accepts.
2. Reloading `discounts.yaml` in one of the two services that use it: which of the offers' promises
   survive when the policies of the Offer Engine and of Billing differ.
3. A refinement from the write path to a ledger of permitted changes, so that the audit theorems
   become one.
