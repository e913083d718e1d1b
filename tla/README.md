# zenday1 in TLA+

The repository is a collection of small Python programs around one subject:
products of the Kroger shop, their prices, their nutrition, and putting them in
a cart. It has no documentation and no tests; a few programs exist in several
editions. Seven of them keep state that several threads, coroutines or processes
share, and one leaves files that its later runs rely on. Those are what this
development is about: TLA+ modules for them, TLC runs on small instances, and
TLAPS proofs for all instances.

Contents: [inventory](#1-inventory), [modules](#2-modules-and-how-they-follow-the-code),
[runs](#3-runs-what-each-checks-and-shows), [proofs](#4-proofs),
[where the code disagrees with itself](#5-where-the-code-disagrees-with-itself),
[limits](#6-only-model-checked-not-modelled), [plan](#7-plan),
[use](#8-running-the-checks).

## 1. Inventory

Components do not call each other: they are separate programs. What interacts
is inside each one, and with the services outside (the Kroger API, a browser, a
FAISS index, a database file).

### 1.1 Price tracker: `src/app.py`

* State: table `products` (one row per product, the lowest price seen), table
  `price_history` (a row per quote), both in the SQLite file `zenday.db`; a
  scheduler per process.
* Operations: the job `monitor_watched_products` (182-195), which gets a token,
  finds a store, and for each watched product fetches a quote and runs
  `process_product_data` (148-180): query, decide, add, commit, print an alert.
  The three GET routes only read.
* Hard: `app.run(debug=True)` starts the file reloader, so the module, and with
  it the scheduler, runs in two processes on one database. The row is queried
  and compared before the transaction that writes it begins. Columns are NOT
  NULL but quotes may lack prices. The process may die between the commit and
  the alert. `requests` is given no timeout.
* Correct if: products and history agree; a discovery is announced once; an
  alert is never given for something that was not stored; with one process, the
  stored row is the cheapest quote ever, alerts fall, and what is stored was
  announced.

### 1.2 Playwright automation API: `src/Downloads/f22/loo.py`

* State: one dictionary `operation_status`; the browser of each task.
* Operations: `/kroger/add-to-cart` and `/kroger/cart/clear` start a background
  task if the status is in a list of idle ones; `/kroger/product/details` and
  `/kroger/search/results` drive a browser within the request; `/kroger/reset`.
  Tasks log in (`login_to_kroger`), search and add, or open the cart and remove.
* Hard: the status is a log, an answer and a lock at once. Everything runs in
  one event loop, so other coroutines interleave at every `await`; look-ups and
  resets write the status without looking at it; there are some thirty ways for
  a task to end, each of which must leave a status that lets the next one in.
* Correct if: no two tasks work on the account at a time; every task ends and
  leaves a status that admits the next.

### 1.3 Selenium automation API with proxies: `src/Downloads/app.py`

* State: `operation_status` per browser, the global `PROXY_LIST`.
* Operations: add-to-cart (guarded as above), reset, add/remove proxy,
  `test_proxy`, which replaces the proxy list by the one under test, queues an
  automation task, and queues `restore_proxies` behind it.
* Hard: tasks are plain functions and run in worker threads. `test_proxy` does
  not ask the status. A task learns its own result from the shared status after
  the slow `driver.quit()`. The list is saved by one request and put back by a
  background function much later.
* Correct if: the status works as a lock; a browser in which nothing runs always
  accepts a task; proxy tests leave the list as they found it and test the proxy
  they were asked to.

### 1.4 Semantic product index: `src/gen2.py` and six editions

* State: a FAISS index, the list `product_metadata` with the product of every
  vector, the flag `index_is_empty`.
* Operations: upload (add vectors, clear the flag, extend the list), vector
  search. `src/ml.py` is the same text; `gen1.py`, `gen3.py`, `gen5.py` (tkinter)
  and `gemini-kroger.alpha.py`/`.beta.py` (PyQt) repeat the two functions. Other
  routes only forward to Kroger and render.
* Hard: Flask runs each request in a thread; the three writes are separate.
  FAISS pads a short answer with -1.
* Correct if: position i of the list is the product of vector i; a search
  answers the products of the vectors it found.
* Also seen: `gen1.py` raises NameError on upload (its `embedding_model` is
  commented out); in `gen3.py` the route function `index` rebinds the global
  `index`, so uploads raise AttributeError; in `gen2.py` the first `app.run`
  (244-245) blocks before the upload and search routes are registered when the
  file is run as a script, so they exist only when a WSGI server imports it.

### 1.5 Character RNN server: `src/ml1.py`

* State: ten globals (`meal_data`, `chars`, `vocab_size`, `char_to_ix`,
  `ix_to_char` and five weight matrices) and the file `rnn_model.pkl`.
* Operations: rebuild the vocabulary and the weights from scraped or PubMed text
  and train (266-284, 141-175), train on the current text (259-262), and two
  routes that load the weights from the file and generate a plan (112-136,
  287-298).
* Hard: threads train and generate on the same globals, which are assigned one
  after the other; `-=` on a global is a load and a store; the file keeps the
  weights and not the vocabulary, and is truncated before it is written.
* Correct if: vocabulary, weights and file are of one text whenever one is used
  with another; a server with a sound model serves; a training ends.

### 1.6 Two programs that report without looking

`src/Downloads/PythonApplication3.py` (a first Selenium API) and
`src/kroger.beta.fastapi.py` (a cart API behind OAuth).

* State: one status with a message; in the first, the browser of each task.
* Operations: add-to-cart, in the first as a background task in a worker thread
  (46-136), in the second as a remote call within the request (120-135); reset
  in the second (141-144).
* Hard: nothing asks the status before a task begins, so tasks report over each
  other; the first writes status and message as two stores, and a task reads its
  own result from the shared status after the slow `driver.quit()`.
* Correct if: what the status says can be trusted where it can be, namely when
  nothing is at work or no second request has come; browsers are closed.

### 1.7 LSTM meal planners: `src/lstm/lstm995.py` and its editions

* State: three files: `sample_products.jsonl`, `off_lstm_model.pt`,
  `off_vocab.json`. A run begins and ends with nothing else.
* Operations: download a sample (745-803), fetch from the search API (363-507),
  load the sample (669-739), train, save (895-929). `score_product` (87-113)
  decides which products are trained on; the same function is in `lstm8`, `lstm9`,
  `lstm99`, `lstm9951`, `lstm995155` and `nut.facts.ml`.
* Hard: the sample is filled line by line under its final name; model and
  vocabulary are saved one after the other; a run of 3000 epochs is likely to be
  killed.
* Correct if: the files on disk fit each other; the sample is what was asked for;
  a product that is as good as can be is used.

### 1.8 Others

| Component | Files | Remark |
|---|---|---|
| Draft of the Playwright API | `src/Downloads/f/loo.py` | does not parse; 1.2 is its successor |
| Meal planner page | `src/gen4.py` | stateless routes |
| Crawling editions of 1.7 | `lstm/lstm8.py`, `lstm9.py`, `lstm99.py`, `lstm9951.py`, `lstm995155.py`, `nut.facts.ml.py` | one loop over pages; whatever they find is graded by `score_product` |
| Other training scripts | `src/jki.py`, `kroger.alpha.py`, `lstm/lstm.py` | run once from top to bottom; no file that a later run reads |
| Glucose classifiers | `src/gfood1.py`, `gfood21.py`, `gfood3.py`, `nut.facts.py` | one-shot scripts |
| Shufersal scrapers | `src/Downloads/shufersal.py`, `shufersal2.py`, `4.py` | one-shot downloads and stateless routes |
| Vendored code, CI, editor history | `src/pytorch`, `src/venv`, `src/.vscode`, `src/.config`, `src/.github` | third-party or generated; 1.12 of the 1.135 million lines of the repository |

The hazards of all these, each at its line, are listed in `PROJECT.json`.

## 2. Modules and how they follow the code

| Module | Models | Code |
|---|---|---|
| `PriceLedger` | what 1.1 promises: a log of quotes and the cheapest of them, changed together; and what is left of it when several processes share it | the effect of `process_product_data` |
| `PriceTracker` | 1.1 step by step, any number of processes | `src/app.py` |
| `PriceTrackerProofs`, `PriceTrackerAlertProofs` | theorems | |
| `TaskLock` | what the guard of add-to-cart promises in 1.2 and 1.3: a lock that can be undermined | `src/Downloads/app.py`, `src/Downloads/f22/loo.py` |
| `AutomationApi` | 1.2 from await to await | `src/Downloads/f22/loo.py` |
| `AutomationApiProofs` | theorems | |
| `SeleniumApi` | 1.3, one step per access to shared state | `src/Downloads/app.py` |
| `SeleniumApiProofs` | theorems | |
| `SemanticIndex` | 1.4, one step per access to shared state | `src/gen2.py` 426-483 |
| `SemanticIndexProofs` | theorems | |
| `RnnServer` | 1.5, one step per assignment of a global | `src/ml1.py` |
| `RnnServerProofs` | theorems | |
| `UnguardedStatus` | both programs of 1.6, one step per store | `PythonApplication3.py`, `kroger.beta.fastapi.py` |
| `UnguardedStatusProofs` | theorems | |
| `NutritionScore` | `score_product` over rational values | `src/lstm/lstm995.py` 81-113 |
| `MealPlanTrainer` | 1.7, any number of runs and kills in one directory | `src/lstm/lstm995.py` |
| `MealPlanTrainerProofs` | theorems | |
| `MC...` | values of constants for TLC | |

`PROJECT.json` ("map") gives the lines of every definition. Definitions whose
comment begins "Mutant of" are not part of the model: each is a plausible
mistake in one definition, kept to show that a property notices it.

**PriceTracker.** `product` and `history` are the tables; `pc`, `turn`, `quote`
and `existing` are the locals of a running job. `StartPoll` is the scheduler,
`GetAccessToken`, `FetchNearestLocation` and `FetchProduct` the remote calls with
their failures, `QueryProduct`, `Commit`/`CommitFails` and `Announce` the parts of
`process_product_data` between which another process can write. A query takes no
lock that outlives it, so `existing` may be stale; SQLAlchemy updates only the
columns that differ from what it loaded (`Updated`), and flushes and commits as
one transaction. `Accepted` is the schema: NOT NULL, primary key. `Crash` kills
the process at any step. Not kept: names, categories, timestamps.

**PriceLedger.** `Record` is `process_product_data` as its text reads: one quote is
logged and kept if it is the cheapest. `SharedRecord` is what it still does when the
row it decides on may be stale: the first quote is inserted (`Insert`), a later one
leaves the row (`Keep`), or lowers it to its own price because it is cheaper than some
row that was once kept (`Lower`), perhaps without the regular price that goes with it.

**AutomationApi.** The code between two awaits is one action and `pc[j]` names the
await. `Job` are the requests under way. `undermined` is an observation, not state
of the program: a write of the status by somebody other than a working task, or
an idle status written by a task that goes on working, sets it; the next task
admitted while nobody works clears it. `ListButtons`, `ClickAdd` and `ConfirmAdd`
are the loop over the buttons with its ways to go on; `Raise` and `ReportFailure`
are the two `except` clauses, which run after Playwright has stopped; `Leave` is
`finally`. Line 227 passes `wait_until` to `wait_for_selector`, which the published
Playwright rejects, so there the search always raises; the model keeps the
outcomes the code is written for as well, and what it shows holds with either.

**SeleniumApi.** Endpoints are coroutines that never await: one step each. A
task's step is the code from one `update_status` to the next. `Judge` is line 175,
which reads the shared status; `Complete` and `QuitFailed` are what a task writes
after its browser is closed, when it no longer holds the status. `TestProxy` and
`RestoreProxies` are `test_proxy` and the function inside it. `PROXY_LIST` is a set:
`add_proxy` refuses a proxy that is in it, and only membership matters.
`undermined` is as above, per browser; `tests`, `pool` and `tangled` observe which
proxy tests are under way, and whether they nest; once they do not, `Follow` gives the
other two up. Whether a request other than a test uses a proxy is left open until the
task asks for it (line 101), for nothing reads it before.

**SemanticIndex.** `AddVectors`, `ClearFlag` and `ExtendMetadata` are lines 458, 459
and 460; `SearchIndex` is the call of FAISS with any answer that FAISS may give,
padding included; `LookUp` is one turn of the loop at 477-483 with Python's meaning
of subscript -1. Parsing and encoding touch no shared state and are part of the
step that uses their result. `waiting` and `overtaken` observe the order in which
uploads reach the index and the list (`InTurn`). The desktop editions extend the
list before they clear the flag, and run one handler at a time.

**TaskLock.** The holders of the lock are the tasks that can act on the account;
`Acquire` is an admitted request, `Undermine` any of the writes after which the
guard takes a held lock for free, `Barge` a task that does not ask, as
`test_proxy` starts one. `AutomationApi` implements it with its status and
`undermined` as they are; in `SeleniumApi` every browser's status is such a lock.

**RnnServer.** Every value is known by the text it was made from, which fixes its
shape, and shapes are what products and subscripts can fail on: `MayExceed`,
`CanSample`, `Draw`. A rebuild assigns the ten globals one at a time (`Assign`), a
training iteration loads them (`Forward`), then takes and puts each weight
(`Take`, `Put`, the two halves of `-=`), and `Open` and `Write` are the two moments
of a save. `LoadFile` reads the file, and `Bind` stores the five weights it found in
one step, as no call comes between these stores. A request that fails ends (`Raise`).
`Restart` forgets all but the file. Numbers are left out: a sampled letter is any
of the vocabulary. The goal that a request sends along may be blank, for nothing checks
it; its first letter is then an IndexError (`Seed`), kept apart from every other failure
as the outcome "blank". No alphabet has exactly one letter (NumPy would broadcast it to
any other).

**UnguardedStatus.** `edition` is chosen at the start and says which program it is.
`Report` writes the first key, `WriteMessage` the second; the cart replaces both at
once. `LoginSteps` and `CartSteps` are the two parts of a task as sets of reports that
may follow each other, `Fails`, `SetupFails` and `QuitFails` its exceptions, `Quit`,
`Judge` and `Complete` its end. `drivers` are the running browsers. `crowded` is an
observation: two have been at work since one last began alone.

**MealPlanTrainer.** A run goes from place to place (`pc`); `Start` begins the next
one and `Kill` ends one anywhere, with what had reached the disk of a sample,
perhaps half a line. A description stands for the product it was made of; a model
or a vocabulary for the descriptions it was made from. `StreamEnds` is the end of
the sample as well as a broken stream, which the code reports and otherwise
treats alike. Left out: `scraped_products.jsonl`, which nothing reads, the limit of
15000 descriptions, which a sample of 5000 lines does not reach, and `--dump` with
a file of another origin.

## 3. Runs: what each checks and shows

| Run | Instance | Checks |
|---|---|---|
| `tracker_two_pollers` | 2 processes, 1 product, prices {0, 2} or none, 4 history rows, 1 crash | `TypeOK`, `CatalogueMatchesHistory`, `DiscoveredOnce`, `AnnouncedWasRecorded`, `ImplementsSharedLedger`, `FetchedIsSettled` |
| `tracker_one_poller` | 1 process, 2 products, prices {0, 1, 3} or none, 3 rows for one product and 1 for the other, 1 crash | `AlertsFall`, `StoredWasAnnounced`, `ImplementsLedger` |
| `automation_tasks` | 2 requests of any kind, 3 buttons | `TypeOK`, `OneTaskAtATime`, `AddReleases`, `TasksEnd`, `ImplementsLock` |
| `automation_idle_means_no_task` | 2 add-to-cart requests | `IdleMeansNoTask` is violated |
| `automation_refused_means_running` | 2 add-to-cart requests | `RefusedMeansRunning` is violated |
| `selenium_tasks` | 2 requests of any kind, 1 browser, 2 proxies | `TypeOK`, `OneTaskPerBrowser`, `NeverWedged`, `PoolRestored`, `TestSeesItsProxy`, `ImplementsLocks`, `TasksEnd` |
| `selenium_completed` | 2 add-to-cart requests | `CompletedMeansDone` is violated |
| `index_threads` | 2 uploads of one or two products, 2 searches, k = 2, 4 vectors | `TypeOK`, `PrefixUntilOvertaken`, `SizesAgreeAtRest`, `AnswersWhatItFound`, `FailsOnlyDuringUpload` |
| `index_padding` | the same | `ResultsAreMatches` is violated |
| `rnn_server` | 2 requests of any kind, 4 texts, 1 training iteration, 1 letter, 2 rebuilds, restarts | `TypeOK`, `ModelFitsVocabulary`, `AnswersNeedVocabulary`, `SoundModelServes`, `TrainingEnds` |
| `unguarded_status` | 2 requests, both programs | `TypeOK`, `RestIsFinal`, `ReportIsWhole`, `FinalMeansDone`, `UnknownNeedsCompany`, `BrowserClosed`, `TasksEnd` |
| `meal_plan_trainer` | values 0, 1/2, 1; a dump of 3 lines, 2 asked for; any number of runs | `TypeOK`, `SavedFilesFit` |

Why the bounds are enough. Two processes are what the reloader starts. Price 0 is
a boundary of its own (Kroger writes 0 for "no promotion", and the code treats 0
and NULL alike when it compares); with three prices two drops in a row happen.
The history bound leaves room for a first quote and two or three later ones of
one product, and `Room` keeps it from cutting a poll in half; the second product
is there for what a poll does between products and after a failure. Two requests
are enough for a task to be let in beside another, and a slot that has ended its
task is used again, so a third may come while the second works; that no larger
number breaks the locks is proved (section 4). Two proxies let a test put a list of one
other proxy aside, and let an addition or removal fall between a test and its end. A browser of 1.3 has its own status
and shares only the proxy list, on which the browser makes no difference. Three
buttons make the loop go on after a first, go on after one that failed, and give
up after a last. The index holds fewer vectors than asked for, as many, and more.
Jobs, upload slots and query slots are reused, so the sequences of requests
are not bounded by their number. The four texts of `rnn_server` are two with
vocabularies of different size, the short text of the import and the empty text
of a scrape that found nothing; two of the four have vocabularies of one size, so
that shapes can agree by accident. Two rebuilds are one to replace and one to be
disturbed; the bound is on the life of the file, restarts are not bounded. A second
training iteration (tried over 1.2 million states without a violation, not to the end)
repeats the first. `unguarded_status` has also been run with three requests (252
thousand states). The dump of `meal_plan_trainer` holds a product of the highest
possible score, a middling one and a line that is none.

What the runs show beyond a yes:

* With two processes `StoredIsLowest` and `AlertsFall` do not hold: each process
  decides on the row it queried, and the later commit may put a higher price over a
  lower. What survives is in `tracker_two_pollers`: the tables agree, the primary key
  decides who discovered the product, and a stale decision still lowers the row only
  below one that was stored once (`ImplementsSharedLedger`). For one process
  `StoredIsLowest` is a consequence of `ImplementsLedger` and is proved, not run.
* A process that dies after its commit and before its print has lowered the
  stored price and will never give the alert: `StoredWasAnnounced` excepts it.
* `OneTaskAtATime` and `OneTaskPerBrowser` name, in what sets `undermined`, every
  way past the guard that the code leaves: a reset, a look-up or proxy test, the
  late verdict of an earlier task, a task that waits for manual verification or
  goes on to the next button under an idle status. There is no other way.
* `NeverWedged` holds of 1.3 without exception, because every end of a task writes
  a status of the idle list; 1.2 has ends that do not (section 5).
* In 1.5 the file alone is of no use: after a restart no plan is answered until a new
  text was fetched (`AnswersNeedVocabulary`), since the vocabulary was never saved. A
  rebuild that runs alone makes the model sound, and from then on trainings and
  plans, in any number of threads, keep it so; a second rebuild at the same time, two
  saves at the same time, too short a text or a restart end that. `SoundModelServes` has
  one exception, which it names: a plan for a blank goal always fails, whatever the model.
* In 1.6 nothing keeps tasks apart, and still: once nothing works the status is a
  final one (or the cart's "starting", if the call of the shop died), and while no second
  request comes a final status means that the cart is not touched any more.
* `SavedFilesFit` holds although a kill between the two saves should break it, because
  every run trains on the same ten examples; with a score that some product can
  pass (the mutant `WholeOfWanted`) it fails.
* `PoolRestored` holds while tests nest. Two that overlap otherwise may leave a
  list of one proxy for good: the second copies what the first put in place.

Fairness. `AutomationApi` and `SeleniumApi` assume that a task which can take a step
eventually takes one: one event loop or a thread runs it, and every wait of
Playwright and Selenium has a timeout (their defaults where the code gives none).
Requests are never fair, and neither is any particular outcome of a step.
`PriceTracker` (`FairSpec`) is fair only to the local steps of a poll; a remote call
may never return, as `requests` has no default timeout. `RnnServer` is
fair to the steps of a request that has begun, which are computation in a thread,
and `UnguardedStatus` to the steps of a task but not to the cart's remote call, which
has no timeout. `SemanticIndex` has no liveness property, and neither has
`MealPlanTrainer`, which may be killed at any time. `CHECK_DEADLOCK FALSE` appears in two runs only, those that use
a single endpoint: there the API can stop for good, and that is what one of them
shows.

Each property has a mutant in `PROJECT.json`: the run reports a violation when the
mutant replaces the definition it is a mutant of.

## 4. Proofs

All proofs are for any value of the constants: any number of processes, requests,
browsers, products, any prices, any bounds. Assumptions are those named in the
modules: `PriceTrackerAssumption` (the watched products are a list without
repetition, prices are natural numbers, "no price" is none of them),
`AbsentAssumption`, `AutomationApiAssumption` (a page's buttons are bounded),
`RequestsAssumption`, `ProxyAssumption` ("no proxy" is not one),
`SemanticIndexAssumption` (an upload carries at least one product, K is at least 1),
`TextAssumption` (alphabets are finite and none has one letter), `FileAssumption`
(a saved model is neither absent nor half written), `EditionsAssumption`,
`JobAssumption` (finitely many requests), `ScaleAssumption`, `TrainerAssumption` (the
examples are not a product of the dump). TLC evaluates them in the runs.

| Theorem | States |
|---|---|
| `PriceTrackerProofs!TypeCorrect` | `Spec => []TypeOK` |
| `PriceTrackerProofs!CatalogueIsConsistent` | `Spec => []CatalogueMatchesHistory`, any number of processes |
| `PriceTrackerProofs!LowestPriceIsStored` | one process: `Spec => []StoredIsLowest` |
| `PriceTrackerProofs!PollerImplementsLedger` | one process: `Spec => ImplementsLedger` |
| `PriceTrackerProofs!PollersShareLedger` | `Spec => ImplementsSharedLedger`, any number of processes |
| `PriceTrackerProofs!PriceNeverAboveFirst` | `Spec => []NeverAboveFirst`, any number of processes |
| `PriceTrackerProofs!EveryStepAdvances` | `Spec => []RankBounded /\ PollsAdvance`: at most four steps per product and two |
| `PriceTrackerAlertProofs!NewOnlyOnce` | `Spec => []DiscoveredOnce`, any number of processes |
| `PriceTrackerAlertProofs!AnnouncedIsRecorded` | `Spec => []AnnouncedWasRecorded`, any number of processes |
| `PriceTrackerAlertProofs!AlertsKnowTheFirst` | `Spec => []AlertsStartFromFirst`, any number of processes |
| `PriceTrackerAlertProofs!PricesFall` | one process: `Spec => []AlertsFall` |
| `PriceTrackerAlertProofs!NothingGoesUnannounced` | one process: `Spec => []StoredWasAnnounced` |
| `AutomationApiProofs!TypeCorrect` | `Spec => []TypeOK` |
| `AutomationApiProofs!StatusExcludes` | `Spec => []OneTaskAtATime` |
| `AutomationApiProofs!StatusIsLock` | `Spec => ImplementsLock` |
| `AutomationApiProofs!IdleIsFree` | `Spec => []IdleUnlessUndermined` |
| `AutomationApiProofs!RefusalsAreOwed` | `Spec => []RefusedIsOwed` |
| `AutomationApiProofs!EveryStepAdvances` | `Spec => JobsAdvance /\ []RankBounded`: at most 10 + 2 * `MaxButtons` steps |
| `SeleniumApiProofs!TypeCorrect` | `Spec => []TypeOK` |
| `SeleniumApiProofs!LockHolds` | `Spec => []OneTaskPerBrowser` |
| `SeleniumApiProofs!AdmitsAtRest` | `Spec => []NeverWedged` |
| `SeleniumApiProofs!StatusesAreLocks` | `Spec => ImplementsLocks` |
| `SeleniumApiProofs!IdleIsFree` | `Spec => []StatusTellsWork`, and that "completed" then means done |
| `SeleniumApiProofs!EveryStepAdvances` | `Spec => JobsAdvance`: at most 13 steps |
| `SeleniumApiProofs!NestedTestsRestore` | `Spec => []PoolRestored` |
| `SeleniumApiProofs!NewestTestSeesItsProxy` | `Spec => []TestSeesItsProxy` |
| `SemanticIndexProofs!TypeCorrect` | `Spec => []TypeOK` |
| `SemanticIndexProofs!PrefixHolds` | `Spec => []PrefixUntilOvertaken` |
| `SemanticIndexProofs!AnswersAreFound` | `Spec => []AnswersWhatItFound` |
| `SemanticIndexProofs!SameSizeAtRest` | `Spec => []SizesAgreeAtRest` |
| `SemanticIndexProofs!FailureNeedsUpload` | `Spec => []FailsOnlyDuringUpload` |
| `SemanticIndexProofs!AnswersAreOrderly` | `Spec => [](AtMostK /\ NoVectorTwice /\ PaddingMeansFewVectors)` |
| `RnnServerProofs!TypeCorrect` | `Spec => []TypeOK` |
| `RnnServerProofs!SoundIsWhole` | `Spec => []ModelFitsVocabulary` |
| `RnnServerProofs!SoundServes` | `Spec => SoundModelServes`, which excepts plans for a blank goal |
| `RnnServerProofs!FileIsNotEnough` | `Spec => []AnswersNeedVocabulary` |
| `RnnServerProofs!EveryStepAdvances` | `Spec => []StepsBounded /\ StepsAdvance`: at most 12 * `Iters` + 13 steps for a rebuild, `Draws` + 3 for a plan |
| `UnguardedStatusProofs!TypeCorrect` | `Spec => []TypeOK` |
| `UnguardedStatusProofs!BoardComesToRest` | `Spec => []RestIsFinal` |
| `UnguardedStatusProofs!ReportsAreWhole` | `Spec => []ReportIsWhole` |
| `UnguardedStatusProofs!FinalIsFinal` | `Spec => []FinalMeansDone` |
| `UnguardedStatusProofs!UnknownIsOthers` | `Spec => []UnknownNeedsCompany` |
| `UnguardedStatusProofs!BrowsersAreClosed` | `Spec => []BrowserClosed` |
| `UnguardedStatusProofs!EveryStepAdvances` | `Spec => []RankBounded /\ TasksAdvance`: at most 23 steps |
| `MealPlanTrainerProofs!NothingPasses` | no product, at any scale, reaches the grade asked for |
| `MealPlanTrainerProofs!TypeCorrect` | `Spec => []TypeOK` |
| `MealPlanTrainerProofs!SavedTogether` | `Spec => []SavedFilesFit` |
| `MealPlanTrainerProofs!DataMakesNoDifference` | `Spec => []RunsOnExamples` |
| `MealPlanTrainerProofs!TornSampleStays` | `Spec => []SampleIsPrefix /\ SampleStays` |
| `MealPlanTrainerProofs!EveryStepAdvances` | `Spec => RunAdvances`: at most 9 + `SampleSize` steps |

*Price tracker.* `TypeOK` is not inductive: the stored row is computed from the
loaded one, which could be a row that was deleted. `LoadedExists` says no step
deletes: what a poll loaded is still there at its commit. `CatalogueMatchesHistory`
then follows from the transaction alone. For one process `NotStale` adds that the
loaded row is the row that is there; with it, the decision of `IsDrop` is right, the
row stored is the minimum, and every commit is a `Record` of the ledger while every
other step stutters. Where two processes run, `NotStale` is the conjunct that fails.
The alerts are counted: those of a price that were given, and those that a poll still
owes, are together no more than the rows of the history with that price
(`AlertsAreBacked`); a discovery is owed by one poll at most, and only while none was
given (`Discovery`). With one process the alerts fall down to the stored price, and the
next stored price is below them (`AlertInv`).

*Several pollers on one ledger.* What two processes can do to the stored price is not
anything. `SharedInv` adds to the above that every stored row, and every row that a
poll has loaded and will decide on, has the price of a recorded quote that is not above
the first one (`StoredWasKept`, `LoadedWasKept`). A row loaded long ago therefore still
is one that was kept, which is all that `Lower` and `Keep` of the shared ledger ask for:
that is `PollersShareLedger`. It follows that the stored price is never above the first
recorded (`PriceNeverAboveFirst`), and, with what the polls under way are about to print
(`PendingFits`), that "new" names the first recorded price and every drop a price below it
(`AlertsKnowTheFirst`), in whatever order the processes print. That the prices fall is
true of one process only.

*The two APIs.* `OneTaskAtATime` alone is not inductive either: the guard must be
shown to exclude, and for that `Held` says that while a task works and nobody
undermined it, the status is not one the guard lets in. Each step of a working
task then either keeps a busy status, or ends its work. In `AutomationApi` the loop
over the buttons needs `ButtonsLeft` besides: one is left while the loop runs. In
`SeleniumApi`, `Released` is the converse: when no task works the status is an idle
one, because the last write of any task is; `NeverWedged` is a weakening of it. The
refinements of `TaskLock` come out of the same invariants: a step that admits a task is
an `Acquire` because `Held` makes the lock undermined or free, and whatever else
changes the status is an `Undermine` or nothing. For the proxies, the copies that nested tests
saved form a chain (`Nested`): the newest test's copy is the list that the one before
it put in place, and the oldest's is the list as it was; restoring in turn walks
back along it. `Testers` ties the chain to the requests that are still to restore.

*Semantic index.* While no upload has overtaken another, the uploads that have
vectors and no entries stand in line (`InLine`), and the index is the list followed by
their batches in that order (`Laid`: an existentially quantified sequence of cuts says
where each batch ends). An upload that reaches the list in its turn moves the first
cut into the list. What searches have recorded is compared with the index, which
only grows (`Faithful`). Once overtaken the order is lost and the sizes are not: some
line of the pending uploads accounts for the difference (`Accounted`); an upload leaves
that line from any place in it.

*Character RNN.* `SoundIsWhole` needs to know who can disturb: while the model is
sound, no rebuild overlaps another request and no two requests save at a time (`Calm`).
Then either all globals are of one text, and so is every value that a request holds or
puts back, or a rebuild that is alone has assigned the first so many (`Whole`). `Vacant` is the other end: until a text is fetched there are no letters,
and a plan fails before it is answered.

*Unguarded status.* `Owed`: a status that is not final belongs to a task that is still
to write. `Trusted`: while one is at work alone, the status is the one its place in the
program has written.

*Where the findings end.* Section 5 lists properties that the code states and does not
have. Four theorems say how far they are from holding. An idle status means that no
task works, in 1.2 and in 1.3, and in 1.3 a status that is not idle means that one does,
until somebody undermines it (`IdleIsFree`, twice, from `Held` and `Released`). A status of
1.2 that refuses requests is about to be replaced by a job under way, unless it is one of
eleven that may stay (`RefusalsAreOwed`): `Owes` pairs each other status with the places
from which the job that wrote it, or one like it, writes again. An answer of 1.4 has at
most K entries and no vector twice, and padding appears only behind all vectors of an
index that has fewer than K (`AnswersAreOrderly`); the invariant `Orderly` is about what a
search has still to look up and what it has answered, as one sequence, from which
`LookUp` may drop a padding but never shuffles.

*Ranks.* Six theorems are called `EveryStepAdvances`. Each gives every request, poll or run a number
of steps before it, bounds that number by the constants, and shows that each of its own
steps lowers it and that no step of another raises it, on every path and through every
failure. That is the part of the liveness properties that has nothing to do with
fairness: nothing is retried for ever, nothing goes round a loop. What it leaves to TLC
is that a step which can be taken is taken, and that one always can be.

*Meal planner.* `NothingPasses` is arithmetic: wanted nutrients contribute at most 20
tenths, 57 are divided by, 6/10 is asked for. Then every run trains on the examples
(`OnlyExamples`), and any two files that are whole are of the same descriptions; that is
also `DataMakesNoDifference`. `Cut` is the sample: while it is streamed it is a beginning
of the dump, and a kill leaves a beginning of that and perhaps half a line more
(`TornSampleStays`).

## 5. Where the code disagrees with itself

The source states these in a comment or a message; the runs show counterexamples.

* `loo.py:432` calls its list statuses that "indicate no task is currently running".
  It holds `verification_needed`, under which a task waits for a minute, and
  `cart_error`, under which a task goes on to the next button
  (`automation_idle_means_no_task`).
* `loo.py:442` refuses with "Another automation task is already running".
  `login_to_kroger` has exits that leave the status of the step it was at, and
  `login_error` and `login_failed` are in no list: nothing runs and everything is
  refused until a reset (`automation_refused_means_running`).
* `Downloads/app.py:176` says "Process completed"; it may be written over the
  status of another task that is at work, on no provocation but a second
  add-to-cart (`selenium_completed`).
* `gen5.py:103` prints "Top matches"; the padding of a short answer is printed as
  the last product, once for each missing match (`index_padding`; the same test is
  at `gen2.py:479`).

Seen on the way and left without a run:

* On a fresh server `/train_rnn` of `ml1.py` raises KeyError, for the vocabulary is empty,
  although the page (`ml1.py:237`) offers to "Train RNN on fixed internal data for
  testing"; the model shows it as `Raise` at `Encode`.
* The page of `ml1.py` asks for a letter (`required`, 230 and 254), which a space satisfies
  and `strip()` then removes: `goal[0]` at 122 and 296 raises IndexError with a sound
  model. The model has it as the outcome "blank" of `Seed`.
* `lstm995.py:769` will "take the first 'count' lines"; what a broken or killed download
  leaves is found by line 747 and taken for that ever after (`StreamEnds`, `Kill` and
  `SkipDownload` of the model; theorem `TornSampleStays`).
* `lstm995.py:869` falls back to its examples "as no data was loaded"; it falls back
  whatever was loaded, because no product can reach the score of lines 459 and 713. That
  is the theorem `NothingPasses`.

## 6. Only model-checked, not modelled

Only model-checked: liveness (`FetchedIsSettled`, `AddReleases`, `TasksEnd` in its three
modules, `TrainingEnds`), which the prover does not reach: they need fairness and
ENABLED. The theorems `EveryStepAdvances` prove what they have of safety; `AddReleases` has
`RefusalsAreOwed` beside it, which names the job that will write, not that it does. Every
other property of a passing run is proved as well. The formulas of the theorems that no
run checks (those of section 4 with a name of their own: the ranks,
the boundaries of the findings, the sample) were checked by TLC on the instances of
section 3 before they were proved; they are no properties of a run because their
definitions stand in the proof modules.

Not modelled: what a page contains, retries inside Playwright and Selenium, HTTP
routes that only read; the driver process that an exception leaves running in
`Downloads/app.py` (`driver.quit()` is skipped, 177-178; nothing in the program ever
looks at it again); the inside of a FAISS call, which is one step here although
the library does not synchronise a search with an `add`; a task that is killed with
its server, since all state of 1.2-1.4 and 1.6 dies with the process and a restart is
`Init`. Networks are numerics: what they compute is left open in 1.5 and 1.7, and so are
weights that overflow (`np.random.choice` would then raise); errors of the disk and
missing WordNet data are not modelled in 1.5 either.

The crawling editions of 1.7 are loops without state that outlives them. They mark a
product as visited before they fetch it and drop the rest of a page on an exception,
and their second level of links is only followed below a product that passed its
grade. None does, so they always end with "No data found"; a model of the crawl would
describe text that cannot run. The remaining scripts of section 1.8 have no state, no
concurrency and no file that they read back. Third-party code is not modelled at all,
and it is nearly all of the repository: of some 1.135 million lines about 11 thousand
are the author's, editions and copies included, so the share of the whole that a map of
the author's programs can cover is small whatever is modelled.

## 7. Plan

Done, in this order: `PriceTracker` with its abstract specification (the only
component with a database), `AutomationApi`, `SeleniumApi`, `SemanticIndex`,
`RnnServer`, `UnguardedStatus`, `TaskLock` and its two refinements,
`MealPlanTrainer`, and the proofs of section 4. An abstract specification of
`SemanticIndex`, a list that grows by whole uploads, was given up: it would say what
`PrefixUntilOvertaken` and `SizesAgreeAtRest` say.

Left:

1. The word vocabulary of `jki.py` and the planners as operators: encoding, truncation
   and decoding, against their inverse law over bounded inputs.
2. The inside of a FAISS call: an `add` that overlaps a `search`, as far as the library's
   documentation says what may be seen.
3. Proofs: that a step is always possible for a request that has begun, as a state
   predicate for each component (the other half of what ENABLED would say); that
   `PriceLedger` itself keeps the cheapest quote.
4. `RnnServer` with weights of one text told apart, to say what of a training is lost when
   a plan loads the file over it.

## 8. Running the checks

    tlc -config PriceTrackerTwo.cfg MCPriceTracker    (any cfg with its MC module)
    tlapm PriceTrackerProofs.tla                      (any ...Proofs module)

`rnn_server` and `selenium_tasks` take about three minutes on two workers, every other
run less than one; `RnnServerProofs` takes about three minutes from nothing, every other proof module
less than two.
