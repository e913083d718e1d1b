---------------------------- MODULE PriceTracker ----------------------------
(***************************************************************************)
(* The Kroger price tracker, src/app.py.  Every process that ran           *)
(* create_app() owns a BackgroundScheduler with one job, and all of them   *)
(* share the database zenday.db.  app.run(debug=True) starts the file      *)
(* reloader, so a normal start has two such processes: the one that was    *)
(* started and the one that serves.                                        *)
(*                                                                         *)
(* A poll is a sequence of remote calls and database steps; pc[p] is where *)
(* poller p stands in it.  SELECT takes no lock that outlives it (pysqlite *)
(* begins a transaction at the first INSERT or UPDATE), so the row that    *)
(* process_product_data decides on may be stale when it commits.           *)
(***************************************************************************)
EXTENDS Naturals, Sequences, FiniteSets

CONSTANTS
  Poller,       \* the processes that run the scheduler
  WatchedIds,   \* WATCHED_IDS: the products of a poll, in order
  Price,        \* prices a quote can carry
  None,         \* a price missing from the quote (JSON null, SQL NULL)
  Absent,       \* no row with this primary key
  MaxHistory,   \* bound: price_history rows of each product
  MaxCrashes    \* bound: how many times a process dies

Ids == {WatchedIds[i] : i \in 1..Len(WatchedIds)}

ASSUME PriceTrackerAssumption ==
  /\ WatchedIds \in Seq(Ids) /\ WatchedIds # <<>>
  /\ \A i, j \in 1..Len(WatchedIds) : WatchedIds[i] = WatchedIds[j] => i = j
  /\ Price \subseteq Nat /\ None \notin Price
  /\ MaxHistory \in [Ids -> Nat] /\ MaxCrashes \in Nat

Quote == [regular : Price \cup {None}, promo : Price \cup {None}]

ASSUME AbsentAssumption == Absent \notin Quote

VARIABLES
  product,    \* product[id]: columns regular_price and promo_price, or Absent
  history,    \* history[id]: the product's price_history rows, oldest first
  pc,         \* pc[p]: the step of the poll that p takes next
  turn,       \* turn[p]: position in WatchedIds of the product p is at
  quote,      \* quote[p]: the prices p fetched for that product
  existing,   \* existing[p]: what Product.query.get returned to p
  alerts,     \* alerts[id]: observed output, the alerts printed for id
  crashes     \* bound counter: processes that died so far

vars == <<product, history, pc, turn, quote, existing, alerts, crashes>>

db == <<product, history>>
session == <<quote, existing>>

Steps == {"idle", "token", "locate", "fetch", "query", "commit", "announce"}
Alert == [kind : {"new", "drop"}, price : Price \cup {None}]

TypeOK ==
  /\ product \in [Ids -> Quote \cup {Absent}]
  /\ history \in [Ids -> Seq(Quote)]
  /\ pc \in [Poller -> Steps]
  /\ turn \in [Poller -> 1..Len(WatchedIds)]
  /\ quote \in [Poller -> Quote]
  /\ existing \in [Poller -> Quote \cup {Absent}]
  /\ alerts \in [Ids -> Seq(Alert)]
  /\ crashes \in 0..MaxCrashes

NoQuote == [regular |-> None, promo |-> None]

Init ==
  /\ product = [id \in Ids |-> Absent]
  /\ history = [id \in Ids |-> <<>>]
  /\ pc = [p \in Poller |-> "idle"]
  /\ turn = [p \in Poller |-> 1]
  /\ quote = [p \in Poller |-> NoQuote]
  /\ existing = [p \in Poller |-> Absent]
  /\ alerts = [id \in Ids |-> <<>>]
  /\ crashes = 0

-----------------------------------------------------------------------------
(* The poll: monitor_watched_products and the functions it calls.          *)

Pid(p) == WatchedIds[turn[p]]

Goto(p, step) == pc' = [pc EXCEPT ![p] = step]

(* Dead once the product is dealt with; cleared to keep states few. *)
Forget(p) ==
  /\ quote' = [quote EXCEPT ![p] = NoQuote]
  /\ existing' = [existing EXCEPT ![p] = Absent]

(* Mutant of NextProduct: the loop runs once too often. *)
NextProductOffByOne(p) ==
  IF turn[p] <= Len(WatchedIds)
    THEN Goto(p, "fetch") /\ turn' = [turn EXCEPT ![p] = @ + 1]
    ELSE Goto(p, "idle") /\ turn' = [turn EXCEPT ![p] = 1]

(* The next turn of "for pid in WATCHED_IDS", or the end of the poll. *)
NextProduct(p) ==
  IF turn[p] < Len(WatchedIds)
    THEN Goto(p, "fetch") /\ turn' = [turn EXCEPT ![p] = @ + 1]
    ELSE Goto(p, "idle") /\ turn' = [turn EXCEPT ![p] = 1]

(* The scheduler starts the job; max_instances is 1, so never twice at     *)
(* once in one process.                                                    *)
StartPoll(p) ==
  /\ pc[p] = "idle"
  /\ Goto(p, "token")
  /\ UNCHANGED <<db, turn, session, alerts, crashes>>

(* An exception that nothing in the job catches ends the poll; the app     *)
(* context is popped and the session rolls back.                           *)
AbortPoll(p) ==
  /\ Goto(p, "idle")
  /\ turn' = [turn EXCEPT ![p] = 1]
  /\ Forget(p)

GetAccessToken(p) ==
  /\ pc[p] = "token"
  /\ \/ Goto(p, "locate") /\ UNCHANGED <<turn, session>>
     \/ AbortPoll(p)
  /\ UNCHANGED <<db, alerts, crashes>>

(* No store near the zip code returns, a failed request raises: the poll   *)
(* is over either way.                                                     *)
FetchNearestLocation(p) ==
  /\ pc[p] = "locate"
  /\ \/ Goto(p, "fetch") /\ UNCHANGED <<turn, session>>
     \/ AbortPoll(p)
  /\ UNCHANGED <<db, alerts, crashes>>

(* MaxHistory leaves room for the rows of every quote under way. *)
Room(id) == Len(history[id]) + Cardinality(Poller) <= MaxHistory[id]

(* One product's pages are fetched and mapped.  A failed page only ends    *)
(* the paging, so the product may be missing from what was fetched; a      *)
(* product that map_kroger_to_zenday cannot read raises.                   *)
FetchProduct(p) ==
  /\ pc[p] = "fetch"
  /\ \/ /\ Room(Pid(p))
        /\ \E q \in Quote : quote' = [quote EXCEPT ![p] = q]
        /\ Goto(p, "query")
        /\ UNCHANGED <<turn, existing>>
     \/ NextProduct(p) /\ UNCHANGED session
     \/ AbortPoll(p)
  /\ UNCHANGED <<db, alerts, crashes>>

-----------------------------------------------------------------------------
(* process_product_data.                                                   *)

QueryProduct(p) ==
  /\ pc[p] = "query"
  /\ existing' = [existing EXCEPT ![p] = product[Pid(p)]]
  /\ Goto(p, "commit")
  /\ UNCHANGED <<db, turn, quote, alerts, crashes>>

OrZero(price) == IF price = None THEN 0 ELSE price

(* Mutant of IsDrop: an unchanged price counts as a drop. *)
IsDropOrSame(p) ==
  /\ existing[p] # Absent
  /\ quote[p].promo # None
  /\ quote[p].promo <= OrZero(existing[p].promo)

IsDrop(p) ==
  /\ existing[p] # Absent
  /\ quote[p].promo # None
  /\ quote[p].promo < OrZero(existing[p].promo)

(* Mutants of Accepted: price columns that may be NULL; an upsert in place *)
(* of the insert.                                                          *)
AcceptedNullable(p) == existing[p] = Absent => product[Pid(p)] = Absent

AcceptedUpsert(p) == quote[p].promo # None /\ quote[p].regular # None

(* Columns price_history.promo_price and regular_price are NOT NULL, and   *)
(* products.id is a primary key.                                           *)
Accepted(p) ==
  /\ quote[p].promo # None /\ quote[p].regular # None
  /\ existing[p] = Absent => product[Pid(p)] = Absent

(* Mutant of Updated: the regular price is left as it was. *)
UpdatedPromoOnly(p) ==
  [regular |-> product[Pid(p)].regular, promo |-> quote[p].promo]

(* The UPDATE names only the columns whose value differs from the one      *)
(* that was loaded.                                                        *)
Updated(p) ==
  [regular |-> IF quote[p].regular # existing[p].regular
                 THEN quote[p].regular ELSE product[Pid(p)].regular,
   promo   |-> quote[p].promo]

(* Mutant of Stored: the row follows every quote. *)
StoredLatest(p) == IF existing[p] = Absent THEN quote[p] ELSE Updated(p)

Stored(p) ==
  IF existing[p] = Absent THEN quote[p]
  ELSE IF IsDrop(p) THEN Updated(p)
  ELSE product[Pid(p)]

(* Mutant of Commit: a product seen for the first time is not announced. *)
CommitQuietly(p) ==
  /\ pc[p] = "commit"
  /\ Accepted(p)
  /\ product' = [product EXCEPT ![Pid(p)] = Stored(p)]
  /\ history' = [history EXCEPT ![Pid(p)] = Append(@, quote[p])]
  /\ IF IsDrop(p)
       THEN Goto(p, "announce") /\ UNCHANGED <<turn, session>>
       ELSE NextProduct(p) /\ Forget(p)
  /\ UNCHANGED <<alerts, crashes>>

(* The flush of the product and its history row and the COMMIT: the        *)
(* database lets in one writer at a time.                                  *)
Commit(p) ==
  /\ pc[p] = "commit"
  /\ Accepted(p)
  /\ product' = [product EXCEPT ![Pid(p)] = Stored(p)]
  /\ history' = [history EXCEPT ![Pid(p)] = Append(@, quote[p])]
  /\ IF existing[p] = Absent \/ IsDrop(p)
       THEN Goto(p, "announce") /\ UNCHANGED <<turn, session>>
       ELSE NextProduct(p) /\ Forget(p)
  /\ UNCHANGED <<alerts, crashes>>

(* Mutants of CommitFails: the alert goes out although nothing was stored; *)
(* the product is tried again at once.                                     *)
CommitFailsAnnounced(p) ==
  /\ pc[p] = "commit"
  /\ Goto(p, "announce")
  /\ UNCHANGED <<db, turn, session, alerts, crashes>>

CommitRetried(p) ==
  /\ pc[p] = "commit"
  /\ Goto(p, "query")
  /\ existing' = [existing EXCEPT ![p] = Absent]
  /\ UNCHANGED <<db, turn, quote, alerts, crashes>>

(* IntegrityError when a constraint fails, OperationalError when the lock  *)
(* or the disk does: nothing is written, and the error ends the poll.      *)
CommitFails(p) ==
  /\ pc[p] = "commit"
  /\ AbortPoll(p)
  /\ UNCHANGED <<db, alerts, crashes>>

Announce(p) ==
  /\ pc[p] = "announce"
  /\ alerts' = [alerts EXCEPT ![Pid(p)] = Append(@,
                  [kind  |-> IF existing[p] = Absent THEN "new" ELSE "drop",
                   price |-> quote[p].promo])]
  /\ NextProduct(p)
  /\ Forget(p)
  /\ UNCHANGED <<db, crashes>>

(* The process dies in the middle of a poll and is started again. *)
Crash(p) ==
  /\ pc[p] # "idle"
  /\ crashes < MaxCrashes
  /\ crashes' = crashes + 1
  /\ AbortPoll(p)
  /\ UNCHANGED <<db, alerts>>

-----------------------------------------------------------------------------
RemoteStep(p) == GetAccessToken(p) \/ FetchNearestLocation(p) \/ FetchProduct(p)

LocalStep(p) == QueryProduct(p) \/ Commit(p) \/ CommitFails(p) \/ Announce(p)

Next ==
  \E p \in Poller :
    StartPoll(p) \/ RemoteStep(p) \/ LocalStep(p) \/ Crash(p)

Spec == Init /\ [][Next]_vars

(* A thread that has its data runs on.  Nothing is assumed of the remote   *)
(* calls: requests is given no timeout, and a call may never return.       *)
FairSpec == Spec /\ \A p \in Poller : WF_vars(LocalStep(p))

-----------------------------------------------------------------------------
Rows(id) == {history[id][i] : i \in 1..Len(history[id])}

(* A product has a row exactly if it has history, neither has a NULL       *)
(* price, and every stored column was recorded in the history by the       *)
(* transaction that stored it, however the pollers interleave: the two     *)
(* inserts or the update and insert of one commit are never split.         *)
CatalogueMatchesHistory ==
  \A id \in Ids :
    /\ product[id] = Absent <=> history[id] = <<>>
    /\ \A row \in Rows(id) : row.promo # None /\ row.regular # None
    /\ product[id] # Absent =>
         /\ \E row \in Rows(id) : row.promo = product[id].promo
         /\ \E row \in Rows(id) : row.regular = product[id].regular

(* The primary key decides the race of two pollers that both found no      *)
(* row: a product is announced as new at most once.                        *)
DiscoveredOnce ==
  \A id \in Ids :
    Cardinality({i \in 1..Len(alerts[id]) : alerts[id][i].kind = "new"}) <= 1

(* What is announced was committed first, and no more often: every alert   *)
(* has its own history row with its price.                                 *)
AnnouncedWasRecorded ==
  \A id \in Ids, price \in Price :
    Cardinality({i \in 1..Len(alerts[id]) : alerts[id][i].price = price})
      <= Cardinality({i \in 1..Len(history[id]) : history[id][i].promo = price})

(* A poll that has fetched its data does not stay in process_product_data: *)
(* whether the commit is accepted or not, the poll goes on or ends.        *)
FetchedIsSettled ==
  \A p \in Poller :
    pc[p] \in {"query", "commit", "announce"} ~> pc[p] \in {"fetch", "idle"}

Ledger == INSTANCE PriceLedger WITH Id <- Ids, best <- product, log <- history

(* With any number of pollers each change of the database is one that      *)
(* PriceLedger allows to processes that share it: it records one quote,    *)
(* and the stored row stays, or is lowered to that quote's price (the      *)
(* column regular perhaps left over) because the quote is cheaper than a   *)
(* row that was stored once (src/app.py:148-180).                          *)
ImplementsSharedLedger == Ledger!SharedSpec

-----------------------------------------------------------------------------
(* What one poller alone guarantees: the decision is never stale.          *)

(* The stored row is the cheapest quote ever recorded for the product, as  *)
(* one quote: both columns come from the same history row.                 *)
StoredIsLowest ==
  \A id \in Ids : product[id] # Absent =>
    /\ product[id] \in Rows(id)
    /\ \A row \in Rows(id) : product[id].promo <= row.promo

(* Each alert names a price below every price announced before it. *)
AlertsFall ==
  \A id \in Ids : \A i, j \in 1..Len(alerts[id]) :
    i < j => alerts[id][j].price < alerts[id][i].price

(* If no process ever died, every stored price was announced by the time   *)
(* its poll moves on.  (A process that dies between the commit and the     *)
(* print loses the alert for good: the stored price is already lowered.)   *)
StoredWasAnnounced ==
  \A id \in Ids :
    \/ crashes > 0
    \/ product[id] = Absent
    \/ \E p \in Poller : pc[p] = "announce" /\ Pid(p) = id
    \/ /\ alerts[id] # <<>>
       /\ alerts[id][Len(alerts[id])].price = product[id].promo

(* One poller implements the ledger: whatever fails, each change of the    *)
(* database records one quote and keeps the cheapest.                      *)
ImplementsLedger == Ledger!Spec
=============================================================================
