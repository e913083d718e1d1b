------------------------- MODULE PriceTrackerProofs -------------------------
(***************************************************************************)
(* Theorems about PriceTracker, for any number of pollers, any list of     *)
(* watched products and any set of prices.                                 *)
(***************************************************************************)
EXTENDS PriceTracker, TLAPS

(* The position of a poller always names a watched product. *)
LEMMA PidIsWatched ==
  ASSUME TypeOK, NEW p \in Poller
  PROVE  Pid(p) \in Ids
  BY DEF TypeOK, Pid, Ids

(* Moving on to the next product keeps the program counter and the         *)
(* position in range.                                                      *)
LEMMA NextProductType ==
  ASSUME TypeOK, NEW p \in Poller, NextProduct(p)
  PROVE  /\ pc' \in [Poller -> Steps]
         /\ turn' \in [Poller -> 1..Len(WatchedIds)]
  <1>1. Len(WatchedIds) \in Nat /\ 1 \in 1..Len(WatchedIds)
    BY PriceTrackerAssumption
  <1>2. turn[p] \in 1..Len(WatchedIds)
    BY DEF TypeOK
  <1>3. CASE turn[p] < Len(WatchedIds)
    <2>1. turn[p] + 1 \in 1..Len(WatchedIds)
      BY <1>1, <1>2, <1>3
    <2> QED
      BY <1>3, <2>1 DEF TypeOK, NextProduct, Goto, Steps
  <1>4. CASE ~(turn[p] < Len(WatchedIds))
    BY <1>1, <1>4 DEF TypeOK, NextProduct, Goto, Steps
  <1> QED
    BY <1>3, <1>4

(* Ending a poll early, and forgetting a product, keep the types. *)
LEMMA ForgetType ==
  ASSUME TypeOK, NEW p \in Poller, Forget(p)
  PROVE  /\ quote' \in [Poller -> Quote]
         /\ existing' \in [Poller -> Quote \cup {Absent}]
  BY DEF TypeOK, Forget, NoQuote, Quote

LEMMA AbortPollType ==
  ASSUME TypeOK, NEW p \in Poller, AbortPoll(p)
  PROVE  /\ pc' \in [Poller -> Steps]
         /\ turn' \in [Poller -> 1..Len(WatchedIds)]
         /\ quote' \in [Poller -> Quote]
         /\ existing' \in [Poller -> Quote \cup {Absent}]
  <1>1. 1 \in 1..Len(WatchedIds)
    BY PriceTrackerAssumption
  <1> QED
    BY <1>1, ForgetType DEF TypeOK, AbortPoll, Goto, Steps

(* A poller about to commit has either found no row, or found one that is  *)
(* still there: no step deletes a product.                                 *)
LoadedExists ==
  \A p \in Poller :
    pc[p] = "commit" /\ existing[p] # Absent => product[Pid(p)] # Absent

Typed == TypeOK /\ LoadedExists

(* What a commit stores is a row of the table, never Absent. *)
LEMMA StoredType ==
  ASSUME Typed, NEW p \in Poller, pc[p] = "commit"
  PROVE  Stored(p) \in Quote
  <1>1. Pid(p) \in Ids
    BY PidIsWatched DEF Typed
  <1>2. quote[p] \in Quote /\ existing[p] \in Quote \cup {Absent}
        /\ product[Pid(p)] \in Quote \cup {Absent}
    BY <1>1 DEF Typed, TypeOK
  <1>3. existing[p] # Absent => product[Pid(p)] \in Quote
    BY <1>2 DEF Typed, LoadedExists
  <1> QED
    BY <1>2, <1>3 DEF Stored, Updated, Quote

-----------------------------------------------------------------------------
(* Every step of a poll either leaves the database alone, or is a commit.  *)
LEMMA WhoWrites ==
  ASSUME [Next]_vars
  PROVE  UNCHANGED db \/ \E p \in Poller : Commit(p)
  BY DEF Next, vars, db, StartPoll, RemoteStep, LocalStep, GetAccessToken,
         FetchNearestLocation, FetchProduct, QueryProduct, CommitFails,
         Announce, Crash

(* The steps before the query leave the pollers that are about to commit   *)
(* as they were.                                                           *)
LEMMA StartPollTyped ==
  ASSUME Typed, NEW p \in Poller, StartPoll(p)
  PROVE  Typed'
  BY DEF Typed, TypeOK, LoadedExists, StartPoll, Goto, Steps, db, session, Pid

LEMMA AbortPollLoaded ==
  ASSUME Typed, NEW p \in Poller, AbortPoll(p), UNCHANGED db
  PROVE  LoadedExists'
  BY DEF Typed, TypeOK, LoadedExists, AbortPoll, Forget, Goto, Steps, db, Pid

LEMMA NextProductLoaded ==
  ASSUME Typed, NEW p \in Poller, NextProduct(p),
         \A q \in Poller \ {p} : existing'[q] = existing[q],
         \A id \in Ids : product[id] # Absent => product'[id] # Absent
  PROVE  LoadedExists'
  <1> SUFFICES ASSUME NEW q \in Poller, pc'[q] = "commit", existing'[q] # Absent
               PROVE  product'[Pid(q)'] # Absent
    BY DEF LoadedExists
  <1>1. q # p
    BY DEF Typed, TypeOK, NextProduct, Goto
  <1>2. pc[q] = "commit" /\ turn'[q] = turn[q] /\ existing[q] # Absent
    BY <1>1 DEF Typed, TypeOK, NextProduct, Goto
  <1>3. Pid(q)' = Pid(q) /\ product[Pid(q)] # Absent
    BY <1>2 DEF Typed, LoadedExists, Pid
  <1> QED
    BY <1>3, PidIsWatched DEF Typed

LEMMA RemoteStepTyped ==
  ASSUME Typed, NEW p \in Poller, RemoteStep(p)
  PROVE  Typed'
  <1> USE DEF Typed
  <1>1. CASE AbortPoll(p) /\ UNCHANGED <<db, alerts, crashes>>
    BY <1>1, AbortPollType, AbortPollLoaded DEF TypeOK, db
  <1>2. ASSUME NEW from \in {"token", "locate"}, NEW to \in {"locate", "fetch"},
               pc[p] = from, Goto(p, to), UNCHANGED <<turn, session, db, alerts, crashes>>
        PROVE  Typed'
    BY <1>2 DEF TypeOK, LoadedExists, Goto, Steps, db, session, Pid
  <1>3. CASE FetchProduct(p)
    <2>1. ASSUME NEW q \in Quote, quote' = [quote EXCEPT ![p] = q],
                 Goto(p, "query"),
                 UNCHANGED <<turn, existing, db, alerts, crashes>>
          PROVE  Typed'
      BY <2>1 DEF TypeOK, LoadedExists, Goto, Steps, db, Pid
    <2>2. CASE NextProduct(p) /\ UNCHANGED <<session, db, alerts, crashes>>
      <3>1. LoadedExists'
        BY <2>2, NextProductLoaded DEF session, db
      <3> QED
        BY <2>2, <3>1, NextProductType DEF TypeOK, session, db
    <2> QED
      BY <1>1, <1>3, <2>1, <2>2 DEF FetchProduct
  <1>4. CASE GetAccessToken(p)
    BY <1>1, <1>2, <1>4 DEF GetAccessToken
  <1>5. CASE FetchNearestLocation(p)
    BY <1>1, <1>2, <1>5 DEF FetchNearestLocation
  <1> QED
    BY <1>3, <1>4, <1>5 DEF RemoteStep

LEMMA QueryProductTyped ==
  ASSUME Typed, NEW p \in Poller, QueryProduct(p)
  PROVE  Typed'
  <1> USE DEF Typed
  <1>1. product[Pid(p)] \in Quote \cup {Absent}
    BY PidIsWatched DEF TypeOK
  <1>2. TypeOK'
    BY <1>1 DEF TypeOK, QueryProduct, Goto, Steps, db
  <1>3. LoadedExists'
    BY DEF TypeOK, LoadedExists, QueryProduct, Goto, db, Pid
  <1> QED
    BY <1>2, <1>3

LEMMA CommitTyped ==
  ASSUME Typed, NEW p \in Poller, Commit(p)
  PROVE  /\ Typed'
         /\ \A id \in Ids : product[id] # Absent => product'[id] # Absent
  <1> USE DEF Typed
  <1>1. Pid(p) \in Ids /\ Stored(p) \in Quote /\ quote[p] \in Quote
    BY PidIsWatched, StoredType DEF TypeOK, Commit
  <1>2. /\ product' \in [Ids -> Quote \cup {Absent}]
        /\ \A id \in Ids : product[id] # Absent => product'[id] # Absent
    BY <1>1, AbsentAssumption DEF TypeOK, Commit
  <1>3. history' \in [Ids -> Seq(Quote)]
    BY <1>1 DEF TypeOK, Commit
  <1>4. CASE Goto(p, "announce") /\ UNCHANGED <<turn, session>>
    <2>1. LoadedExists'
      BY <1>2, <1>4, PidIsWatched DEF TypeOK, LoadedExists, Goto, session, Pid
    <2> QED
      BY <1>2, <1>3, <1>4, <2>1 DEF TypeOK, Commit, Goto, Steps, session
  <1>5. CASE NextProduct(p) /\ Forget(p)
    <2>1. LoadedExists'
      BY <1>2, <1>5, NextProductLoaded DEF TypeOK, Forget
    <2> QED
      BY <1>2, <1>3, <1>5, <2>1, NextProductType, ForgetType DEF TypeOK, Commit
  <1> QED
    BY <1>2, <1>4, <1>5 DEF Commit

LEMMA AnnounceTyped ==
  ASSUME Typed, NEW p \in Poller, Announce(p)
  PROVE  Typed'
  <1> USE DEF Typed
  <1>1. Pid(p) \in Ids /\ quote[p].promo \in Price \cup {None}
    BY PidIsWatched DEF TypeOK, Quote
  <1>2. alerts' \in [Ids -> Seq(Alert)]
    <2> DEFINE a == [kind  |-> IF existing[p] = Absent THEN "new" ELSE "drop",
                     price |-> quote[p].promo]
    <2>1. a \in Alert
      BY <1>1 DEF Alert
    <2>2. Append(alerts[Pid(p)], a) \in Seq(Alert)
      BY <1>1, <2>1 DEF TypeOK
    <2>3. alerts' = [alerts EXCEPT ![Pid(p)] = Append(@, a)]
      BY DEF Announce
    <2> HIDE DEF a
    <2> QED
      BY <1>1, <2>2, <2>3 DEF TypeOK
  <1>3. LoadedExists'
    BY NextProductLoaded DEF TypeOK, Announce, Forget, db
  <1> QED
    BY <1>2, <1>3, NextProductType, ForgetType DEF TypeOK, Announce, db

LEMMA CrashTyped ==
  ASSUME Typed, NEW p \in Poller, Crash(p)
  PROVE  Typed'
  <1> USE DEF Typed
  <1>1. crashes' \in 0..MaxCrashes
    BY PriceTrackerAssumption DEF TypeOK, Crash
  <1>2. LoadedExists'
    BY AbortPollLoaded DEF Crash, db
  <1> QED
    BY <1>1, <1>2, AbortPollType DEF TypeOK, Crash, db

LEMMA NextTyped == Typed /\ [Next]_vars => Typed'
  <1> SUFFICES ASSUME Typed, [Next]_vars
               PROVE  Typed'
    OBVIOUS
  <1>1. ASSUME NEW p \in Poller, LocalStep(p)
        PROVE  Typed'
    <2>1. CASE CommitFails(p)
      BY <2>1, AbortPollType, AbortPollLoaded DEF Typed, TypeOK, CommitFails, db
    <2> QED
      BY <1>1, <2>1, QueryProductTyped, CommitTyped, AnnounceTyped DEF LocalStep
  <1>2. CASE UNCHANGED vars
    BY <1>2 DEF vars, Typed, TypeOK, LoadedExists, Pid
  <1> QED
    BY <1>1, <1>2, StartPollTyped, RemoteStepTyped, CrashTyped DEF Next

LEMMA InitTyped == Init => Typed
  <1>1. 1 \in 1..Len(WatchedIds)
    BY PriceTrackerAssumption
  <1>2. <<>> \in Seq(Quote) /\ <<>> \in Seq(Alert)
    OBVIOUS
  <1>3. NoQuote \in Quote /\ 0 \in 0..MaxCrashes
    BY PriceTrackerAssumption DEF NoQuote, Quote
  <1> QED
    BY <1>1, <1>2, <1>3 DEF Init, Typed, TypeOK, LoadedExists, Steps

(* Every variable keeps its type: no step of any poller reaches outside    *)
(* the tables and the program counters described in PriceTracker.          *)
THEOREM TypeCorrect == Spec => []TypeOK
  <1>1. Typed => TypeOK
    BY DEF Typed
  <1> QED
    BY <1>1, InitTyped, NextTyped, PTL DEF Spec

LEMMA AlwaysTyped == Spec => []Typed
  BY InitTyped, NextTyped, PTL DEF Spec

-----------------------------------------------------------------------------
(* Appending to a sequence keeps its elements and adds one. *)
LEMMA AppendRows ==
  ASSUME TypeOK, NEW id \in Ids, NEW row \in Quote,
         history'[id] = Append(history[id], row)
  PROVE  Rows(id)' = Rows(id) \cup {row}
  <1>1. history[id] \in Seq(Quote)
    BY DEF TypeOK
  <1>2. /\ Len(history'[id]) = Len(history[id]) + 1
        /\ \A i \in 1..Len(history[id]) : history'[id][i] = history[id][i]
        /\ history'[id][Len(history[id]) + 1] = row
    BY <1>1
  <1>3. Len(history[id]) \in Nat
    BY <1>1
  <1> QED
    BY <1>2, <1>3 DEF Rows

(* What a commit does to the two tables: the row it was refused or the     *)
(* row of another product is not touched.                                  *)
LEMMA CommitEffect ==
  ASSUME Typed, NEW p \in Poller, Commit(p)
  PROVE  /\ Pid(p) \in Ids
         /\ quote[p] \in Quote /\ quote[p].promo # None /\ quote[p].regular # None
         /\ Stored(p) \in Quote
         /\ product'[Pid(p)] = Stored(p)
         /\ history'[Pid(p)] = Append(history[Pid(p)], quote[p])
         /\ history'[Pid(p)] # <<>>
         /\ \A id \in Ids \ {Pid(p)} :
              product'[id] = product[id] /\ history'[id] = history[id]
  <1>1. Pid(p) \in Ids /\ quote[p] \in Quote
    BY PidIsWatched DEF Typed, TypeOK
  <1>2. Stored(p) \in Quote
    BY StoredType DEF Commit
  <1>3. history[Pid(p)] \in Seq(Quote)
    BY <1>1 DEF Typed, TypeOK
  <1>4. Append(history[Pid(p)], quote[p]) # <<>>
    BY <1>1, <1>3
  <1> QED
    BY <1>1, <1>2, <1>4 DEF Typed, TypeOK, Commit, Accepted

LEMMA CommitKeepsCatalogue ==
  ASSUME Typed, CatalogueMatchesHistory, NEW p \in Poller, Commit(p)
  PROVE  CatalogueMatchesHistory'
  <1> DEFINE Matches(id) ==
        /\ product[id] = Absent <=> history[id] = <<>>
        /\ \A row \in Rows(id) : row.promo # None /\ row.regular # None
        /\ product[id] # Absent =>
             /\ \E row \in Rows(id) : row.promo = product[id].promo
             /\ \E row \in Rows(id) : row.regular = product[id].regular
  <1>0. PICK pid \in Ids : pid = Pid(p)
    BY CommitEffect
  <1>1. ASSUME NEW id \in Ids \ {pid}
        PROVE  Matches(id)'
    BY <1>0, <1>1, CommitEffect DEF CatalogueMatchesHistory, Rows
  <1>2. Rows(pid)' = Rows(pid) \cup {quote[p]}
    BY <1>0, CommitEffect, AppendRows DEF Typed
  <1>3. /\ product'[pid] = Stored(p)
        /\ Stored(p) # Absent
        /\ history'[pid] # <<>>
    BY <1>0, CommitEffect, AbsentAssumption
  <1>4. \A row \in Rows(pid)' : row.promo # None /\ row.regular # None
    BY <1>2, CommitEffect DEF CatalogueMatchesHistory
  <1>5. /\ \E row \in Rows(pid) \cup {quote[p]} : row.promo = Stored(p).promo
        /\ \E row \in Rows(pid) \cup {quote[p]} : row.regular = Stored(p).regular
    <2>1. CASE existing[p] = Absent
      BY <2>1 DEF Stored
    <2>2. CASE existing[p] # Absent
      <3>1. product[pid] # Absent
        BY <1>0, <2>2 DEF Typed, LoadedExists, Commit
      <3> QED
        BY <1>0, <2>2, <3>1 DEF CatalogueMatchesHistory, Stored, Updated
    <2> QED
      BY <2>1, <2>2
  <1>6. Matches(pid)'
    BY <1>2, <1>3, <1>4, <1>5
  <1> QED
    BY <1>1, <1>6 DEF CatalogueMatchesHistory

(* However many pollers share the database, a product row and its history  *)
(* exist together, hold no NULL price, and every stored price was recorded *)
(* (src/app.py:148-180, one commit for both tables).                       *)
THEOREM CatalogueIsConsistent == Spec => []CatalogueMatchesHistory
  <1>1. Init => CatalogueMatchesHistory
    BY DEF Init, CatalogueMatchesHistory, Rows
  <1>2. Typed /\ CatalogueMatchesHistory /\ [Next]_vars => CatalogueMatchesHistory'
    <2> SUFFICES ASSUME Typed, CatalogueMatchesHistory, [Next]_vars
                 PROVE  CatalogueMatchesHistory'
      OBVIOUS
    <2>1. CASE UNCHANGED db
      BY <2>1 DEF CatalogueMatchesHistory, Rows, db
    <2> QED
      BY <2>1, WhoWrites, CommitKeepsCatalogue
  <1> QED
    BY <1>1, <1>2, AlwaysTyped, PTL DEF Spec

-----------------------------------------------------------------------------
(* One poller.  What it loaded is still what is stored when it commits.    *)
NotStale ==
  \A p \in Poller : pc[p] = "commit" => existing[p] = product[Pid(p)]

LowestInv == Typed /\ CatalogueMatchesHistory /\ NotStale /\ StoredIsLowest

LEMMA NotStaleStep ==
  ASSUME Typed, NotStale, [Next]_vars, \E p \in Poller : Poller = {p}
  PROVE  NotStale'
  <1>1. PICK p \in Poller : Poller = {p}
    OBVIOUS
  <1> SUFFICES ASSUME pc'[p] = "commit"
               PROVE  existing'[p] = product'[Pid(p)']
    BY <1>1 DEF NotStale
  <1>2. CASE UNCHANGED vars
    BY <1>2 DEF vars, NotStale, Pid
  <1>3. CASE QueryProduct(p)
    BY <1>3 DEF QueryProduct, Typed, TypeOK, Pid, db
  <1>4. ~(StartPoll(p) \/ RemoteStep(p) \/ Commit(p) \/ CommitFails(p)
          \/ Announce(p) \/ Crash(p))
    BY DEF Typed, TypeOK, StartPoll, RemoteStep, GetAccessToken, FetchProduct,
           FetchNearestLocation, Commit, CommitFails, Announce, Crash,
           AbortPoll, NextProduct, Goto
  <1> QED
    BY <1>1, <1>2, <1>3, <1>4 DEF Next, LocalStep

(* A commit decided on the row that is stored replaces it by the quote     *)
(* when there was none or the quote is cheaper, and keeps it otherwise.    *)
LEMMA FreshStored ==
  ASSUME LowestInv, NEW p \in Poller, Commit(p), NEW pid \in Ids, pid = Pid(p)
  PROVE  /\ quote[p].promo \in Nat
         /\ product[pid] # Absent => product[pid].promo \in Nat
         /\ Stored(p) = IF product[pid] = Absent \/ quote[p].promo < product[pid].promo
                          THEN quote[p] ELSE product[pid]
  <1>1. existing[p] = product[pid]
    BY DEF LowestInv, NotStale, Commit
  <1>2. quote[p] \in Quote /\ quote[p].promo \in Nat /\ quote[p].promo # None
    BY CommitEffect, PriceTrackerAssumption DEF LowestInv, Quote
  <1>3. ASSUME product[pid] # Absent
        PROVE  /\ product[pid] \in Quote
               /\ product[pid].promo \in Nat /\ product[pid].promo # None
    <2>1. product[pid] \in Rows(pid) /\ product[pid] \in Quote
      BY <1>3 DEF LowestInv, StoredIsLowest, Typed, TypeOK
    <2>2. product[pid].promo # None
      BY <2>1 DEF LowestInv, CatalogueMatchesHistory
    <2> QED
      BY <2>1, <2>2, PriceTrackerAssumption DEF Quote
  <1>4. ASSUME product[pid] # Absent
        PROVE  /\ Updated(p) = quote[p]
               /\ IsDrop(p) <=> quote[p].promo < product[pid].promo
    <2>1. product[pid].regular = existing[p].regular
      BY <1>1
    <2>2. Updated(p) = [regular |-> quote[p].regular, promo |-> quote[p].promo]
      BY <2>1 DEF Updated
    <2>3. quote[p] = [regular |-> quote[p].regular, promo |-> quote[p].promo]
      BY <1>2 DEF Quote
    <2>4. IsDrop(p) <=> quote[p].promo < product[pid].promo
      BY <1>1, <1>2, <1>3, <1>4 DEF IsDrop, OrZero
    <2> QED
      BY <2>2, <2>3, <2>4
  <1> QED
    BY <1>1, <1>2, <1>3, <1>4 DEF Stored

LEMMA CommitKeepsLowest ==
  ASSUME LowestInv, NEW p \in Poller, Commit(p)
  PROVE  StoredIsLowest'
  <1>1. PICK pid \in Ids : pid = Pid(p)
    BY CommitEffect DEF LowestInv
  <1>2. /\ product'[pid] = Stored(p)
        /\ Rows(pid)' = Rows(pid) \cup {quote[p]}
    BY <1>1, CommitEffect, AppendRows DEF LowestInv, Typed
  <1>3. ASSUME NEW id \in Ids \ {pid}, product'[id] # Absent
        PROVE  /\ product'[id] \in Rows(id)'
               /\ \A row \in Rows(id)' : product'[id].promo <= row.promo
    BY <1>1, <1>3, CommitEffect DEF LowestInv, StoredIsLowest, Rows
  <1>4. \A row \in Rows(pid) : row.promo \in Nat
    <2>1. \A row \in Rows(pid) : row \in Quote
      BY DEF LowestInv, Typed, TypeOK, Rows
    <2> QED
      BY <2>1, PriceTrackerAssumption DEF LowestInv, CatalogueMatchesHistory, Quote
  <1>5. CASE product[pid] = Absent
    <2>1. Stored(p) = quote[p] /\ quote[p].promo \in Nat
      BY <1>1, <1>5, FreshStored
    <2>2. Rows(pid) = {}
      BY <1>5 DEF LowestInv, CatalogueMatchesHistory, Rows
    <2> QED
      BY <1>2, <1>3, <2>1, <2>2 DEF StoredIsLowest
  <1>6. CASE product[pid] # Absent
    <2>1. /\ product[pid] \in Rows(pid) /\ product[pid].promo \in Nat
          /\ \A row \in Rows(pid) : product[pid].promo <= row.promo
      BY <1>1, <1>6, FreshStored DEF LowestInv, StoredIsLowest
    <2>2. /\ quote[p].promo \in Nat
          /\ Stored(p) = IF quote[p].promo < product[pid].promo
                           THEN quote[p] ELSE product[pid]
      BY <1>1, <1>6, FreshStored
    <2>3. /\ product'[pid] \in Rows(pid)'
          /\ \A row \in Rows(pid)' : product'[pid].promo <= row.promo
      BY <1>2, <1>4, <2>1, <2>2
    <2> QED
      BY <1>3, <2>3 DEF StoredIsLowest
  <1> QED
    BY <1>5, <1>6

LEMMA AlwaysLowest ==
  ASSUME \E p \in Poller : Poller = {p}
  PROVE  Spec => []LowestInv
  <1>1. Init => LowestInv
    BY InitTyped DEF Init, LowestInv, CatalogueMatchesHistory, NotStale,
                     StoredIsLowest, Rows
  <1>2. LowestInv /\ [Next]_vars => LowestInv'
    <2> SUFFICES ASSUME LowestInv, [Next]_vars
                 PROVE  LowestInv'
      OBVIOUS
    <2>1. Typed' /\ NotStale'
      BY NextTyped, NotStaleStep DEF LowestInv
    <2>2. CASE UNCHANGED db
      BY <2>1, <2>2 DEF LowestInv, CatalogueMatchesHistory, StoredIsLowest, Rows, db
    <2>3. ASSUME NEW p \in Poller, Commit(p)
          PROVE  CatalogueMatchesHistory' /\ StoredIsLowest'
      BY <2>3, CommitKeepsCatalogue, CommitKeepsLowest DEF LowestInv
    <2> QED
      BY <2>1, <2>2, <2>3, WhoWrites DEF LowestInv
  <1> QED
    BY <1>1, <1>2, PTL DEF Spec

(* With one polling process, the stored row is the cheapest quote ever     *)
(* recorded, whatever calls fail and however often the process dies.       *)
THEOREM LowestPriceIsStored ==
  ASSUME \E p \in Poller : Poller = {p}
  PROVE  Spec => []StoredIsLowest
  <1>1. LowestInv => StoredIsLowest
    BY DEF LowestInv
  <1> QED
    BY <1>1, AlwaysLowest, PTL

(* With one polling process, the database goes through the steps of        *)
(* PriceLedger and no others: a commit records one quote and keeps the     *)
(* cheapest, every other step leaves both tables alone.                    *)
THEOREM PollerImplementsLedger ==
  ASSUME \E p \in Poller : Poller = {p}
  PROVE  Spec => ImplementsLedger
  <1>1. Init => Ledger!Init
    BY DEF Init, Ledger!Init
  <1>2. LowestInv /\ [Next]_vars => [Ledger!Next]_(Ledger!vars)
    <2> SUFFICES ASSUME LowestInv, [Next]_vars
                 PROVE  Ledger!Next \/ UNCHANGED Ledger!vars
      OBVIOUS
    <2>1. CASE UNCHANGED db
      BY <2>1 DEF db, Ledger!vars
    <2>2. ASSUME NEW p \in Poller, Commit(p)
          PROVE  Ledger!Next
      <3>1. PICK pid \in Ids : pid = Pid(p)
        BY CommitEffect, <2>2 DEF LowestInv
      <3>2. quote[p] \in Ledger!Row
        BY CommitEffect, <2>2 DEF LowestInv, Quote, Ledger!Row
      <3>3. history' = [history EXCEPT ![pid] = Append(@, quote[p])]
        BY <2>2, <3>1 DEF Commit
      <3>4. product' = [product EXCEPT ![pid] = Stored(p)]
        BY <2>2, <3>1 DEF Commit
      <3>5. product' = IF product[pid] = Absent \/ quote[p].promo < product[pid].promo
                         THEN [product EXCEPT ![pid] = quote[p]]
                         ELSE product
        <4>1. product = [product EXCEPT ![pid] = product[pid]]
          BY DEF LowestInv, Typed, TypeOK
        <4>2. CASE product[pid] = Absent \/ quote[p].promo < product[pid].promo
          BY <2>2, <3>1, <3>4, <4>2, FreshStored
        <4>3. CASE ~(product[pid] = Absent \/ quote[p].promo < product[pid].promo)
          <5>1. Stored(p) = product[pid]
            BY <2>2, <3>1, <4>3, FreshStored
          <5> QED
            BY <3>4, <4>1, <4>3, <5>1
        <4> QED
          BY <4>2, <4>3
      <3>6. Ledger!Record(pid, quote[p])
        BY <3>3, <3>5 DEF Ledger!Record
      <3> QED
        BY <3>2, <3>6 DEF Ledger!Next
    <2> QED
      BY <2>1, <2>2, WhoWrites
  <1> QED
    BY <1>1, <1>2, AlwaysLowest, PTL DEF Spec, ImplementsLedger, Ledger!Spec

-----------------------------------------------------------------------------
(* Any number of pollers.  The price a poller loaded, and the one that is  *)
(* stored, are prices that were recorded and not above the first.          *)
WasKept(id, row) ==
  row # Absent => \E seen \in Ledger!Candidates(id) : seen.promo = row.promo

StoredWasKept == \A id \in Ids : WasKept(id, product[id])

LoadedWasKept == \A p \in Poller : pc[p] = "commit" => WasKept(Pid(p), existing[p])

SharedInv == Typed /\ CatalogueMatchesHistory /\ StoredWasKept /\ LoadedWasKept

(* The first row stays the first, so that what could be kept still could.  *)
LEMMA CandidatesGrow ==
  ASSUME Typed, [Next]_vars, NEW id \in Ids
  PROVE  /\ Ledger!Candidates(id) \subseteq Ledger!Candidates(id)'
         /\ Rows(id) \subseteq Rows(id)'
         /\ history[id] # <<>> => history'[id] # <<>> /\ history'[id][1] = history[id][1]
<1>1. CASE history'[id] = history[id]
  BY <1>1 DEF Ledger!Candidates, Ledger!Logged, Rows
<1>2. CASE history'[id] # history[id]
  <2>1. PICK p \in Poller : Commit(p) /\ id = Pid(p)
    BY <1>2, WhoWrites, CommitEffect DEF db
  <2>2. history[id] \in Seq(Quote) /\ history'[id] = Append(history[id], quote[p])
        /\ quote[p] \in Quote
    BY <2>1, CommitEffect DEF Typed, TypeOK
  <2>3. Rows(id) \subseteq Rows(id)'
    BY <2>2, AppendRows DEF Typed
  <2>4. ASSUME history[id] # <<>>
        PROVE  history'[id] # <<>> /\ history'[id][1] = history[id][1]
    BY <2>2, <2>4
  <2>5. Ledger!Logged(id) = Rows(id) /\ Ledger!Logged(id)' = Rows(id)'
    BY DEF Ledger!Logged, Rows
  <2>6. ASSUME NEW row \in Rows(id)
        PROVE  history[id] # <<>>
    BY <2>2, <2>6 DEF Rows
  <2> QED
    BY <2>3, <2>4, <2>5, <2>6 DEF Ledger!Candidates
<1> QED
  BY <1>1, <1>2

(* A price that was kept is a number, below or at the first.               *)
LEMMA KeptIsNumber ==
  ASSUME Typed, CatalogueMatchesHistory, NEW id \in Ids, NEW seen \in Ledger!Candidates(id)
  PROVE  /\ history[id] # <<>> /\ product[id] # Absent
         /\ seen.promo \in Nat /\ seen.promo # None
         /\ history[id][1].promo \in Nat /\ seen.promo <= history[id][1].promo
<1>1. history[id] \in Seq(Quote)
  BY DEF Typed, TypeOK
<1>2. PICK i \in 1..Len(history[id]) : seen = history[id][i]
  BY DEF Ledger!Candidates, Ledger!Logged
<1>3. 1 \in 1..Len(history[id]) /\ history[id] # <<>>
  BY <1>1, <1>2
<1>4. \A row \in Rows(id) : row \in Quote /\ row.promo # None
  BY <1>1 DEF CatalogueMatchesHistory, Rows
<1>5. \A row \in Rows(id) : row.promo \in Nat
  BY <1>4, PriceTrackerAssumption DEF Quote
<1> QED
  BY <1>2, <1>3, <1>4, <1>5 DEF Rows, CatalogueMatchesHistory, Ledger!Candidates

(* A commit that finds no product writes its quote, as the first row; one  *)
(* that lowers the price was below one that was kept; any other was not.   *)
LEMMA SharedCommit ==
  ASSUME SharedInv, NEW p \in Poller, Commit(p), NEW id \in Ids, id = Pid(p)
  PROVE  /\ quote[p].promo \in Nat
         /\ existing[p] = Absent =>
              product[id] = Absent /\ history[id] = <<>> /\ Stored(p) = quote[p]
         /\ existing[p] # Absent => product[id] # Absent
         /\ existing[p] # Absent /\ IsDrop(p) =>
              /\ \E seen \in Ledger!Candidates(id) : quote[p].promo < seen.promo
              /\ Stored(p) = Updated(p)
         /\ existing[p] # Absent /\ ~IsDrop(p) =>
              /\ \E seen \in Ledger!Candidates(id) : seen.promo <= quote[p].promo
              /\ Stored(p) = product[id]
<1>1. quote[p] \in Quote /\ quote[p].promo # None /\ quote[p].promo \in Nat
  BY CommitEffect, PriceTrackerAssumption DEF SharedInv, Quote
<1>2. ASSUME existing[p] = Absent
      PROVE  product[id] = Absent /\ history[id] = <<>> /\ Stored(p) = quote[p]
  BY <1>2 DEF Commit, Accepted, Stored, SharedInv, CatalogueMatchesHistory
<1>3. ASSUME existing[p] # Absent
      PROVE  /\ product[id] # Absent
             /\ \E seen \in Ledger!Candidates(id) :
                  IF IsDrop(p) THEN quote[p].promo < seen.promo ELSE seen.promo <= quote[p].promo
  <2>1. PICK seen \in Ledger!Candidates(id) : seen.promo = existing[p].promo
    BY <1>3 DEF SharedInv, LoadedWasKept, WasKept, Commit
  <2>2. seen.promo \in Nat /\ seen.promo # None /\ product[id] # Absent
    BY KeptIsNumber DEF SharedInv
  <2>3. IsDrop(p) <=> quote[p].promo < seen.promo
    BY <1>1, <1>3, <2>1, <2>2 DEF IsDrop, OrZero
  <2> QED
    BY <1>1, <2>2, <2>3
<1> QED
  BY <1>1, <1>2, <1>3 DEF Stored

(* After a commit the stored price is again one that a row with that price *)
(* stands for: the row just recorded, or the one there was.                *)
LEMMA CommitKeepsKept ==
  ASSUME SharedInv, NEW p \in Poller, Commit(p)
  PROVE  StoredWasKept'
<1>0. Typed /\ CatalogueMatchesHistory /\ [Next]_vars
  BY DEF SharedInv, Next, LocalStep
<1>1. PICK pid \in Ids : pid = Pid(p)
  BY <1>0, CommitEffect
<1>2. ASSUME NEW id \in Ids, product'[id] = product[id]
      PROVE  WasKept(id, product[id])'
  BY <1>0, <1>2, CandidatesGrow DEF SharedInv, StoredWasKept, WasKept
<1>3. /\ product'[pid] = Stored(p) /\ quote[p] \in Quote
      /\ history'[pid] = Append(history[pid], quote[p])
      /\ history[pid] \in Seq(Quote)
  BY <1>0, <1>1, CommitEffect DEF Typed, TypeOK
<1>4. /\ quote[p] \in Rows(pid)' /\ Ledger!Logged(pid)' = Rows(pid)'
      /\ quote[p].promo \in Nat
  BY <1>0, <1>1, <1>3, AppendRows, SharedCommit DEF Rows, Ledger!Logged
<1>5. CASE existing[p] = Absent
  <2>1. history[pid] = <<>> /\ Stored(p) = quote[p]
    BY <1>1, <1>5, SharedCommit
  <2>2. history'[pid][1] = quote[p]
    BY <1>3, <2>1
  <2>3. quote[p] \in Ledger!Candidates(pid)'
    BY <1>4, <2>2 DEF Ledger!Candidates
  <2>4. WasKept(pid, product[pid])'
    BY <1>3, <2>1, <2>3 DEF WasKept
  <2> QED
    BY <1>0, <1>1, <1>2, <2>4, CommitEffect DEF StoredWasKept
<1>6. CASE existing[p] # Absent /\ IsDrop(p)
  <2>1. PICK seen \in Ledger!Candidates(pid) : quote[p].promo < seen.promo
    BY <1>1, <1>6, SharedCommit
  <2>2. /\ seen.promo \in Nat /\ history[pid][1].promo \in Nat
        /\ seen.promo <= history[pid][1].promo /\ history[pid] # <<>>
    BY <1>0, KeptIsNumber
  <2>3. history'[pid][1] = history[pid][1]
    BY <1>0, <2>2, CandidatesGrow
  <2>4. quote[p].promo <= history[pid][1].promo
    BY <1>4, <2>1, <2>2
  <2>5. quote[p] \in Ledger!Candidates(pid)'
    BY <1>4, <2>3, <2>4 DEF Ledger!Candidates
  <2>6. product'[pid].promo = quote[p].promo
    BY <1>1, <1>3, <1>6, SharedCommit DEF Updated
  <2>7. WasKept(pid, product[pid])'
    BY <2>5, <2>6 DEF WasKept
  <2> QED
    BY <1>0, <1>1, <1>2, <2>7, CommitEffect DEF StoredWasKept
<1>7. CASE existing[p] # Absent /\ ~IsDrop(p)
  <2>1. product'[pid] = product[pid]
    BY <1>1, <1>3, <1>7, SharedCommit
  <2> QED
    BY <1>0, <1>1, <1>2, <2>1, CommitEffect DEF StoredWasKept
<1> QED
  BY <1>5, <1>6, <1>7

(* A poller comes to its commit only with the row it has just read.        *)
LEMMA WhoLoads ==
  ASSUME Typed, [Next]_vars, NEW q \in Poller, pc'[q] = "commit"
  PROVE  \/ pc[q] = "commit" /\ existing'[q] = existing[q] /\ Pid(q)' = Pid(q)
         \/ existing'[q] = product[Pid(q)] /\ Pid(q)' = Pid(q) /\ UNCHANGED db
<1>1. CASE UNCHANGED vars
  BY <1>1 DEF vars, Pid
<1>2. ASSUME NEW p \in Poller, QueryProduct(p)
      PROVE  \/ pc[q] = "commit" /\ existing'[q] = existing[q] /\ Pid(q)' = Pid(q)
             \/ existing'[q] = product[Pid(q)] /\ Pid(q)' = Pid(q) /\ UNCHANGED db
  BY <1>2 DEF QueryProduct, Typed, TypeOK, Goto, Pid
<1>3. ASSUME NEW p \in Poller,
             StartPoll(p) \/ RemoteStep(p) \/ Commit(p) \/ CommitFails(p) \/ Announce(p) \/ Crash(p)
      PROVE  pc[q] = "commit" /\ existing'[q] = existing[q] /\ Pid(q)' = Pid(q)
  <2>0. CASE AbortPoll(p)
    BY <2>0 DEF AbortPoll, Forget, Goto, Typed, TypeOK, Pid
  <2>1. CASE StartPoll(p) \/ Announce(p)
    BY <2>1 DEF StartPoll, Announce, NextProduct, Forget, Goto, session, Typed, TypeOK, Pid
  <2>2. CASE RemoteStep(p)
    BY <2>2 DEF RemoteStep, GetAccessToken, FetchNearestLocation, FetchProduct, AbortPoll,
                NextProduct, Forget, Goto, session, Typed, TypeOK, Pid
  <2>3. CASE Commit(p)
    BY <2>3 DEF Commit, NextProduct, Forget, Goto, session, Typed, TypeOK, Pid
  <2> QED
    BY <1>3, <2>0, <2>1, <2>2, <2>3 DEF Crash, CommitFails
<1> QED
  BY <1>1, <1>2, <1>3 DEF Next, LocalStep

LEMMA AlwaysShared == Spec => []SharedInv
<1>1. Init => SharedInv
  BY InitTyped DEF Init, SharedInv, CatalogueMatchesHistory, Rows, StoredWasKept,
                   LoadedWasKept, WasKept
<1>2. SharedInv /\ [Next]_vars => SharedInv'
  <2> SUFFICES ASSUME SharedInv, [Next]_vars
               PROVE  SharedInv'
    OBVIOUS
  <2>1. Typed /\ Typed'
    BY NextTyped DEF SharedInv
  <2>2. CatalogueMatchesHistory'
    <3>1. CASE UNCHANGED db
      BY <3>1 DEF SharedInv, CatalogueMatchesHistory, Rows, db
    <3> QED
      BY <3>1, WhoWrites, CommitKeepsCatalogue DEF SharedInv
  <2>3. StoredWasKept'
    <3>1. CASE UNCHANGED db
      BY <2>1, <3>1, CandidatesGrow DEF SharedInv, StoredWasKept, WasKept, db
    <3> QED
      BY <3>1, WhoWrites, CommitKeepsKept
  <2>4. LoadedWasKept'
    <3> SUFFICES ASSUME NEW q \in Poller, pc'[q] = "commit"
                 PROVE  WasKept(Pid(q), existing[q])'
      BY DEF LoadedWasKept
    <3>1. PICK id \in Ids : Pid(q) = id /\ Pid(q)' = id
      BY <2>1, PidIsWatched, WhoLoads DEF Typed
    <3>2. WasKept(id, existing'[q])
      BY <2>1, <3>1, WhoLoads DEF SharedInv, StoredWasKept, LoadedWasKept
    <3>3. WasKept(id, existing[q])'
      BY <2>1, <3>2, CandidatesGrow DEF WasKept
    <3> QED
      BY <3>1, <3>3 DEF WasKept, Ledger!Candidates, Ledger!Logged
  <2> QED
    BY <2>1, <2>2, <2>3, <2>4 DEF SharedInv
<1> QED
  BY <1>1, <1>2, PTL DEF Spec

(* Any number of pollers implement the ledger that is shared, however      *)
(* stale the rows are that they decide on (src/app.py:148-180).            *)
THEOREM PollersShareLedger == Spec => ImplementsSharedLedger
<1>1. Init => Ledger!Init
  BY DEF Init, Ledger!Init
<1>2. SharedInv /\ [Next]_vars => [Ledger!SharedNext]_(Ledger!vars)
  <2> SUFFICES ASSUME SharedInv, NEW p \in Poller, Commit(p)
               PROVE  Ledger!SharedNext
    BY WhoWrites DEF db, Ledger!vars
  <2>1. PICK id \in Ids : id = Pid(p)
    BY CommitEffect DEF SharedInv
  <2>2. /\ history' = [history EXCEPT ![id] = Append(@, quote[p])]
        /\ product' = [product EXCEPT ![id] = Stored(p)]
    BY <2>1 DEF Commit
  <2>3. quote[p] \in Ledger!Row
    BY CommitEffect DEF SharedInv, Quote, Ledger!Row
  <2>4. CASE existing[p] = Absent
    <3>1. Ledger!Insert(id, quote[p])
      BY <2>1, <2>2, <2>4, SharedCommit DEF Ledger!Insert
    <3> QED
      BY <2>2, <2>3, <3>1 DEF Ledger!SharedRecord, Ledger!SharedNext
  <2>5. CASE existing[p] # Absent /\ ~IsDrop(p)
    <3>1. product' = product
      BY <2>1, <2>2, <2>5, SharedCommit DEF SharedInv, Typed, TypeOK
    <3>2. product[id] # Absent /\ Ledger!Keep(id, quote[p])
      BY <2>1, <2>5, <3>1, SharedCommit DEF Ledger!Keep
    <3> QED
      BY <2>2, <2>3, <3>2 DEF Ledger!SharedRecord, Ledger!SharedNext
  <2>6. CASE existing[p] # Absent /\ IsDrop(p)
    <3>1. PICK regular \in {quote[p].regular, product[id].regular} :
            Stored(p) = [regular |-> regular, promo |-> quote[p].promo]
      BY <2>1, <2>6, SharedCommit DEF Updated
    <3>2. product[id] # Absent /\ Ledger!Lower(id, quote[p])
      BY <2>1, <2>2, <2>6, <3>1, SharedCommit DEF Ledger!Lower
    <3> QED
      BY <2>2, <2>3, <3>2 DEF Ledger!SharedRecord, Ledger!SharedNext
  <2> QED
    BY <2>4, <2>5, <2>6
<1> QED
  BY <1>1, <1>2, AlwaysShared, PTL DEF Spec, ImplementsSharedLedger, Ledger!SharedSpec

(* Two pollers can leave a price stored that is not the lowest, but never  *)
(* one above the first that was recorded for the product, nor one that was *)
(* not recorded at all (src/app.py:154-161).                               *)
NeverAboveFirst ==
  \A id \in Ids : product[id] # Absent =>
    /\ history[id] # <<>>
    /\ product[id].promo <= history[id][1].promo

THEOREM PriceNeverAboveFirst == Spec => []NeverAboveFirst
<1>1. SharedInv => NeverAboveFirst
  BY KeptIsNumber DEF SharedInv, NeverAboveFirst, StoredWasKept, WasKept
<1> QED
  BY <1>1, AlwaysShared, PTL
-----------------------------------------------------------------------------
(* How many steps of its own lie at most before the end of a poll: four    *)
(* for every product still to come, and what is left of this one.          *)
StepsLeft(p) ==
  LET toCome == Len(WatchedIds) - turn[p]
  IN  CASE pc[p] = "idle"     -> 0
        [] pc[p] = "token"    -> 4 * Len(WatchedIds) + 2
        [] pc[p] = "locate"   -> 4 * Len(WatchedIds) + 1
        [] pc[p] = "fetch"    -> 4 * toCome + 4
        [] pc[p] = "query"    -> 4 * toCome + 3
        [] pc[p] = "commit"   -> 4 * toCome + 2
        [] pc[p] = "announce" -> 4 * toCome + 1

Rank == [p \in Poller |-> StepsLeft(p)]

RankBounded ==
  \A p \in Poller :
    /\ Rank[p] \in 0..(4 * Len(WatchedIds) + 2)
    /\ pc[p] = "idle" <=> Rank[p] = 0

(* Every step is one poller's: it starts a poll, or brings its own nearer  *)
(* to the end; the other polls stay where they are.                        *)
Advances ==
  \E p \in Poller :
    /\ pc[p] = "idle" \/ Rank'[p] < Rank[p]
    /\ \A q \in Poller \ {p} : Rank'[q] = Rank[q]

PollsAdvance == [][Advances]_vars

(* StepsLeft in the state before a step and in the one after it.           *)
LEMMA RankOf ==
  ASSUME NEW p \in Poller
  PROVE  Rank[p] = StepsLeft(p) /\ Rank'[p] = StepsLeft(p)'
  BY DEF Rank, StepsLeft

LEMMA RankIsBounded == ASSUME TypeOK PROVE RankBounded
<1> SUFFICES ASSUME NEW p \in Poller
             PROVE  /\ StepsLeft(p) \in 0..(4 * Len(WatchedIds) + 2)
                    /\ pc[p] = "idle" <=> StepsLeft(p) = 0
  BY RankOf DEF RankBounded
<1>1. /\ Len(WatchedIds) \in Nat /\ turn[p] \in 1..Len(WatchedIds)
      /\ pc[p] \in Steps
  BY PriceTrackerAssumption DEF TypeOK
<1> QED
  BY <1>1 DEF StepsLeft, Steps

(* From the steps with a product, the next product is four steps on, and   *)
(* the end of the poll further.                                            *)
LEMMA NextProductAdvances ==
  ASSUME TypeOK, NEW p \in Poller, NextProduct(p),
         pc[p] \in {"fetch", "commit", "announce"}
  PROVE  StepsLeft(p)' < StepsLeft(p)
<1>1. Len(WatchedIds) \in Nat /\ turn[p] \in 1..Len(WatchedIds)
  BY PriceTrackerAssumption DEF TypeOK
<1>2. CASE turn[p] < Len(WatchedIds)
  <2>1. pc'[p] = "fetch" /\ turn'[p] = turn[p] + 1
    BY <1>2 DEF NextProduct, Goto, TypeOK
  <2> QED
    BY <1>1, <2>1 DEF StepsLeft
<1>3. CASE ~(turn[p] < Len(WatchedIds))
  <2>1. pc'[p] = "idle"
    BY <1>3 DEF NextProduct, Goto, TypeOK
  <2> QED
    BY <1>1, <2>1 DEF StepsLeft
<1> QED
  BY <1>2, <1>3

LEMMA AbortPollAdvances ==
  ASSUME TypeOK, NEW p \in Poller, AbortPoll(p), pc[p] # "idle"
  PROVE  StepsLeft(p)' < StepsLeft(p)
<1>1. pc'[p] = "idle"
  BY DEF AbortPoll, Goto, TypeOK
<1>2. StepsLeft(p)' = 0
  BY <1>1 DEF StepsLeft
<1>3. StepsLeft(p) \in Nat /\ StepsLeft(p) # 0
  BY RankIsBounded, RankOf, PriceTrackerAssumption DEF RankBounded
<1> QED
  BY <1>2, <1>3

LEMMA GotoAdvances ==
  ASSUME TypeOK, NEW p \in Poller, UNCHANGED turn,
         \/ pc[p] = "token" /\ Goto(p, "locate")
         \/ pc[p] = "locate" /\ Goto(p, "fetch")
         \/ pc[p] = "fetch" /\ Goto(p, "query")
         \/ pc[p] = "query" /\ Goto(p, "commit")
         \/ pc[p] = "commit" /\ Goto(p, "announce")
  PROVE  StepsLeft(p)' < StepsLeft(p)
<1>1. Len(WatchedIds) \in Nat /\ turn[p] \in 1..Len(WatchedIds) /\ turn'[p] = turn[p]
  BY PriceTrackerAssumption DEF TypeOK
<1>2. \/ pc[p] = "token" /\ pc'[p] = "locate"
      \/ pc[p] = "locate" /\ pc'[p] = "fetch"
      \/ pc[p] = "fetch" /\ pc'[p] = "query"
      \/ pc[p] = "query" /\ pc'[p] = "commit"
      \/ pc[p] = "commit" /\ pc'[p] = "announce"
  BY DEF Goto, TypeOK
<1> QED
  BY <1>1, <1>2 DEF StepsLeft

LEMMA PollAdvances ==
  ASSUME TypeOK, NEW p \in Poller, RemoteStep(p) \/ LocalStep(p) \/ Crash(p)
  PROVE  StepsLeft(p)' < StepsLeft(p)
<1>1. CASE GetAccessToken(p) \/ FetchNearestLocation(p)
  BY <1>1, AbortPollAdvances, GotoAdvances DEF GetAccessToken, FetchNearestLocation
<1>2. CASE FetchProduct(p)
  BY <1>2, AbortPollAdvances, GotoAdvances, NextProductAdvances DEF FetchProduct
<1>3. CASE QueryProduct(p)
  BY <1>3, GotoAdvances DEF QueryProduct
<1>4. CASE Commit(p)
  BY <1>4, GotoAdvances, NextProductAdvances DEF Commit
<1>5. CASE CommitFails(p) \/ Crash(p)
  BY <1>5, AbortPollAdvances DEF CommitFails, Crash
<1>6. CASE Announce(p)
  BY <1>6, NextProductAdvances DEF Announce
<1> QED
  BY <1>1, <1>2, <1>3, <1>4, <1>5, <1>6 DEF RemoteStep, LocalStep

(* No step of one poller moves another in its poll.                        *)
LEMMA OthersStay ==
  ASSUME TypeOK, NEW p \in Poller, NEW q \in Poller \ {p},
         StartPoll(p) \/ RemoteStep(p) \/ LocalStep(p) \/ Crash(p)
  PROVE  StepsLeft(q)' = StepsLeft(q)
<1>1. CASE AbortPoll(p) \/ NextProduct(p)
  BY <1>1 DEF AbortPoll, NextProduct, Goto, TypeOK, StepsLeft
<1>2. ASSUME NEW step \in Steps, Goto(p, step), UNCHANGED turn
      PROVE  StepsLeft(q)' = StepsLeft(q)
  BY <1>2 DEF Goto, TypeOK, StepsLeft
<1>3. CASE StartPoll(p) \/ RemoteStep(p)
  BY <1>1, <1>2, <1>3 DEF StartPoll, RemoteStep, GetAccessToken, FetchNearestLocation,
                          FetchProduct, Steps
<1>4. CASE LocalStep(p) \/ Crash(p)
  BY <1>1, <1>2, <1>4 DEF LocalStep, QueryProduct, Commit, CommitFails, Announce, Crash, Steps
<1> QED
  BY <1>3, <1>4

(***************************************************************************)
(* The safety half of FetchedIsSettled, for any number of pollers and      *)
(* products: a poll takes at most four steps for every watched product and *)
(* two before them, whatever fails; nothing it meets, least of all a       *)
(* refused commit, sends it back, and no other poller can                  *)
(* (src/app.py:148-194).                                                   *)
(***************************************************************************)
THEOREM EveryStepAdvances == Spec => []RankBounded /\ PollsAdvance
<1>1. TypeOK => RankBounded
  BY RankIsBounded
<1>2. TypeOK /\ [Next]_vars => [Advances]_vars
  <2> SUFFICES ASSUME TypeOK, Next PROVE Advances
    OBVIOUS
  <2>1. PICK p \in Poller : StartPoll(p) \/ RemoteStep(p) \/ LocalStep(p) \/ Crash(p)
    BY DEF Next
  <2>2. \A q \in Poller \ {p} : Rank'[q] = Rank[q]
    BY <2>1, OthersStay, RankOf
  <2>3. pc[p] = "idle" \/ Rank'[p] < Rank[p]
    BY <2>1, PollAdvances, RankOf DEF StartPoll
  <2> QED
    BY <2>2, <2>3 DEF Advances
<1> QED
  BY <1>1, <1>2, TypeCorrect, PTL DEF Spec, PollsAdvance
=============================================================================
