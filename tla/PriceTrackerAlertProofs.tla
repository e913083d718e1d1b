----------------------- MODULE PriceTrackerAlertProofs -----------------------
(***************************************************************************)
(* Theorems about what PriceTracker announces, for any number of pollers   *)
(* where the statement does not say one, any list of watched products and  *)
(* any set of prices.                                                      *)
(***************************************************************************)
EXTENDS PriceTrackerProofs, FiniteSetTheorems

\* The pollers between the commit of a product and its alert.
Announcing(p, id) == pc[p] = "announce" /\ Pid(p) = id

\* The alert that a poller is about to print.
NextAlert(p) ==
  [kind  |-> IF existing[p] = Absent THEN "new" ELSE "drop", price |-> quote[p].promo]

-----------------------------------------------------------------------------
(* What a step can do to the pollers that have an alert to print, and to   *)
(* the alerts.                                                             *)

\* Where a poller stands about a product and with what; alike, it is left alone.
SameAlert(p) ==
  /\ Pid(p)' = Pid(p) /\ quote'[p] = quote[p] /\ existing'[p] = existing[p]

LEMMA AbortAnnounces ==
  ASSUME Typed, NEW p \in Poller, AbortPoll(p)
  PROVE  /\ pc'[p] # "announce"
         /\ \A q \in Poller \ {p} : pc'[q] = pc[q] /\ SameAlert(q)
  BY DEF Typed, TypeOK, AbortPoll, Forget, Goto, SameAlert, Pid

LEMMA NextProductAnnounces ==
  ASSUME Typed, NEW p \in Poller, NextProduct(p), Forget(p) \/ UNCHANGED session
  PROVE  /\ pc'[p] # "announce"
         /\ \A q \in Poller \ {p} : pc'[q] = pc[q] /\ SameAlert(q)
  BY DEF Typed, TypeOK, NextProduct, Forget, Goto, SameAlert, Pid, session

LEMMA GotoAnnounces ==
  ASSUME Typed, NEW p \in Poller, NEW step, Goto(p, step), UNCHANGED turn,
         \A q \in Poller \ {p} : quote'[q] = quote[q] /\ existing'[q] = existing[q]
  PROVE  /\ pc'[p] = step
         /\ \A q \in Poller \ {p} : pc'[q] = pc[q] /\ SameAlert(q)
  BY DEF Typed, TypeOK, Goto, SameAlert, Pid

(* A step is a commit, an alert, or leaves the database and the alerts     *)
(* alone and brings no poller to "announce".                               *)
Quiet ==
  /\ UNCHANGED <<db, alerts>>
  /\ crashes' = crashes => \A p \in Poller : pc[p] = "announce" => pc'[p] = "announce"
  /\ \A p \in Poller : pc'[p] = "announce" => pc[p] = "announce" /\ SameAlert(p)

LEMMA QuietStep ==
  ASSUME Typed, [Next]_vars
  PROVE  Quiet \/ \E p \in Poller : Commit(p) \/ Announce(p)
<1>1. CASE UNCHANGED vars
  BY <1>1 DEF Quiet, SameAlert, vars, db, Pid
<1>2. SUFFICES ASSUME NEW p \in Poller,
                      StartPoll(p) \/ RemoteStep(p) \/ QueryProduct(p) \/ CommitFails(p) \/ Crash(p)
               PROVE  Quiet
  BY <1>1 DEF Next, LocalStep
<1>3. UNCHANGED <<db, alerts>>
  BY <1>2 DEF StartPoll, RemoteStep, GetAccessToken, FetchNearestLocation, FetchProduct,
    QueryProduct, CommitFails, Crash, db
<1>4. /\ pc'[p] # "announce"
      /\ \A q \in Poller \ {p} : pc'[q] = pc[q] /\ SameAlert(q)
  <2>1. CASE AbortPoll(p)
    BY <2>1, AbortAnnounces
  <2>2. CASE NextProduct(p) /\ UNCHANGED session
    BY <2>2, NextProductAnnounces
  <2>3. ASSUME NEW step \in {"token", "locate", "fetch", "query", "commit"}, Goto(p, step),
               UNCHANGED turn,
               \A q \in Poller \ {p} : quote'[q] = quote[q] /\ existing'[q] = existing[q]
        PROVE  /\ pc'[p] # "announce"
               /\ \A q \in Poller \ {p} : pc'[q] = pc[q] /\ SameAlert(q)
    BY <2>3, GotoAnnounces
  <2>4. CASE StartPoll(p)
    BY <2>3, <2>4 DEF StartPoll, session
  <2>5. CASE GetAccessToken(p)
    BY <2>1, <2>3, <2>5 DEF GetAccessToken, session
  <2>6. CASE FetchNearestLocation(p)
    BY <2>1, <2>3, <2>6 DEF FetchNearestLocation, session
  <2>7. CASE FetchProduct(p)
    <3>1. ASSUME NEW q \in Quote, quote' = [quote EXCEPT ![p] = q], Goto(p, "query"),
                 UNCHANGED <<turn, existing>>
          PROVE  /\ pc'[p] # "announce"
                 /\ \A r \in Poller \ {p} : pc'[r] = pc[r] /\ SameAlert(r)
      BY <2>3, <3>1 DEF Typed, TypeOK
    <3> QED
      BY <2>1, <2>2, <2>7, <3>1 DEF FetchProduct
  <2>8. CASE QueryProduct(p)
    BY <2>3, <2>8 DEF QueryProduct, Typed, TypeOK
  <2>9. CASE CommitFails(p)
    BY <2>1, <2>9 DEF CommitFails
  <2>10. CASE Crash(p)
    BY <2>1, <2>10 DEF Crash
  <2> QED
    BY <1>2, <2>4, <2>5, <2>6, <2>7, <2>8, <2>9, <2>10 DEF RemoteStep
<1>5. crashes' = crashes => pc[p] # "announce"
  <2>1. ~Crash(p) => pc[p] # "announce"
    BY <1>2 DEF StartPoll, RemoteStep, GetAccessToken, FetchNearestLocation, FetchProduct,
      QueryProduct, CommitFails
  <2>2. Crash(p) => crashes' # crashes
    BY DEF Crash, Typed, TypeOK
  <2> QED
    BY <2>1, <2>2
<1> QED
  BY <1>3, <1>4, <1>5 DEF Quiet

\* A commit brings at most its own poller to "announce", with what it holds.
LEMMA CommitAnnounces ==
  ASSUME Typed, NEW p \in Poller, Commit(p)
  PROVE  /\ alerts' = alerts /\ crashes' = crashes
         /\ pc'[p] = "announce" <=> (existing[p] = Absent \/ IsDrop(p))
         /\ pc'[p] = "announce" => SameAlert(p)
         /\ \A q \in Poller \ {p} : pc'[q] = pc[q] /\ SameAlert(q)
<1>1. CASE existing[p] = Absent \/ IsDrop(p)
  BY <1>1, GotoAnnounces DEF Commit, session, SameAlert, Pid
<1>2. CASE ~(existing[p] = Absent \/ IsDrop(p))
  BY <1>2, NextProductAnnounces DEF Commit
<1> QED
  BY <1>1, <1>2 DEF Commit

LEMMA AnnounceEffect ==
  ASSUME Typed, NEW p \in Poller, Announce(p)
  PROVE  /\ UNCHANGED db /\ crashes' = crashes
         /\ Announcing(p, Pid(p)) /\ Pid(p) \in Ids
         /\ alerts[Pid(p)] \in Seq(Alert) /\ NextAlert(p) \in Alert
         /\ alerts'[Pid(p)] = Append(alerts[Pid(p)], NextAlert(p))
         /\ \A id \in Ids \ {Pid(p)} : alerts'[id] = alerts[id]
         /\ pc'[p] # "announce"
         /\ \A q \in Poller \ {p} : pc'[q] = pc[q] /\ SameAlert(q)
<1>1. Pid(p) \in Ids /\ alerts[Pid(p)] \in Seq(Alert) /\ quote[p] \in Quote
  BY PidIsWatched DEF Typed, TypeOK
<1>2. NextAlert(p) \in Alert
  BY <1>1 DEF NextAlert, Alert, Quote
<1>3. alerts' = [alerts EXCEPT ![Pid(p)] = Append(@, NextAlert(p))]
  BY DEF Announce, NextAlert
<1>4. /\ alerts'[Pid(p)] = Append(alerts[Pid(p)], NextAlert(p))
      /\ \A id \in Ids \ {Pid(p)} : alerts'[id] = alerts[id]
  BY <1>1, <1>3 DEF Typed, TypeOK
<1>5. NextProduct(p) /\ Forget(p) /\ UNCHANGED <<db, crashes>> /\ pc[p] = "announce"
  BY DEF Announce
<1> QED
  BY <1>1, <1>2, <1>4, <1>5, NextProductAnnounces DEF Announcing, db

-----------------------------------------------------------------------------
(* A product is new once: its first commit is the only one that found no   *)
(* row and put one, and the row is never taken away.                       *)

AnnouncesNew(p, id) == Announcing(p, id) /\ existing[p] = Absent

NewAlerts(id) == {i \in 1..Len(alerts[id]) : alerts[id][i].kind = "new"}

Discovery ==
  \A id \in Ids :
    /\ \A i, j \in NewAlerts(id) : i = j
    /\ \A p, q \in Poller : AnnouncesNew(p, id) /\ AnnouncesNew(q, id) => p = q
    /\ \A p \in Poller : AnnouncesNew(p, id) => NewAlerts(id) = {} /\ product[id] # Absent
    /\ NewAlerts(id) # {} => product[id] # Absent

LEMMA AppendNewAlerts ==
  ASSUME NEW id, alerts[id] \in Seq(Alert), NEW a \in Alert,
         alerts'[id] = Append(alerts[id], a)
  PROVE  NewAlerts(id)' = NewAlerts(id) \cup
           (IF a.kind = "new" THEN {Len(alerts[id]) + 1} ELSE {})
<1> DEFINE n == Len(alerts[id])
<1>1. /\ n \in Nat /\ Len(alerts'[id]) = n + 1 /\ alerts'[id][n + 1] = a
      /\ \A i \in 1..n : alerts'[id][i] = alerts[id][i]
  OBVIOUS
<1> HIDE DEF n
<1>2. 1..(n + 1) = (1..n) \cup {n + 1}
  BY <1>1
<1> QED
  BY <1>1, <1>2 DEF NewAlerts, n

LEMMA DiscoveryStep == Typed /\ Discovery /\ [Next]_vars => Discovery'
<1> SUFFICES ASSUME Typed, Discovery, [Next]_vars PROVE Discovery'
  OBVIOUS
<1>1. CASE Quiet
  <2>1. \A p \in Poller, id \in Ids : AnnouncesNew(p, id)' => AnnouncesNew(p, id)
    BY <1>1 DEF Quiet, SameAlert, AnnouncesNew, Announcing
  <2>2. UNCHANGED <<product, alerts>>
    BY <1>1 DEF Quiet, db
  <2> QED
    BY <2>1, <2>2 DEF Discovery, NewAlerts
<1>2. ASSUME NEW p \in Poller, Commit(p) PROVE Discovery'
  <2>1. \A q \in Poller, id \in Ids :
          AnnouncesNew(q, id)' =>
            \/ AnnouncesNew(q, id)
            \/ q = p /\ id = Pid(p) /\ existing[p] = Absent
    BY <1>2, CommitAnnounces DEF SameAlert, AnnouncesNew, Announcing
  <2>2. existing[p] = Absent => product[Pid(p)] = Absent
    BY <1>2 DEF Commit, Accepted
  <2>3. alerts' = alerts /\ \A id \in Ids : product[id] # Absent => product'[id] # Absent
    BY <1>2, CommitAnnounces, CommitTyped
  <2>4. product'[Pid(p)] # Absent
    BY <1>2, CommitEffect, AbsentAssumption
  <2> QED
    BY <2>1, <2>2, <2>3, <2>4 DEF Discovery, NewAlerts
<1>3. ASSUME NEW p \in Poller, Announce(p) PROVE Discovery'
  <2>1. \A q \in Poller, id \in Ids : AnnouncesNew(q, id)' => AnnouncesNew(q, id) /\ q # p
    BY <1>3, AnnounceEffect DEF SameAlert, AnnouncesNew, Announcing
  <2>2. product' = product
    BY <1>3, AnnounceEffect DEF db
  <2>3. PICK pid \in Ids : pid = Pid(p)
    BY <1>3, AnnounceEffect
  <2>4. \A id \in Ids \ {pid} : NewAlerts(id)' = NewAlerts(id)
    BY <1>3, <2>3, AnnounceEffect DEF NewAlerts
  <2>5. NewAlerts(pid)' = NewAlerts(pid) \cup
          (IF existing[p] = Absent THEN {Len(alerts[pid]) + 1} ELSE {})
    <3>1. NewAlerts(pid)' = NewAlerts(pid) \cup
            (IF NextAlert(p).kind = "new" THEN {Len(alerts[pid]) + 1} ELSE {})
      BY <1>3, <2>3, AnnounceEffect, AppendNewAlerts
    <3>2. NextAlert(p).kind = "new" <=> existing[p] = Absent
      BY DEF NextAlert
    <3> QED
      BY <3>1, <3>2
  <2>6. existing[p] = Absent =>
          /\ NewAlerts(pid) = {} /\ product[pid] # Absent
          /\ \A q \in Poller : AnnouncesNew(q, pid) => q = p
    BY <1>3, <2>3, AnnounceEffect DEF AnnouncesNew, Discovery
  <2>7. ASSUME NEW id \in Ids
        PROVE  /\ \A i, j \in NewAlerts(id)' : i = j
               /\ \A q, r \in Poller : AnnouncesNew(q, id)' /\ AnnouncesNew(r, id)' => q = r
               /\ \A q \in Poller : AnnouncesNew(q, id)' => NewAlerts(id)' = {} /\ product'[id] # Absent
               /\ NewAlerts(id)' # {} => product'[id] # Absent
    <3>1. CASE id # pid \/ existing[p] # Absent
      <4>1. NewAlerts(id)' = NewAlerts(id)
        BY <2>4, <2>5, <3>1
      <4> QED
        BY <2>1, <2>2, <4>1 DEF Discovery
    <3>2. CASE id = pid /\ existing[p] = Absent
      <4>1. NewAlerts(id)' = {Len(alerts[pid]) + 1}
        BY <2>5, <2>6, <3>2
      <4>2. \A q \in Poller : ~AnnouncesNew(q, id)'
        BY <2>1, <2>6, <3>2
      <4> QED
        BY <2>2, <2>6, <3>2, <4>1, <4>2
    <3> QED
      BY <3>1, <3>2
  <2> QED
    BY <2>7 DEF Discovery
<1> QED
  BY <1>1, <1>2, <1>3, QuietStep

(* A product is announced as new at most once, however many processes poll *)
(* it and die: the primary key lets in one of those that found no row      *)
(* (src/app.py:151-158).                                                   *)
THEOREM NewOnlyOnce == Spec => []DiscoveredOnce
<1>1. Init => Discovery
  BY DEF Init, Discovery, NewAlerts, AnnouncesNew, Announcing
<1>2. Discovery => DiscoveredOnce
  <2> SUFFICES ASSUME Discovery, NEW id \in Ids PROVE Cardinality(NewAlerts(id)) <= 1
    BY DEF DiscoveredOnce, NewAlerts
  <2>1. CASE NewAlerts(id) = {}
    BY <2>1, FS_EmptySet
  <2>2. CASE NewAlerts(id) # {}
    <3>1. PICK i : NewAlerts(id) = {i}
      BY <2>2 DEF Discovery
    <3> QED
      BY <3>1, FS_Singleton
  <2> QED
    BY <2>1, <2>2
<1> QED
  BY <1>1, <1>2, DiscoveryStep, AlwaysTyped, PTL DEF Spec

-----------------------------------------------------------------------------
(* Alerts never outnumber the rows: an alert printed, or about to be, has  *)
(* a history row of its own with its price.                                *)

Priced(id, price) == {i \in 1..Len(alerts[id]) : alerts[id][i].price = price}
Recorded(id, price) == {i \in 1..Len(history[id]) : history[id][i].promo = price}
Pending(id, price) == {p \in Poller : Announcing(p, id) /\ quote[p].promo = price}

Backed(id, price) ==
  /\ IsFiniteSet(Pending(id, price))
  /\ Cardinality(Priced(id, price)) + Cardinality(Pending(id, price))
       <= Cardinality(Recorded(id, price))

AlertsAreBacked == \A id \in Ids, price \in Price : Backed(id, price)

LEMMA FiniteCounts ==
  ASSUME Typed, NEW id \in Ids, NEW price
  PROVE  /\ IsFiniteSet(Priced(id, price)) /\ IsFiniteSet(Recorded(id, price))
         /\ Cardinality(Priced(id, price)) \in Nat
         /\ Cardinality(Recorded(id, price)) \in Nat
<1>1. 1 \in Int /\ Len(alerts[id]) \in Int /\ Len(history[id]) \in Int
  <2>1. alerts[id] \in Seq(Alert) /\ history[id] \in Seq(Quote)
    BY DEF Typed, TypeOK
  <2> QED
    BY <2>1
<1>2. IsFiniteSet(1..Len(alerts[id])) /\ IsFiniteSet(1..Len(history[id]))
  BY <1>1, FS_Interval
<1>3. /\ Priced(id, price) \in SUBSET (1..Len(alerts[id]))
      /\ Recorded(id, price) \in SUBSET (1..Len(history[id]))
  BY DEF Priced, Recorded
<1>4. IsFiniteSet(Priced(id, price)) /\ IsFiniteSet(Recorded(id, price))
  BY <1>2, <1>3, FS_Subset
<1> QED
  BY <1>4, FS_CardinalityType

\* One more history row is one more row of its price.
LEMMA AppendRecorded ==
  ASSUME Typed, NEW id \in Ids, NEW price, NEW row \in Quote,
         history'[id] = Append(history[id], row)
  PROVE  Cardinality(Recorded(id, price))' =
           Cardinality(Recorded(id, price)) + (IF row.promo = price THEN 1 ELSE 0)
<1> DEFINE n == Len(history[id])
<1>0. history[id] \in Seq(Quote)
  BY DEF Typed, TypeOK
<1>1. /\ n \in Nat /\ Len(history'[id]) = n + 1 /\ history'[id][n + 1] = row
      /\ \A i \in 1..n : history'[id][i] = history[id][i]
  BY <1>0
<1>2. Recorded(id, price) = {i \in 1..n : history[id][i].promo = price}
  BY DEF Recorded
<1>3. Recorded(id, price)' = {i \in 1..Len(history'[id]) : history'[id][i].promo = price}
  BY DEF Recorded
<1> HIDE DEF n
<1>4. 1..(n + 1) = (1..n) \cup {n + 1} /\ n + 1 \notin 1..n
  BY <1>1
<1>5. Recorded(id, price)' =
        IF row.promo = price THEN Recorded(id, price) \cup {n + 1} ELSE Recorded(id, price)
  BY <1>1, <1>2, <1>3, <1>4
<1>6. n + 1 \notin Recorded(id, price)
  BY <1>2, <1>4
<1>7. IsFiniteSet(Recorded(id, price)) /\ Cardinality(Recorded(id, price)) \in Nat
  BY FiniteCounts
<1>8. Cardinality(Recorded(id, price) \cup {n + 1}) = Cardinality(Recorded(id, price)) + 1
  BY <1>6, <1>7, FS_AddElement
<1>9. Cardinality(Recorded(id, price))' = Cardinality(Recorded(id, price)')
  OBVIOUS
<1> QED
  BY <1>5, <1>7, <1>8, <1>9

\* One more alert is one more alert of its price.
LEMMA AppendPriced ==
  ASSUME Typed, NEW id \in Ids, NEW price, NEW a \in Alert,
         alerts'[id] = Append(alerts[id], a)
  PROVE  Cardinality(Priced(id, price))' =
           Cardinality(Priced(id, price)) + (IF a.price = price THEN 1 ELSE 0)
<1> DEFINE n == Len(alerts[id])
<1>0. alerts[id] \in Seq(Alert)
  BY DEF Typed, TypeOK
<1>1. /\ n \in Nat /\ Len(alerts'[id]) = n + 1 /\ alerts'[id][n + 1] = a
      /\ \A i \in 1..n : alerts'[id][i] = alerts[id][i]
  BY <1>0
<1>2. Priced(id, price) = {i \in 1..n : alerts[id][i].price = price}
  BY DEF Priced
<1>3. Priced(id, price)' = {i \in 1..Len(alerts'[id]) : alerts'[id][i].price = price}
  BY DEF Priced
<1> HIDE DEF n
<1>4. 1..(n + 1) = (1..n) \cup {n + 1} /\ n + 1 \notin 1..n
  BY <1>1
<1>5. Priced(id, price)' =
        IF a.price = price THEN Priced(id, price) \cup {n + 1} ELSE Priced(id, price)
  BY <1>1, <1>2, <1>3, <1>4
<1>6. n + 1 \notin Priced(id, price)
  BY <1>2, <1>4
<1>7. IsFiniteSet(Priced(id, price)) /\ Cardinality(Priced(id, price)) \in Nat
  BY FiniteCounts
<1>8. Cardinality(Priced(id, price) \cup {n + 1}) = Cardinality(Priced(id, price)) + 1
  BY <1>6, <1>7, FS_AddElement
<1>9. Cardinality(Priced(id, price))' = Cardinality(Priced(id, price)')
  OBVIOUS
<1> QED
  BY <1>5, <1>7, <1>8, <1>9

LEMMA BackedStep == Typed /\ AlertsAreBacked /\ [Next]_vars => AlertsAreBacked'
<1> SUFFICES ASSUME Typed, AlertsAreBacked, [Next]_vars, NEW id \in Ids, NEW price \in Price
             PROVE  Backed(id, price)'
  BY DEF AlertsAreBacked
<1> DEFINE a == Cardinality(Priced(id, price))
           h == Cardinality(Recorded(id, price))
           P == Pending(id, price)
<1>1. /\ a \in Nat /\ h \in Nat /\ IsFiniteSet(P) /\ Cardinality(P) \in Nat
      /\ a + Cardinality(P) <= h
  BY FiniteCounts, FS_CardinalityType DEF AlertsAreBacked, Backed
<1>2. SUFFICES IsFiniteSet(P') /\ a' + Cardinality(P') <= h'
  BY DEF Backed
<1>3. CASE Quiet
  <2>1. P' \in SUBSET P
    BY <1>3 DEF Quiet, SameAlert, Pending, Announcing
  <2>2. a' = a /\ h' = h
    BY <1>3 DEF Quiet, db, Priced, Recorded
  <2>3. IsFiniteSet(P') /\ Cardinality(P') <= Cardinality(P) /\ Cardinality(P') \in Nat
    BY <1>1, <2>1, FS_Subset, FS_CardinalityType
  <2> HIDE DEF a, h, P
  <2> QED
    BY <1>1, <2>2, <2>3
<1>4. ASSUME NEW p \in Poller, Commit(p) PROVE IsFiniteSet(P') /\ a' + Cardinality(P') <= h'
  <2>1. PICK pid \in Ids : pid = Pid(p)
    BY <1>4, CommitEffect
  <2>2. a' = a
    BY <1>4, CommitAnnounces DEF Priced
  <2>3. CASE id = pid /\ quote[p].promo = price
    <3>1. P' \in SUBSET (P \cup {p})
      BY <1>4, CommitAnnounces DEF SameAlert, Pending, Announcing
    <3>2. IsFiniteSet(P \cup {p}) /\ Cardinality(P \cup {p}) \in Nat
          /\ Cardinality(P \cup {p}) <= Cardinality(P) + 1
      <4> HIDE DEF a, h, P
      <4>1. /\ IsFiniteSet(P \cup {p})
            /\ Cardinality(P \cup {p}) = IF p \in P THEN Cardinality(P) ELSE Cardinality(P) + 1
        BY <1>1, FS_AddElement
      <4> QED
        BY <1>1, <4>1
    <3>3. IsFiniteSet(P') /\ Cardinality(P') <= Cardinality(P \cup {p}) /\ Cardinality(P') \in Nat
      BY <3>1, <3>2, FS_Subset, FS_CardinalityType
    <3>4. h' = h + 1
      BY <1>4, <2>1, <2>3, CommitEffect, AppendRecorded
    <3> HIDE DEF a, h, P
    <3> QED
      BY <1>1, <2>2, <3>2, <3>3, <3>4
  <2>4. CASE ~(id = pid /\ quote[p].promo = price)
    <3>1. P' \in SUBSET P
      BY <1>4, <2>1, <2>4, CommitAnnounces DEF SameAlert, Pending, Announcing
    <3>2. IsFiniteSet(P') /\ Cardinality(P') <= Cardinality(P) /\ Cardinality(P') \in Nat
      BY <1>1, <3>1, FS_Subset, FS_CardinalityType
    <3>3. h' = h
      <4>1. CASE id = pid
        BY <1>1, <1>4, <2>1, <2>4, <4>1, CommitEffect, AppendRecorded
      <4>2. CASE id # pid
        BY <1>4, <2>1, <4>2, CommitEffect DEF Recorded
      <4> QED
        BY <4>1, <4>2
    <3> HIDE DEF a, h, P
    <3> QED
      BY <1>1, <2>2, <3>2, <3>3
  <2> QED
    BY <2>3, <2>4
<1>5. ASSUME NEW p \in Poller, Announce(p) PROVE IsFiniteSet(P') /\ a' + Cardinality(P') <= h'
  <2>1. PICK pid \in Ids : pid = Pid(p)
    BY <1>5, AnnounceEffect
  <2>2. h' = h
    BY <1>5, AnnounceEffect DEF db, Recorded
  <2>3. P' \in SUBSET (P \ {p})
    BY <1>5, AnnounceEffect DEF SameAlert, Pending, Announcing
  <2>4. /\ IsFiniteSet(P \ {p}) /\ Cardinality(P \ {p}) \in Nat
        /\ Cardinality(P \ {p}) = IF p \in P THEN Cardinality(P) - 1 ELSE Cardinality(P)
    BY <1>1, FS_RemoveElement, FS_CardinalityType
  <2>5. IsFiniteSet(P') /\ Cardinality(P') <= Cardinality(P \ {p}) /\ Cardinality(P') \in Nat
    BY <2>3, <2>4, FS_Subset, FS_CardinalityType
  <2>6. CASE p \in P
    <3>1. id = pid /\ NextAlert(p).price = price
      BY <2>1, <2>6 DEF Pending, Announcing, NextAlert
    <3>2. a' = a + 1
      BY <1>5, <2>1, <3>1, AnnounceEffect, AppendPriced
    <3> HIDE DEF a, h, P
    <3> QED
      BY <1>1, <2>2, <2>4, <2>5, <2>6, <3>2
  <2>7. CASE p \notin P
    <3>1. a' = a
      <4>1. CASE id = pid
        <5>1. NextAlert(p).price # price
          BY <1>5, <2>1, <2>7, <4>1, AnnounceEffect DEF Pending, Announcing, NextAlert
        <5> QED
          BY <1>1, <1>5, <2>1, <4>1, <5>1, AnnounceEffect, AppendPriced
      <4>2. CASE id # pid
        BY <1>5, <2>1, <4>2, AnnounceEffect DEF Priced
      <4> QED
        BY <4>1, <4>2
    <3> HIDE DEF a, h, P
    <3> QED
      BY <1>1, <2>2, <2>4, <2>5, <2>7, <3>1
  <2> QED
    BY <2>6, <2>7
<1> QED
  BY <1>3, <1>4, <1>5, QuietStep

(* Every alert has a history row of its own with its price, however many   *)
(* processes poll and die: the print comes after the commit that recorded  *)
(* the quote (src/app.py:160-184).                                         *)
THEOREM AnnouncedIsRecorded == Spec => []AnnouncedWasRecorded
<1>1. Init => AlertsAreBacked
  <2> SUFFICES ASSUME Init, NEW id \in Ids, NEW price \in Price PROVE Backed(id, price)
    BY DEF AlertsAreBacked
  <2>1. Priced(id, price) = {} /\ Recorded(id, price) = {} /\ Pending(id, price) = {}
    BY DEF Init, Priced, Recorded, Pending, Announcing
  <2> QED
    BY <2>1, FS_EmptySet DEF Backed
<1>2. Typed /\ AlertsAreBacked => AnnouncedWasRecorded
  <2> SUFFICES ASSUME Typed, AlertsAreBacked, NEW id \in Ids, NEW price \in Price
               PROVE  Cardinality(Priced(id, price)) <= Cardinality(Recorded(id, price))
    BY DEF AnnouncedWasRecorded, Priced, Recorded
  <2>1. Backed(id, price) /\ Cardinality(Pending(id, price)) \in Nat
    BY FS_CardinalityType DEF AlertsAreBacked, Backed
  <2> QED
    BY <2>1, FiniteCounts DEF Backed
<1> QED
  BY <1>1, <1>2, BackedStep, AlwaysTyped, PTL DEF Spec

-----------------------------------------------------------------------------
(* Any number of pollers.  Alerts of one product need not fall, but each   *)
(* keeps its place relative to the first recorded price.                   *)

Fits(id, alert) ==
  /\ history[id] # <<>>
  /\ alert.kind = "new" => alert.price = history[id][1].promo
  /\ alert.kind = "drop" => alert.price < history[id][1].promo

(* "New" announces the first price recorded for the product, and every     *)
(* drop is below that price, whichever pollers print them and in whatever  *)
(* order, stale decisions included (src/app.py:153-180).                   *)
AlertsStartFromFirst ==
  \A id \in Ids : \A i \in 1..Len(alerts[id]) : Fits(id, alerts[id][i])

PendingFits ==
  \A id \in Ids : \A p \in Poller : Announcing(p, id) => Fits(id, NextAlert(p))

FitInv == AlertsStartFromFirst /\ PendingFits

\* The first row stays the first.
LEMMA FitsStays ==
  ASSUME Typed, [Next]_vars, NEW id \in Ids, NEW alert, Fits(id, alert)
  PROVE  Fits(id, alert)'
  BY CandidatesGrow DEF Fits

\* What a commit leaves to be announced fits the row it has just recorded.
LEMMA CommitFits ==
  ASSUME SharedInv, NEW p \in Poller, Commit(p), NEW id \in Ids, id = Pid(p),
         existing[p] = Absent \/ IsDrop(p)
  PROVE  Fits(id, NextAlert(p))'
<1>0. Typed /\ CatalogueMatchesHistory /\ [Next]_vars
  BY DEF SharedInv, Next, LocalStep
<1>1. /\ history[id] \in Seq(Quote) /\ history'[id] = Append(history[id], quote[p])
      /\ quote[p] \in Quote /\ quote[p].promo \in Nat
  BY <1>0, CommitEffect, SharedCommit DEF Typed, TypeOK
<1>2. quote'[p] = quote[p] /\ existing'[p] = existing[p]
  BY DEF Commit, session
<1>3. CASE existing[p] = Absent
  <2>1. history'[id][1] = quote[p] /\ history'[id] # <<>>
    BY <1>1, <1>3, SharedCommit
  <2> QED
    BY <1>2, <1>3, <2>1 DEF Fits, NextAlert
<1>4. CASE existing[p] # Absent
  <2>1. PICK seen \in Ledger!Candidates(id) : quote[p].promo < seen.promo
    BY <1>4, SharedCommit
  <2>2. /\ seen.promo \in Nat /\ history[id][1].promo \in Nat
        /\ seen.promo <= history[id][1].promo /\ history[id] # <<>>
    BY <1>0, KeptIsNumber
  <2>3. history'[id] # <<>> /\ history'[id][1] = history[id][1]
    BY <1>0, <2>2, CandidatesGrow
  <2>4. quote[p].promo < history[id][1].promo
    BY <1>1, <2>1, <2>2
  <2> QED
    BY <1>2, <1>4, <2>3, <2>4 DEF Fits, NextAlert
<1> QED
  BY <1>3, <1>4

LEMMA FitStep == SharedInv /\ FitInv /\ [Next]_vars => FitInv'
<1> SUFFICES ASSUME SharedInv, FitInv, [Next]_vars PROVE FitInv'
  OBVIOUS
<1>0. Typed
  BY DEF SharedInv
<1>1. ASSUME NEW q \in Poller, NEW id \in Ids, SameAlert(q), Fits(id, NextAlert(q))
      PROVE  Fits(id, NextAlert(q))'
  <2>1. NextAlert(q)' = NextAlert(q)
    BY <1>1 DEF SameAlert, NextAlert
  <2> QED
    BY <1>0, <1>1, <2>1, CandidatesGrow DEF Fits
<1>2. ASSUME NEW id \in Ids, alerts'[id] = alerts[id], NEW i \in 1..Len(alerts'[id])
      PROVE  Fits(id, alerts[id][i])'
  BY <1>0, <1>2, FitsStays DEF FitInv, AlertsStartFromFirst, Fits
<1>3. CASE Quiet
  BY <1>1, <1>2, <1>3 DEF Quiet, db, SameAlert, Announcing, FitInv, AlertsStartFromFirst,
                          PendingFits
<1>4. ASSUME NEW p \in Poller, Commit(p) PROVE FitInv'
  <2>1. AlertsStartFromFirst'
    BY <1>0, <1>2, <1>4, CommitAnnounces DEF AlertsStartFromFirst
  <2>2. ASSUME NEW id \in Ids, NEW q \in Poller, Announcing(q, id)'
        PROVE  Fits(id, NextAlert(q))'
    <3>1. CASE q = p
      <4>1. id = Pid(p) /\ (existing[p] = Absent \/ IsDrop(p))
        BY <1>0, <1>4, <2>2, <3>1, CommitAnnounces DEF Announcing, SameAlert
      <4> QED
        BY <1>4, <3>1, <4>1, CommitFits
    <3>2. CASE q # p
      <4>1. SameAlert(q) /\ Announcing(q, id)
        BY <1>0, <1>4, <2>2, <3>2, CommitAnnounces DEF Announcing, SameAlert
      <4> QED
        BY <1>1, <4>1 DEF FitInv, PendingFits
    <3> QED
      BY <3>1, <3>2
  <2> QED
    BY <2>1, <2>2 DEF FitInv, PendingFits
<1>5. ASSUME NEW p \in Poller, Announce(p) PROVE FitInv'
  <2>1. PendingFits'
    <3> SUFFICES ASSUME NEW id \in Ids, NEW q \in Poller, Announcing(q, id)'
                 PROVE  Fits(id, NextAlert(q))'
      BY DEF PendingFits
    <3>1. SameAlert(q) /\ Announcing(q, id)
      BY <1>0, <1>5, AnnounceEffect DEF Announcing, SameAlert
    <3> QED
      BY <1>1, <3>1 DEF FitInv, PendingFits
  <2>2. PICK pid \in Ids : pid = Pid(p)
    BY <1>0, <1>5, AnnounceEffect
  <2>3. /\ alerts'[pid] = Append(alerts[pid], NextAlert(p)) /\ NextAlert(p) \in Alert
        /\ alerts[pid] \in Seq(Alert) /\ Announcing(p, pid)
        /\ \A id \in Ids \ {pid} : alerts'[id] = alerts[id]
    BY <1>0, <1>5, <2>2, AnnounceEffect
  <2>4. ASSUME NEW i \in 1..Len(alerts'[pid])
        PROVE  Fits(pid, alerts[pid][i])'
    <3>1. \/ i \in 1..Len(alerts[pid]) /\ alerts'[pid][i] = alerts[pid][i]
          \/ alerts'[pid][i] = NextAlert(p)
      BY <2>3
    <3>2. Fits(pid, alerts'[pid][i])
      BY <2>3, <3>1 DEF FitInv, AlertsStartFromFirst, PendingFits
    <3> QED
      BY <1>0, <3>2, FitsStays DEF Fits
  <2> QED
    BY <1>2, <2>1, <2>3, <2>4 DEF FitInv, AlertsStartFromFirst
<1> QED
  BY <1>0, <1>3, <1>4, <1>5, QuietStep

THEOREM AlertsKnowTheFirst == Spec => []AlertsStartFromFirst
<1>1. Init => FitInv
  BY DEF Init, FitInv, AlertsStartFromFirst, PendingFits, Announcing
<1>2. FitInv => AlertsStartFromFirst
  BY DEF FitInv
<1> QED
  BY <1>1, <1>2, FitStep, AlwaysShared, PTL DEF Spec

-----------------------------------------------------------------------------
(* One poller.  What is stored is below all that was announced, but for    *)
(* the last alert once it is printed.                                      *)

Announced(id) == {alerts[id][i].price : i \in 1..Len(alerts[id])}

Falling(id) ==
  /\ \A i, j \in 1..Len(alerts[id]) : i < j => alerts[id][j].price < alerts[id][i].price
  /\ Announced(id) # {} => product[id] # Absent
  /\ \A price \in Announced(id) : price \in Nat /\ product[id].promo <= price
  /\ \A p \in Poller : Announcing(p, id) =>
       /\ product[id] # Absent
       /\ quote[p].promo = product[id].promo
       /\ \A price \in Announced(id) : product[id].promo < price

Kept(id) ==
  \/ crashes > 0
  \/ product[id] = Absent
  \/ \E p \in Poller : Announcing(p, id)
  \/ /\ alerts[id] # <<>>
     /\ alerts[id][Len(alerts[id])].price = product[id].promo

AlertInv == \A id \in Ids : Falling(id) /\ Kept(id)

\* A product that a step leaves alone, in its row, its alerts and its poller.
LEMMA FallingAlone ==
  ASSUME NEW id \in Ids, Falling(id), product'[id] = product[id], alerts'[id] = alerts[id],
         \A p \in Poller : Announcing(p, id)' => Announcing(p, id) /\ quote'[p] = quote[p]
  PROVE  Falling(id)'
<1>1. Announced(id)' = Announced(id)
  BY DEF Announced
<1>2. /\ \A i, j \in 1..Len(alerts'[id]) : i < j => alerts'[id][j].price < alerts'[id][i].price
      /\ Announced(id)' # {} => product'[id] # Absent
      /\ \A price \in Announced(id)' : price \in Nat /\ product'[id].promo <= price
  BY <1>1 DEF Falling
<1>3. ASSUME NEW p \in Poller, Announcing(p, id)'
      PROVE  /\ product'[id] # Absent
             /\ quote'[p].promo = product'[id].promo
             /\ \A price \in Announced(id)' : product'[id].promo < price
  BY <1>1, <1>3 DEF Falling
<1> QED
  BY <1>2, <1>3 DEF Falling

LEMMA KeptAlone ==
  ASSUME NEW id \in Ids, Kept(id), crashes' = crashes,
         product'[id] = product[id], alerts'[id] = alerts[id],
         \A p \in Poller : Announcing(p, id) => Announcing(p, id)'
  PROVE  Kept(id)'
  BY DEF Kept

LEMMA AppendAnnounced ==
  ASSUME Typed, NEW id \in Ids, NEW a \in Alert, alerts'[id] = Append(alerts[id], a)
  PROVE  /\ Len(alerts[id]) \in Nat /\ Len(alerts'[id]) = Len(alerts[id]) + 1
         /\ alerts'[id] # <<>>
         /\ alerts'[id][Len(alerts[id]) + 1] = a
         /\ \A i \in 1..Len(alerts[id]) : alerts'[id][i] = alerts[id][i]
         /\ Announced(id)' = Announced(id) \cup {a.price}
<1>0. alerts[id] \in Seq(Alert)
  BY DEF Typed, TypeOK
<1>1. /\ Len(alerts[id]) \in Nat /\ Len(alerts'[id]) = Len(alerts[id]) + 1
      /\ alerts'[id] # <<>>
      /\ alerts'[id][Len(alerts[id]) + 1] = a
      /\ \A i \in 1..Len(alerts[id]) : alerts'[id][i] = alerts[id][i]
  BY <1>0
<1>2. 1..(Len(alerts[id]) + 1) = (1..Len(alerts[id])) \cup {Len(alerts[id]) + 1}
  BY <1>1
<1> QED
  BY <1>1, <1>2 DEF Announced

LEMMA StoredPromo ==
  ASSUME LowestInv, NEW id \in Ids, product[id] # Absent
  PROVE  product[id].promo \in Nat /\ product[id].promo # None
<1>1. product[id] \in Rows(id) /\ product[id] \in Quote
  BY DEF LowestInv, StoredIsLowest, Typed, TypeOK
<1>2. product[id].promo # None
  BY <1>1 DEF LowestInv, CatalogueMatchesHistory
<1> QED
  BY <1>1, <1>2, PriceTrackerAssumption DEF Quote

\* A commit that is to be announced lowers what is stored; any other keeps it.
LEMMA CommitLowers ==
  ASSUME LowestInv, NEW p \in Poller, Commit(p), NEW pid \in Ids, pid = Pid(p)
  PROVE  /\ pc'[p] = "announce" =>
              /\ product'[pid] = quote[p] /\ quote[p].promo \in Nat
              /\ product[pid] = Absent \/ quote[p].promo < product[pid].promo
         /\ pc'[p] # "announce" => product'[pid] = product[pid] /\ product[pid] # Absent
<1>1. existing[p] = product[pid] /\ product'[pid] = Stored(p)
  BY CommitEffect DEF LowestInv, NotStale, Commit
<1>2. pc'[p] = "announce" <=> (existing[p] = Absent \/ IsDrop(p))
  BY CommitAnnounces DEF LowestInv
<1>3. /\ quote[p].promo \in Nat /\ quote[p].promo # None
      /\ product[pid] # Absent => product[pid].promo \in Nat /\ product[pid].promo # None
      /\ Stored(p) = IF product[pid] = Absent \/ quote[p].promo < product[pid].promo
                       THEN quote[p] ELSE product[pid]
  BY FreshStored, CommitEffect, StoredPromo DEF LowestInv
<1>4. product[pid] # Absent => (IsDrop(p) <=> quote[p].promo < product[pid].promo)
  BY <1>1, <1>3 DEF IsDrop, OrZero
<1> QED
  BY <1>1, <1>2, <1>3, <1>4

LEMMA AlertStep ==
  ASSUME LowestInv, AlertInv, [Next]_vars, \E p \in Poller : Poller = {p}
  PROVE  AlertInv'
<1>0. Typed
  BY DEF LowestInv
<1>1. CASE Quiet
  <2>1. \A p \in Poller, id \in Ids :
          Announcing(p, id)' => Announcing(p, id) /\ quote'[p] = quote[p]
    BY <1>1 DEF Quiet, SameAlert, Announcing
  <2>2. product' = product /\ alerts' = alerts
    BY <1>1 DEF Quiet, db
  <2>3. \A id \in Ids : Falling(id)'
    BY <2>1, <2>2, FallingAlone DEF AlertInv
  <2>4. crashes \in Nat /\ crashes' \in Nat
    <3>1. Typed'
      BY <1>0, NextTyped
    <3> QED
      BY <1>0, <3>1, PriceTrackerAssumption DEF Typed, TypeOK
  <2>5. crashes' = crashes \/ crashes' > 0
    BY <2>4 DEF Next, vars, StartPoll, RemoteStep, LocalStep, GetAccessToken, FetchProduct,
      FetchNearestLocation, QueryProduct, Commit, CommitFails, Announce, Crash
  <2>6. crashes' = crashes =>
          \A p \in Poller, id \in Ids : Announcing(p, id) => Announcing(p, id)'
    BY <1>1 DEF Quiet, SameAlert, Announcing
  <2>7. \A id \in Ids : Kept(id)'
    BY <2>2, <2>4, <2>5, <2>6 DEF AlertInv, Kept
  <2> QED
    BY <2>3, <2>7 DEF AlertInv
<1>2. ASSUME NEW p \in Poller, Commit(p) PROVE AlertInv'
  <2>1. PICK pid \in Ids : pid = Pid(p)
    BY <1>0, <1>2, CommitEffect
  <2>2. /\ alerts' = alerts /\ crashes' = crashes
        /\ \A id \in Ids \ {pid} : product'[id] = product[id]
    BY <1>0, <1>2, <2>1, CommitAnnounces, CommitEffect
  <2>3. pc[p] = "commit" /\ Poller = {p}
    BY <1>2 DEF Commit
  <2>4. \A id \in Ids : Announcing(p, id)' => id = pid /\ quote'[p] = quote[p]
    BY <1>0, <1>2, <2>1, CommitAnnounces DEF SameAlert, Announcing
  <2>5. ASSUME NEW id \in Ids \ {pid} PROVE Falling(id)' /\ Kept(id)'
    <3>1. \A q \in Poller : ~Announcing(q, id) /\ ~Announcing(q, id)'
      BY <2>1, <2>3, <2>4, <2>5 DEF Announcing
    <3> QED
      BY <2>2, <3>1, FallingAlone, KeptAlone DEF AlertInv
  <2>6. Announced(pid)' = Announced(pid)
    BY <2>2 DEF Announced
  <2>7. /\ \A price \in Announced(pid) : price \in Nat /\ product[pid].promo <= price
        /\ Announced(pid) # {} => product[pid] # Absent
        /\ product[pid] # Absent => product[pid].promo \in Nat
    BY StoredPromo DEF AlertInv, Falling
  <2>8. CASE pc'[p] = "announce"
    <3>1. /\ product'[pid] = quote[p] /\ quote[p].promo \in Nat
          /\ product[pid] = Absent \/ quote[p].promo < product[pid].promo
      BY <1>2, <2>1, <2>8, CommitLowers
    <3>2. \A price \in Announced(pid) : quote[p].promo < price
      BY <2>7, <3>1
    <3>3. product'[pid] # Absent
      BY <1>0, <1>2, <2>1, CommitEffect, AbsentAssumption
    <3>4. Announcing(p, pid)'
      BY <1>0, <1>2, <2>1, <2>8, CommitAnnounces DEF SameAlert, Announcing
    <3>5. Falling(pid)'
      <4>1. /\ \A i, j \in 1..Len(alerts'[pid]) :
                 i < j => alerts'[pid][j].price < alerts'[pid][i].price
        BY <2>2 DEF AlertInv, Falling
      <4>2. \A price \in Announced(pid)' :
              price \in Nat /\ product'[pid].promo < price /\ product'[pid].promo <= price
        BY <2>6, <2>7, <3>1, <3>2
      <4>3. quote'[p].promo = product'[pid].promo
        BY <2>4, <3>1, <3>4
      <4> QED
        BY <2>3, <3>3, <4>1, <4>2, <4>3 DEF Falling
    <3> QED
      BY <2>5, <3>4, <3>5 DEF AlertInv, Kept
  <2>9. CASE pc'[p] # "announce"
    <3>1. product'[pid] = product[pid]
      BY <1>2, <2>1, <2>9, CommitLowers
    <3> QED
      BY <2>2, <2>3, <2>5, <2>6, <2>9, <3>1 DEF AlertInv, Falling, Kept, Announcing
  <2> QED
    BY <2>8, <2>9
<1>3. ASSUME NEW p \in Poller, Announce(p) PROVE AlertInv'
  <2>1. PICK pid \in Ids : pid = Pid(p)
    BY <1>0, <1>3, AnnounceEffect
  <2>2. /\ product' = product /\ crashes' = crashes
        /\ \A id \in Ids \ {pid} : alerts'[id] = alerts[id]
        /\ Announcing(p, pid) /\ Poller = {p} /\ pc'[p] # "announce"
        /\ \A id \in Ids \ {pid} : ~Announcing(p, id)
    BY <1>0, <1>3, <2>1, AnnounceEffect DEF db, Announcing
  <2>3. ASSUME NEW id \in Ids \ {pid} PROVE Falling(id)' /\ Kept(id)'
    <3>1. \A q \in Poller : ~Announcing(q, id) /\ ~Announcing(q, id)'
      BY <2>2 DEF Announcing
    <3> QED
      BY <2>2, <3>1, FallingAlone, KeptAlone DEF AlertInv
  <2>4. /\ NextAlert(p) \in Alert /\ NextAlert(p).price = product[pid].promo
        /\ alerts'[pid] = Append(alerts[pid], NextAlert(p))
        /\ product[pid] # Absent /\ product[pid].promo \in Nat
        /\ \A price \in Announced(pid) : price \in Nat /\ product[pid].promo < price
    <3>1. /\ product[pid] # Absent /\ quote[p].promo = product[pid].promo
          /\ \A price \in Announced(pid) : price \in Nat /\ product[pid].promo < price
      BY <2>2 DEF AlertInv, Falling
    <3>2. NextAlert(p).price = quote[p].promo
      BY DEF NextAlert
    <3> QED
      BY <1>0, <1>3, <2>1, <3>1, <3>2, AnnounceEffect, StoredPromo
  <2> DEFINE n == Len(alerts[pid])
  <2>5. /\ n \in Nat /\ Len(alerts'[pid]) = n + 1 /\ alerts'[pid] # <<>>
        /\ alerts'[pid][n + 1].price = product[pid].promo
        /\ \A i \in 1..n : alerts'[pid][i] = alerts[pid][i]
        /\ Announced(pid)' = Announced(pid) \cup {product[pid].promo}
    BY <1>0, <2>4, AppendAnnounced
  <2>6. \A i \in 1..n : alerts[pid][i].price \in Announced(pid)
    BY DEF Announced
  <2>7. \A i, j \in 1..n : i < j => alerts[pid][j].price < alerts[pid][i].price
    BY DEF AlertInv, Falling
  <2> HIDE DEF n
  <2>8. \A i, j \in 1..(n + 1) : i < j => alerts'[pid][j].price < alerts'[pid][i].price
    <3> SUFFICES ASSUME NEW i \in 1..(n + 1), NEW j \in 1..(n + 1), i < j
                 PROVE  alerts'[pid][j].price < alerts'[pid][i].price
      OBVIOUS
    <3>1. i \in 1..n /\ (j \in 1..n \/ j = n + 1)
      BY <2>5
    <3>2. CASE j \in 1..n
      BY <2>5, <2>7, <3>1, <3>2
    <3>3. CASE j = n + 1
      BY <2>4, <2>5, <2>6, <3>1, <3>3
    <3> QED
      BY <3>1, <3>2, <3>3
  <2>9. Falling(pid)'
    BY <2>2, <2>4, <2>5, <2>8 DEF Falling, Announcing
  <2>10. Kept(pid)'
    BY <2>2, <2>5 DEF Kept
  <2> QED
    BY <2>3, <2>9, <2>10 DEF AlertInv
<1> QED
  BY <1>0, <1>1, <1>2, <1>3, QuietStep

LEMMA AlwaysAlertInv ==
  ASSUME \E p \in Poller : Poller = {p}
  PROVE  Spec => []AlertInv
<1>1. Init => AlertInv
  BY DEF Init, AlertInv, Falling, Kept, Announced, Announcing
<1>2. LowestInv /\ AlertInv /\ [Next]_vars => AlertInv'
  BY AlertStep
<1> QED
  BY <1>1, <1>2, AlwaysLowest, PTL DEF Spec

(* With one polling process every alert names a price below all the prices *)
(* announced before it, although a process that dies may lose alerts.      *)
THEOREM PricesFall ==
  ASSUME \E p \in Poller : Poller = {p}
  PROVE  Spec => []AlertsFall
<1>1. AlertInv => AlertsFall
  BY DEF AlertInv, Falling, AlertsFall
<1> QED
  BY <1>1, AlwaysAlertInv, PTL

(* With one polling process that never died, the stored price is the last  *)
(* announced, or its alert is about to be printed (src/app.py:160-184).    *)
THEOREM NothingGoesUnannounced ==
  ASSUME \E p \in Poller : Poller = {p}
  PROVE  Spec => []StoredWasAnnounced
<1>1. AlertInv => StoredWasAnnounced
  BY DEF AlertInv, Kept, StoredWasAnnounced, Announcing
<1> QED
  BY <1>1, AlwaysAlertInv, PTL
=============================================================================
