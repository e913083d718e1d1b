------------------------ MODULE UnguardedStatusProofs ------------------------
(***************************************************************************)
(* What the status of UnguardedStatus can be trusted for, for any number   *)
(* of requests.                                                            *)
(***************************************************************************)
EXTENDS UnguardedStatus, FiniteSetTheorems, TLAPS

\* A task is yet to report a result; its browser may run.
Ahead == {"queued", "setup", "login_page", "login", "search_page", "results", "product", "add"}
Browsing == {"login_page", "login", "search_page", "results", "product", "add", "quit", "gone"}
Settled == Final \cup {"idle"}

\* The steps of a task: it reports and moves on, finishes a report, or moves on.
Reports(j, s, to) ==
  /\ \/ to \in Ahead /\ s \in Statuses \ Final
     \/ to \in {"quit", "idle", "gone"} /\ s \in Final
  /\ pending[j] = "none"
  /\ board' = [board EXCEPT !.status = s]
  /\ pending' = [pending EXCEPT ![j] = s]
  /\ pc' = [pc EXCEPT ![j] = to]

Moves(j, to) ==
  /\ \/ pc[j] = "quit" /\ pending[j] = "none" /\ to = "judge"
     \/ pc[j] = "judge" /\ to = IF board.status \in Results THEN "idle" ELSE "complete"
  /\ pc' = [pc EXCEPT ![j] = to]
  /\ UNCHANGED <<board, pending>>

Writes(j) ==
  /\ pending[j] # "none"
  /\ board' = [board EXCEPT !.message = pending[j]]
  /\ pending' = [pending EXCEPT ![j] = "none"]
  /\ UNCHANGED pc

\* The driver of a request that is not at a place of Browsing is not running.
Drives(j) ==
  /\ \/ drivers' = drivers \ {j}
     \/ drivers' = drivers \cup {j} /\ pc'[j] \in Browsing
     \/ drivers' = drivers /\ (pc[j] \in Browsing => pc'[j] \in Browsing)

TaskStep(j) ==
  \/ /\ pc[j] \in AtRest /\ Reports(j, "queued", "queued")
  \/ /\ pc[j] = "complete" /\ Reports(j, "completed", "idle")
  \/ /\ pc[j] \in Ahead \cup {"quit"}
     /\ \E s \in Statuses \ {"completed", "idle"} :
          \E to \in Ahead \cup {"quit", "idle", "gone"} :
            Reports(j, s, to) /\ (to = "quit" => s \in Results)
  \/ \E to \in {"judge", "idle", "complete"} : Moves(j, to)
  \/ Writes(j)

CartStep(j) ==
  /\ \/ pc[j] \in AtRest /\ \E s \in {"starting", "idle"} :
           /\ board' = [status |-> s, message |-> s]
           /\ pc' = [pc EXCEPT ![j] = IF s = "idle" THEN "idle" ELSE "post"]
     \/ pc[j] = "post" /\ \E s \in {"success", "error"} :
           /\ board' = [status |-> s, message |-> s]
           /\ pc' = [pc EXCEPT ![j] = "idle"]
     \/ pc[j] = "post" /\ pc' = [pc EXCEPT ![j] = "gone"] /\ UNCHANGED board
  /\ UNCHANGED pending

\* Every step of the specification is one of these.
LEMMA Shapes ==
  ASSUME TypeOK, NEW j \in Job, edition = "selenium", Queue(j) \/ Task(j)
  PROVE  TaskStep(j) /\ Drives(j)
<1> USE DEF Goes, Report, Ahead, Browsing, Reports, Final, Statuses
<1>1. CASE Queue(j)
  BY <1>1 DEF Queue, Begins, TaskStep, Drives, AtRest
<1>2. CASE WriteMessage(j)
  BY <1>2 DEF WriteMessage, TaskStep, Writes, Drives
<1>3. CASE Start(j)
  BY <1>3 DEF Start, TaskStep, Drives, TypeOK
<1>4. CASE OpenBrowser(j)
  BY <1>4 DEF OpenBrowser, TaskStep, Drives, TypeOK
<1>5. CASE SetupFails(j)
  BY <1>5 DEF SetupFails, TaskStep, Drives, TypeOK
<1>6. CASE Progress(j)
  <2> DEFINE steps == LoginSteps \cup CartSteps
  <2>1. PICK step \in steps : Goes(j, step[1], step[2], step[3])
    BY <1>6 DEF Progress
  <2>2. /\ step[1] \in Ahead
        /\ step[2] \in Statuses \ {"completed", "idle"}
        /\ \/ step[3] \in Ahead /\ step[2] \notin Final
           \/ step[3] = "quit" /\ step[2] = "success"
        /\ step[1] \in Browsing /\ step[3] \in Browsing
    BY DEF LoginSteps, CartSteps
  <2>3. Reports(j, step[2], step[3])
    BY <1>6, <2>1, <2>2 DEF Progress
  <2>4. pc[j] = step[1] /\ pc'[j] = step[3] /\ drivers' = drivers
    BY <1>6, <2>1 DEF Progress, TypeOK
  <2> QED
    BY <2>2, <2>3, <2>4 DEF TaskStep, Drives, Results
<1>7. CASE Fails(j)
  BY <1>7 DEF Fails, AfterError, TaskStep, Drives, TypeOK, Results
<1>8. CASE Quit(j)
  BY <1>8 DEF Quit, TaskStep, Moves, Drives, TypeOK
<1>9. CASE QuitFails(j)
  BY <1>9 DEF QuitFails, TaskStep, Drives, TypeOK
<1>10. CASE Judge(j)
  BY <1>10 DEF Judge, TaskStep, Moves, Drives, TypeOK
<1>11. CASE Complete(j)
  BY <1>11 DEF Complete, TaskStep, Drives, TypeOK
<1> QED
  BY <1>1, <1>2, <1>3, <1>4, <1>5, <1>6, <1>7, <1>8, <1>9, <1>10, <1>11 DEF Task

LEMMA CartShapes ==
  ASSUME TypeOK, NEW j \in Job, edition = "cart",
         AddToCart(j) \/ Posted(j) \/ PostRaises(j) \/ ResetStatus(j)
  PROVE  CartStep(j) /\ Drives(j)
<1> USE DEF Goes, Report, Browsing, CartStep, Drives
<1>1. CASE AddToCart(j)
  BY <1>1 DEF AddToCart, Begins, AtRest
<1>2. CASE Posted(j)
  BY <1>2 DEF Posted
<1>3. CASE PostRaises(j)
  BY <1>3 DEF PostRaises
<1>4. CASE ResetStatus(j)
  BY <1>4 DEF ResetStatus, Begins, AtRest
<1> QED
  BY <1>1, <1>2, <1>3, <1>4

(***************************************************************************)
(* The invariant.  What is not settled on the board is owed by a task that *)
(* has not reported a result yet; and a task that is alone finds there     *)
(* what it wrote.                                                          *)
(***************************************************************************)
Places ==
  /\ edition = "selenium" => \A j \in Job : pc[j] # "post"
  /\ edition = "cart" => \A j \in Job : pc[j] \in AtRest \cup {"post"} /\ pending[j] = "none"
  /\ \A j \in drivers : pc[j] \in Browsing

Owed ==
  /\ board.status \in Settled \/ \E j \in Job : pc[j] \in Ahead
  /\ board.message \in Settled \/ \E j \in Job : pc[j] \in Ahead \/ pending[j] # "none"
  /\ \A j \in Job : pending[j] \in Final \cup {"none"} \/ pc[j] \in Ahead

CartOwed ==
  /\ board.message = board.status
  /\ board.status \in {"idle", "starting", "success", "error"}
  /\ board.status = "starting" => \E j \in Job : pc[j] \in {"post", "gone"}

Alone == crowded \/ \A i, k \in Working : i = k

Trusted ==
  /\ board.status # "completed"
  /\ \A j \in Job :
       /\ pc[j] \in {"quit", "judge"} => board.status \in Results
       /\ pc[j] # "complete"
       /\ pc[j] \in Ahead \cup {"post"} => board.status \notin Final
       /\ pending[j] # "none" => pending[j] = board.status
  /\ board.message = board.status \/ \E j \in Job : pending[j] = board.status

IInv ==
  /\ TypeOK /\ Places
  /\ edition = "selenium" => Owed
  /\ edition = "cart" => CartOwed
  /\ Alone
  /\ crowded \/ Trusted

LEMMA Initially == Init => IInv
<1> SUFFICES ASSUME Init PROVE IInv
  OBVIOUS
<1>1. TypeOK
  BY DEF Init, TypeOK, Statuses, Final, AtRest
<1>2. Places /\ Owed /\ CartOwed /\ Trusted
  BY DEF Init, Places, Owed, CartOwed, Trusted, Settled, Final, AtRest, Results, Ahead
<1>3. Alone
  BY DEF Init, Alone, Working, AtRest
<1> QED
  BY <1>1, <1>2, <1>3 DEF IInv

\* A reader of Next: who stepped, and when the board counts as uncontended.
LEMMA Crowding ==
  ASSUME TypeOK, NEW j \in Job,
         crowded' = \/ Cardinality(Working') > 1
                    \/ crowded /\ ~(Working = {} /\ Working' # {})
  PROVE  /\ Alone'
         /\ ~crowded' => ~crowded \/ (Working = {} /\ Working' # {})
<1>1. Working' \subseteq Job
  BY DEF Working
<1>2. IsFiniteSet(Working')
  BY <1>1, JobAssumption, FS_Subset
<1>3. ASSUME NEW i \in Working', NEW k \in Working', i # k
      PROVE  Cardinality(Working') > 1
  <2>1. {i} \subseteq Working' \ {k} /\ IsFiniteSet(Working' \ {k})
    BY <1>2, <1>3, FS_RemoveElement
  <2>2. Cardinality({i}) = 1 /\ Cardinality({i}) <= Cardinality(Working' \ {k})
    BY <2>1, FS_Subset, FS_Singleton
  <2>3. Cardinality(Working' \ {k}) = Cardinality(Working') - 1
    BY <1>2, FS_RemoveElement
  <2>4. Cardinality(Working') \in Nat
    BY <1>2, FS_CardinalityType
  <2> QED
    BY <2>2, <2>3, <2>4
<1> DEFINE many == Cardinality(Working') > 1
           begins == Working = {} /\ Working' # {}
<1> HIDE DEF many, begins
<1>0. crowded' = (many \/ (crowded /\ ~begins)) /\ crowded \in BOOLEAN
  BY DEF many, begins, TypeOK
<1>4. ~crowded' => ~many
  BY <1>0
<1>5. Alone'
  BY <1>3, <1>4 DEF Alone, many
<1>6. ~crowded' => ~crowded \/ begins
  BY <1>0
<1> QED
  BY <1>5, <1>6 DEF begins

LEMMA TaskKeepsTypes ==
  ASSUME IInv, NEW j \in Job, TaskStep(j), Drives(j), UNCHANGED edition, crowded' \in BOOLEAN,
         edition = "selenium"
  PROVE  TypeOK' /\ Places'
<1> USE DEF IInv, TypeOK, Places, Ahead, Statuses, Final, AtRest, Reports, Moves, Writes
<1>1. board' \in [status : Statuses, message : Statuses] /\ pending' \in [Job -> Statuses \cup {"none"}]
  BY DEF TaskStep
<1>2. pc' \in [Job -> AtRest \cup Ahead \cup {"quit", "judge", "complete", "post"}]
  BY DEF TaskStep
<1>3. \A k \in Job : pc'[k] # "post"
  BY DEF TaskStep
<1>4. \A k \in Job \ {j} : pc'[k] = pc[k]
  BY DEF TaskStep
<1>5. drivers' \subseteq Job /\ \A k \in drivers' : pc'[k] \in Browsing
  BY <1>4 DEF Drives
<1> QED
  BY <1>1, <1>2, <1>3, <1>5

LEMMA TaskKeepsOwed ==
  ASSUME IInv, NEW j \in Job, TaskStep(j), edition = "selenium"
  PROVE  Owed'
<1> USE DEF IInv, TypeOK, Owed, Settled, Ahead
<1>1. CASE \E s \in Statuses, to \in Ahead \cup {"quit", "idle", "gone"} : Reports(j, s, to)
  <2> PICK s \in Statuses, to \in Ahead \cup {"quit", "idle", "gone"} : Reports(j, s, to)
    BY <1>1
  <2>1. board'.status = s /\ board'.message = board.message /\ pending'[j] = s /\ pc'[j] = to
    BY DEF Reports
  <2>2. \A k \in Job \ {j} : pc'[k] = pc[k] /\ pending'[k] = pending[k]
    BY DEF Reports
  <2>3. s \in Settled \/ pc'[j] \in Ahead
    BY <2>1 DEF Reports
  <2>4. s # "none"
    BY DEF Statuses, Final
  <2>5. board'.message \in Settled \/ \E k \in Job : pc'[k] \in Ahead \/ pending'[k] # "none"
    BY <2>1, <2>4
  <2>6. \A k \in Job : pending'[k] \in Final \cup {"none"} \/ pc'[k] \in Ahead
    BY <2>1, <2>2 DEF Reports
  <2> QED
    BY <2>1, <2>3, <2>5, <2>6
<1>2. CASE \E to \in {"judge", "idle", "complete"} : Moves(j, to)
  BY <1>2 DEF Moves
<1>3. CASE Writes(j)
  BY <1>3 DEF Writes
<1> QED
  BY <1>1, <1>2, <1>3 DEF TaskStep, Statuses, Final

\* The one who steps with the board uncontended is the only one at work.
LEMMA Solo ==
  ASSUME TypeOK, TypeOK', NEW j \in Job, TaskStep(j), Alone, Alone', ~crowded',
         ~crowded \/ Working = {}
  PROVE  \A k \in Job \ {j} : /\ pc'[k] = pc[k] /\ pending'[k] = pending[k]
                              /\ pc[k] \in AtRest /\ pending[k] = "none"
<1>1. \A k \in Job \ {j} : pc'[k] = pc[k] /\ pending'[k] = pending[k]
  BY DEF TaskStep, Reports, Moves, Writes, TypeOK
<1>2. j \in Working \/ j \in Working'
  BY DEF TaskStep, Reports, Moves, Writes, Working, AtRest, Ahead, TypeOK
<1>3. CASE j \in Working
  BY <1>1, <1>3 DEF Alone, Working
<1>4. CASE j \in Working'
  BY <1>1, <1>4 DEF Alone, Working
<1> QED
  BY <1>1, <1>2, <1>3, <1>4

LEMMA TaskKeepsTrust ==
  ASSUME IInv, TypeOK', NEW j \in Job, TaskStep(j), edition = "selenium", Alone', ~crowded',
         ~crowded \/ (Working = {} /\ Working' # {})
  PROVE  Trusted'
<1>1. \A k \in Job \ {j} : /\ pc'[k] = pc[k] /\ pending'[k] = pending[k]
                           /\ pc[k] \in AtRest /\ pending[k] = "none"
  BY Solo DEF IInv
<1>2. \A k \in Job \ {j} : /\ pc'[k] \notin Ahead \cup {"quit", "judge", "complete", "post"}
                           /\ pending'[k] = "none"
  BY <1>1 DEF AtRest, Ahead
<1> USE DEF IInv, TypeOK
<1>3. CASE \E s \in Statuses \ {"completed", "idle"}, to \in Ahead \cup {"quit", "idle", "gone"} :
             Reports(j, s, to) /\ (to = "quit" => s \in Results)
  <2> PICK s \in Statuses \ {"completed", "idle"}, to \in Ahead \cup {"quit", "idle", "gone"} :
             Reports(j, s, to) /\ (to = "quit" => s \in Results)
    BY <1>3
  <2>1. board'.status = s /\ pending'[j] = s /\ pc'[j] = to
    BY DEF Reports
  <2>2. to \in Ahead => s \notin Final
    BY DEF Reports, Ahead
  <2>3. to \notin {"judge", "complete", "post"}
    BY DEF Ahead
  <2> QED
    BY <1>2, <2>1, <2>2, <2>3 DEF Trusted
<1>4. CASE crowded
  <2>1. j \notin Working
    BY <1>4
  <2>2. pc[j] \in AtRest /\ Reports(j, "queued", "queued")
    BY <2>1 DEF TaskStep, Working, AtRest, Ahead, Moves, Writes
  <2> QED
    BY <1>3, <2>2 DEF Ahead, Statuses
<1>5. CASE ~crowded
  <2>1. Trusted
    BY <1>5
  <2>2. CASE pc[j] \in AtRest /\ Reports(j, "queued", "queued")
    BY <1>3, <2>2 DEF Ahead, Statuses
  <2>3. CASE \E to \in {"judge", "idle", "complete"} : Moves(j, to)
    BY <1>2, <2>1, <2>3 DEF Trusted, Moves, Ahead
  <2>4. CASE Writes(j)
    BY <1>2, <2>1, <2>4 DEF Trusted, Writes
  <2> QED
    BY <1>3, <2>1, <2>2, <2>3, <2>4 DEF TaskStep, Trusted
<1> QED
  BY <1>4, <1>5

LEMMA CartKeeps ==
  ASSUME IInv, NEW j \in Job, CartStep(j), Drives(j), edition = "cart", UNCHANGED edition,
         crowded' \in BOOLEAN, Alone',
         ~crowded' => ~crowded \/ (Working = {} /\ Working' # {})
  PROVE  TypeOK' /\ Places' /\ CartOwed' /\ (crowded' \/ Trusted')
<1> USE DEF IInv, TypeOK, Places
<1>1. \A k \in Job \ {j} : pc'[k] = pc[k]
  BY DEF CartStep
<1>2. TypeOK'
  <2>1. board' \in [status : Statuses, message : Statuses]
    BY DEF CartStep, Statuses, Final
  <2>2. pc' \in [Job -> AtRest \cup {"post"}]
    BY DEF CartStep, AtRest
  <2>3. drivers' \subseteq Job
    BY DEF Drives
  <2> QED
    BY <2>1, <2>2, <2>3 DEF CartStep
<1>3. Places'
  <2>1. pc' \in [Job -> AtRest \cup {"post"}]
    BY DEF CartStep, AtRest
  <2>2. \A k \in drivers' : pc'[k] \in Browsing
    BY <1>1 DEF Drives
  <2> QED
    BY <2>1, <2>2 DEF CartStep
<1>4. CartOwed'
  BY <1>1 DEF CartOwed, CartStep, AtRest
<1>5. ASSUME ~crowded' PROVE Trusted'
  <2>1. \A k \in Job : pc'[k] = "post" => board'.status \notin Final
    <3>1. SUFFICES ASSUME NEW k \in Job, pc'[k] = "post" PROVE board'.status \notin Final
      OBVIOUS
    <3>2. CASE k = j
      BY <3>1, <3>2 DEF CartStep, Final, AtRest
    <3>3. CASE k # j
      <4>1. pc[k] = "post" /\ k \in Working /\ k \in Working'
        BY <1>1, <3>1, <3>3 DEF Working, AtRest
      <4>2. pc[j] # "post" /\ pc'[j] # "post"
        BY <1>5, <3>3, <4>1 DEF Alone, Working, AtRest
      <4>3. board'.status = "idle"
        BY <4>2 DEF CartStep
      <4> QED
        BY <4>3 DEF Final
    <3> QED
      BY <3>2, <3>3
  <2>2. \A k \in Job : pc'[k] \in {"idle", "gone", "post"} /\ pending'[k] = "none"
    BY <1>2, <1>3 DEF AtRest, CartStep
  <2>3. board'.message = board'.status /\ board'.status # "completed"
    BY <1>4 DEF CartOwed
  <2> QED
    BY <2>1, <2>2, <2>3 DEF Trusted, Ahead
<1> QED
  BY <1>2, <1>3, <1>4, <1>5

LEMMA Step ==
  ASSUME IInv, [Next]_vars
  PROVE  IInv'
<1>1. CASE Next
  <2> PICK j \in Job : \/ edition = "selenium" /\ (Queue(j) \/ Task(j))
                       \/ edition = "cart" /\ (AddToCart(j) \/ Posted(j) \/ PostRaises(j) \/ ResetStatus(j))
    BY <1>1 DEF Next
  <2>1. /\ crowded' = \/ Cardinality(Working') > 1
                      \/ crowded /\ ~(Working = {} /\ Working' # {})
        /\ edition' = edition
    BY <1>1 DEF Next
  <2>2. crowded' \in BOOLEAN
    BY <2>1 DEF IInv, TypeOK
  <2>3. /\ Alone'
        /\ ~crowded' => ~crowded \/ (Working = {} /\ Working' # {})
    BY <2>1, Crowding DEF IInv
  <2>4. CASE edition = "selenium"
    <3>1. TaskStep(j) /\ Drives(j)
      BY <2>4, Shapes DEF IInv
    <3>2. TypeOK' /\ Places'
      BY <2>1, <2>2, <2>4, <3>1, TaskKeepsTypes
    <3>3. Owed'
      BY <2>4, <3>1, TaskKeepsOwed
    <3>4. crowded' \/ Trusted'
      BY <2>3, <2>4, <3>1, <3>2, TaskKeepsTrust
    <3> QED
      BY <2>1, <2>3, <2>4, <3>2, <3>3, <3>4 DEF IInv
  <2>5. CASE edition = "cart"
    <3>1. CartStep(j) /\ Drives(j)
      <4>1. pending[j] = "none" /\ pc[j] \in AtRest \cup {"post"}
        BY <2>5 DEF IInv, Places
      <4> QED
        BY <2>5, <4>1, CartShapes DEF IInv
    <3>2. TypeOK' /\ Places' /\ CartOwed' /\ (crowded' \/ Trusted')
      BY <2>1, <2>2, <2>3, <2>5, <3>1, CartKeeps
    <3> QED
      BY <2>1, <2>3, <2>5, <3>2 DEF IInv
  <2> QED
    BY <2>4, <2>5
<1>2. CASE UNCHANGED vars
  <2> USE <1>2 DEF vars
  <2>1. TypeOK' /\ Places' /\ (edition = "selenium" => Owed') /\ (edition = "cart" => CartOwed')
    BY DEF IInv, TypeOK, Places, Owed, CartOwed
  <2>2. Alone' /\ (crowded' \/ Trusted')
    BY DEF IInv, Alone, Working, Trusted
  <2> QED
    BY <2>1, <2>2 DEF IInv
<1> QED
  BY <1>1, <1>2

LEMMA Inductive == Spec => []IInv
<1> QED
  BY Initially, Step, PTL DEF Spec

\* Any number of requests, in either program, stay within their types.
THEOREM TypeCorrect == Spec => []TypeOK
<1>1. IInv => TypeOK
  BY DEF IInv
<1> QED
  BY <1>1, Inductive, PTL

(***************************************************************************)
(* Whatever a task left non-final on the board is still its own to         *)
(* replace: when none is at work the board is final.                       *)
(***************************************************************************)
THEOREM BoardComesToRest == Spec => []RestIsFinal
<1>1. IInv => RestIsFinal
  <2> SUFFICES ASSUME IInv, Working = {} PROVE RestIsFinal
    BY DEF RestIsFinal
  <2>1. \A j \in Job : pc[j] \in AtRest /\ pending[j] = "none"
    BY DEF Working
  <2>2. edition \in {"selenium", "cart"}
    BY EditionsAssumption DEF IInv, TypeOK
  <2>3. CASE edition = "selenium"
    BY <2>1, <2>3 DEF IInv, Owed, Settled, Ahead, AtRest, RestIsFinal
  <2>4. CASE edition = "cart"
    BY <2>1, <2>4 DEF IInv, CartOwed, AtRest, RestIsFinal, Final
  <2> QED
    BY <2>2, <2>3, <2>4
<1> QED
  BY <1>1, Inductive, PTL

(***************************************************************************)
(* While no second request comes, status and message are of one report.    *)
(***************************************************************************)
THEOREM ReportsAreWhole == Spec => []ReportIsWhole
<1>1. IInv => ReportIsWhole
  BY DEF IInv, CartOwed, Trusted, ReportIsWhole
<1> QED
  BY <1>1, Inductive, PTL

(***************************************************************************)
(* While no second request comes, a final status is the task's last word   *)
(* on the cart.                                                            *)
(***************************************************************************)
THEOREM FinalIsFinal == Spec => []FinalMeansDone
<1>1. IInv => FinalMeansDone
  <2> SUFFICES ASSUME IInv, ~crowded, board.status \in Final, NEW j \in Working
               PROVE  pc[j] \in {"quit", "judge"} \cup AtRest
    BY DEF FinalMeansDone
  <2>1. j \in Job /\ pc[j] # "complete" /\ pc[j] \notin Ahead \cup {"post"}
    BY DEF IInv, Trusted, Working
  <2> QED
    BY <2>1 DEF IInv, TypeOK, Ahead
<1> QED
  BY <1>1, Inductive, PTL

(***************************************************************************)
(* A task that is alone knows its result: the verdict finds what it wrote. *)
(***************************************************************************)
THEOREM UnknownIsOthers == Spec => []UnknownNeedsCompany
<1>1. IInv => UnknownNeedsCompany
  BY DEF IInv, Trusted, UnknownNeedsCompany
<1> QED
  BY <1>1, Inductive, PTL

(***************************************************************************)
(* No way through a task leads past driver.quit().                         *)
(***************************************************************************)
THEOREM BrowsersAreClosed == Spec => []BrowserClosed
<1>1. IInv => BrowserClosed
  BY DEF IInv, Places, Browsing, BrowserClosed
<1> QED
  BY <1>1, Inductive, PTL

-----------------------------------------------------------------------------
\* How many reports and moves a request has before it at most, by its place.
StepsLeft == [queued |-> 11, setup |-> 10, login_page |-> 9, login |-> 8, search_page |-> 7,
              results |-> 6, product |-> 5, add |-> 4, quit |-> 3, judge |-> 2, complete |-> 1,
              post |-> 1, idle |-> 0, gone |-> 0]

\* A report takes two steps where the keys are written one by one.
Rank == [j \in Job |-> 2 * StepsLeft[pc[j]] + (IF pending[j] = "none" THEN 0 ELSE 1)]
RankBounded == \A j \in Job : Rank[j] \in 0..23 /\ (j \in Working <=> Rank[j] > 0)

\* Every step is of one request, which it begins or brings nearer to its end.
Advances ==
  \E j \in Job : /\ j \in Working => Rank'[j] < Rank[j]
                 /\ \A k \in Job \ {j} : Rank'[k] = Rank[k]
TasksAdvance == [][Advances]_vars

\* The form of every report: from an earlier place to a later one.
LEMMA GoingLowersRank ==
  ASSUME TypeOK, NEW j \in Job, NEW from, NEW s \in Statuses, NEW to, Goes(j, from, s, to),
         from \in DOMAIN StepsLeft, to \in DOMAIN StepsLeft, StepsLeft[to] < StepsLeft[from],
         StepsLeft[to] \in 0..13, StepsLeft[from] \in 0..13
  PROVE  Rank'[j] < Rank[j]
<1>1. pc[j] = from /\ pc'[j] = to /\ pending[j] = "none" /\ pending'[j] \in {s, "none"}
  BY DEF TypeOK, Goes, Report
<1>2. Rank[j] = 2 * StepsLeft[from]
  BY <1>1 DEF Rank
<1>3. Rank'[j] \in {2 * StepsLeft[to], 2 * StepsLeft[to] + 1}
  BY <1>1 DEF Rank
<1> HIDE DEF Rank, StepsLeft
<1> QED
  BY <1>2, <1>3

LEMMA WorkLowersRank ==
  ASSUME TypeOK, NEW j \in Job, Task(j) \/ Posted(j) \/ PostRaises(j)
  PROVE  Rank'[j] < Rank[j]
<1>1. ASSUME NEW from, NEW s \in Statuses, NEW to, Goes(j, from, s, to),
             from \in DOMAIN StepsLeft, to \in DOMAIN StepsLeft, StepsLeft[to] < StepsLeft[from],
             StepsLeft[to] \in 0..13, StepsLeft[from] \in 0..13
      PROVE  Rank'[j] < Rank[j]
  BY <1>1, GoingLowersRank
<1>2. CASE WriteMessage(j)
  <2>1. Rank[j] = 2 * StepsLeft[pc[j]] + 1 /\ Rank'[j] = 2 * StepsLeft[pc[j]] + 0
    BY <1>2 DEF WriteMessage, Rank, TypeOK
  <2>2. StepsLeft[pc[j]] \in 0..13
    BY DEF StepsLeft, TypeOK, AtRest
  <2> HIDE DEF Rank, StepsLeft
  <2> QED
    BY <2>1, <2>2
<1>3. CASE Start(j) \/ OpenBrowser(j) \/ SetupFails(j) \/ QuitFails(j) \/ Complete(j)
  BY <1>1, <1>3 DEF Start, OpenBrowser, SetupFails, QuitFails, Complete, StepsLeft, Statuses, Final
<1>4. CASE Progress(j)
  <2>1. PICK step \in LoginSteps \cup CartSteps : Goes(j, step[1], step[2], step[3])
    BY <1>4 DEF Progress
  <2>2. step[2] \in Statuses
    BY DEF LoginSteps, CartSteps, Statuses, Final
  <2>3. /\ step[1] \in DOMAIN StepsLeft /\ step[3] \in DOMAIN StepsLeft
        /\ StepsLeft[step[3]] < StepsLeft[step[1]]
        /\ StepsLeft[step[3]] \in 0..13 /\ StepsLeft[step[1]] \in 0..13
    BY DEF LoginSteps, CartSteps, StepsLeft
  <2> QED
    BY <1>1, <2>1, <2>2, <2>3
<1>5. CASE Fails(j)
  BY <1>1, <1>5 DEF Fails, AfterError, StepsLeft, Statuses, Final
<1>6. CASE Posted(j)
  BY <1>1, <1>6 DEF Posted, StepsLeft, Statuses, Final
<1>7. CASE Quit(j) \/ Judge(j) \/ PostRaises(j)
  BY <1>7 DEF Quit, Judge, PostRaises, Rank, StepsLeft, TypeOK
<1> QED
  BY <1>2, <1>3, <1>4, <1>5, <1>6, <1>7 DEF Task

LEMMA OthersKeepRank ==
  ASSUME TypeOK, NEW j \in Job, NEW k \in Job, k # j,
         Queue(j) \/ Task(j) \/ AddToCart(j) \/ Posted(j) \/ PostRaises(j) \/ ResetStatus(j)
  PROVE  Rank'[k] = Rank[k]
<1>1. pc'[k] = pc[k] /\ pending'[k] = pending[k]
  BY DEF Queue, Task, AddToCart, Posted, PostRaises, ResetStatus, Begins, WriteMessage, Start,
         OpenBrowser, SetupFails, Progress, Fails, Quit, QuitFails, Judge, Complete, Goes, Report,
         TypeOK
<1> QED
  BY <1>1 DEF Rank

LEMMA RankIsBounded == ASSUME TypeOK, Places, edition \in {"selenium", "cart"} PROVE RankBounded
<1> SUFFICES ASSUME NEW j \in Job
             PROVE  Rank[j] \in 0..23 /\ (j \in Working <=> Rank[j] > 0)
  BY DEF RankBounded
<1>1. StepsLeft[pc[j]] \in 0..11 /\ (pc[j] \in AtRest <=> StepsLeft[pc[j]] = 0)
  BY DEF StepsLeft, TypeOK, AtRest
<1>2. Rank[j] = 2 * StepsLeft[pc[j]] + IF pending[j] = "none" THEN 0 ELSE 1
  BY DEF Rank
<1>3. j \in Working <=> pc[j] \notin AtRest \/ pending[j] # "none"
  BY DEF Working
<1> HIDE DEF StepsLeft, Rank
<1> QED
  BY <1>1, <1>2, <1>3

(***************************************************************************)
(* The safety half of TasksEnd: a request takes at most 23 steps of its    *)
(* own, reports and their second keys included (PythonApplication3.py      *)
(* 39-136; beta 122-138), and nothing another one does sends it back.      *)
(***************************************************************************)
THEOREM EveryStepAdvances == Spec => []RankBounded /\ TasksAdvance
<1>1. IInv => RankBounded
  BY RankIsBounded, EditionsAssumption DEF IInv, TypeOK
<1>2. IInv /\ [Next]_vars => [Advances]_vars
  <2> SUFFICES ASSUME IInv, Next PROVE Advances
    OBVIOUS
  <2>1. PICK j \in Job : \/ Queue(j) \/ AddToCart(j) \/ ResetStatus(j)
                         \/ Task(j) \/ Posted(j) \/ PostRaises(j)
    BY DEF Next
  <2>2. TypeOK
    BY DEF IInv
  <2>3. Queue(j) \/ AddToCart(j) \/ ResetStatus(j) => j \notin Working
    BY DEF Queue, AddToCart, ResetStatus, Begins, Goes, Working
  <2>4. \A k \in Job \ {j} : Rank'[k] = Rank[k]
    BY <2>1, <2>2, OthersKeepRank
  <2> QED
    BY <2>1, <2>2, <2>3, <2>4, WorkLowersRank DEF Advances
<1> QED
  BY <1>1, <1>2, Inductive, PTL DEF Spec, TasksAdvance
=============================================================================
