-------------------------- MODULE SeleniumApiProofs --------------------------
(***************************************************************************)
(* What the status of a browser guarantees, and what proxy tests leave of  *)
(* the list of proxies, for any number of requests, browsers and proxies.  *)
(* The list plays no part in the first, nor the status in the second.      *)
(***************************************************************************)
EXTENDS SeleniumApi, SequenceTheorems, TLAPS

StatusTyped ==
  /\ status \in [Browser -> Statuses]
  /\ pc \in [Job -> Places]
  /\ browser \in [Job -> Browser]
  /\ undermined \in [Browser -> BOOLEAN]

(* While a task works the status is not idle, unless it was undermined. *)
Held == \A b \in Browser : undermined[b] \/ Busy(b) = {} \/ status[b] \notin Idle

(* When no task works the status is idle: who leaves last leaves it so. *)
Released == \A b \in Browser : Busy(b) = {} => status[b] \in Idle

IInv == StatusTyped /\ OneTaskPerBrowser /\ Held /\ Released

(* The statuses of a task at work. *)
InProgress == {"starting", "configuring", "navigating", "logging_in",
               "logged_in", "verification_needed", "searching", "adding_to_cart"}

(* The sets of strings, once and for all. *)
LEMMA Sets ==
  /\ Idle \subseteq Statuses
  /\ InProgress \subseteq Statuses /\ InProgress \cap Idle = {}
  /\ {"queued", "testing_proxy"} \subseteq Statuses \ Idle
  /\ Working \subseteq Places /\ "free" \in Places
  /\ {"free", "quitting", "judging", "completing", "too_late", "restoring"}
       \cap Working = {}
  BY DEF Idle, InProgress, Statuses, Working, Places

(* Busy after job j alone has moved. *)
LEMMA BusyAfter ==
  ASSUME NEW j \in Job, NEW to, StatusTyped, Goto(j, to), UNCHANGED browser,
         NEW b \in Browser
  PROVE  Busy(b)' = IF browser[j] = b /\ to \in Working
                      THEN Busy(b) \cup {j} ELSE Busy(b) \ {j}
  BY DEF Busy, Goto, StatusTyped

(* A task that goes on working. *)
LEMMA GoesOn ==
  ASSUME IInv, NEW j \in Job, NEW to \in Working, pc[j] \in Working,
         Goto(j, to), UNCHANGED <<browser, undermined>>,
         \/ UNCHANGED status
         \/ \E s \in InProgress : UpdateStatus(browser[j], s)
  PROVE  IInv'
<1>1. StatusTyped'
  BY Sets DEF IInv, StatusTyped, Goto, UpdateStatus
<1>2. \A b \in Browser : Busy(b)' = Busy(b)
  BY BusyAfter DEF IInv, StatusTyped, Busy
<1>3. \A b \in Browser :
        \/ status'[b] = status[b]
        \/ j \in Busy(b) /\ status'[b] \in InProgress
  BY DEF IInv, StatusTyped, UpdateStatus, Busy
<1>4. OneTaskPerBrowser' /\ Held' /\ Released'
  BY <1>2, <1>3, Sets DEF IInv, OneTaskPerBrowser, Held, Released
<1> QED BY <1>1, <1>4 DEF IInv

(* A task that stops working and says how it ended. *)
LEMMA Ends ==
  ASSUME IInv, NEW j \in Job, NEW to \in Places \ Working, pc[j] \in Working,
         Goto(j, to), UNCHANGED <<browser, undermined>>,
         NEW s \in Idle, UpdateStatus(browser[j], s)
  PROVE  IInv'
<1>1. StatusTyped'
  BY Sets DEF IInv, StatusTyped, Goto, UpdateStatus
<1>2. \A b \in Browser : Busy(b)' = Busy(b) \ {j}
  BY BusyAfter DEF IInv
<1>3. ASSUME NEW b \in Browser
      PROVE  IF b = browser[j] THEN j \in Busy(b) /\ status'[b] = s
                               ELSE j \notin Busy(b) /\ status'[b] = status[b]
  BY DEF IInv, StatusTyped, UpdateStatus, Busy
<1>4. OneTaskPerBrowser' /\ Held' /\ Released'
  BY <1>2, <1>3 DEF IInv, OneTaskPerBrowser, Held, Released
<1> QED BY <1>1, <1>4 DEF IInv

(* What leaves every browser its working tasks, and its status, unless it   *)
(* overwrites that by an idle one.                                         *)
LEMMA Afterwards ==
  ASSUME IInv, StatusTyped', \A b \in Browser : Busy(b)' = Busy(b),
         \A b \in Browser :
           \/ status'[b] = status[b] /\ undermined'[b] = undermined[b]
           \/ status'[b] \in Idle /\ (undermined[b] \/ Busy(b) # {} => undermined'[b])
  PROVE  IInv'
<1>1. OneTaskPerBrowser'
  BY DEF IInv, OneTaskPerBrowser, Held
<1>2. Held'
  BY DEF IInv, Held
<1>3. Released'
  BY DEF IInv, Released
<1> QED BY <1>1, <1>2, <1>3 DEF IInv

(* A job that is not working, or not any more, and does not start to. *)
LEMMA Leaves ==
  ASSUME IInv, NEW j \in Job, NEW to \in Places \ Working,
         pc[j] \notin Working, Goto(j, to), UNCHANGED <<browser, status, undermined>>
  PROVE  IInv'
<1>1. StatusTyped'
  BY DEF IInv, StatusTyped, Goto
<1>2. \A b \in Browser : Busy(b)' = Busy(b)
  BY BusyAfter DEF IInv, Busy
<1> QED BY <1>1, <1>2, Afterwards

LEMMA OverwriteIdle ==
  ASSUME IInv, NEW b \in Browser, NEW s \in Idle, Overwrite(b, s)
  PROVE  /\ status' \in [Browser -> Statuses] /\ undermined' \in [Browser -> BOOLEAN]
         /\ \A c \in Browser :
             \/ status'[c] = status[c] /\ undermined'[c] = undermined[c]
             \/ status'[c] \in Idle /\ (undermined[c] \/ Busy(c) # {} => undermined'[c])
<1>1. status' \in [Browser -> Statuses] /\ status' = [status EXCEPT ![b] = s]
  BY Sets DEF IInv, StatusTyped, Overwrite, UpdateStatus
<1>2. /\ undermined' \in [Browser -> BOOLEAN]
      /\ undermined' = [undermined EXCEPT ![b] = @ \/ Busy(b) # {}]
  BY DEF IInv, StatusTyped, Overwrite
<1>3. status \in [Browser -> Statuses] /\ undermined \in [Browser -> BOOLEAN]
  BY DEF IInv, StatusTyped
<1> QED BY <1>1, <1>2, <1>3

(* The same, and the job writes a last status. *)
LEMMA LeavesLate ==
  ASSUME IInv, NEW j \in Job, NEW to \in Places \ Working,
         pc[j] \notin Working, Goto(j, to), UNCHANGED browser,
         NEW s \in Idle, Overwrite(browser[j], s)
  PROVE  IInv'
<1>1. browser[j] \in Browser
  BY DEF IInv, StatusTyped
<1>2. pc' \in [Job -> Places] /\ browser' \in [Job -> Browser]
  BY DEF IInv, StatusTyped, Goto
<1>3. StatusTyped'
  BY <1>1, <1>2, OverwriteIdle DEF StatusTyped
<1>4. \A b \in Browser : Busy(b)' = Busy(b)
  BY BusyAfter DEF IInv, Busy
<1> QED BY <1>1, <1>3, <1>4, Afterwards, OverwriteIdle

(* A request that queues a task: admitted because the status was idle, or  *)
(* a proxy test, which does not ask.                                       *)
LEMMA Queues ==
  ASSUME IInv, NEW j \in Job, NEW b \in Browser,
         pc[j] = "free", Goto(j, "queued"), browser' = [browser EXCEPT ![j] = b],
         \/ /\ status[b] \in Idle
            /\ UpdateStatus(b, "queued")
            /\ undermined' = [undermined EXCEPT ![b] = @ /\ Busy(b) # {}]
         \/ Overwrite(b, "testing_proxy")
  PROVE  IInv'
<1>1. StatusTyped'
  <2>1. pc' \in [Job -> Places] /\ browser' \in [Job -> Browser]
    BY DEF IInv, StatusTyped, Goto, Working, Places
  <2>2. status' \in [Browser -> Statuses]
    BY Sets DEF IInv, StatusTyped, UpdateStatus, Overwrite
  <2>3. undermined' \in [Browser -> BOOLEAN]
    BY DEF IInv, StatusTyped, Overwrite
  <2> QED BY <2>1, <2>2, <2>3 DEF StatusTyped
<1>2. ASSUME NEW c \in Browser
      PROVE  Busy(c)' = IF c = b THEN Busy(c) \cup {j} ELSE Busy(c)
  BY Sets DEF Busy, Goto, IInv, StatusTyped, Working
<1>3. ASSUME NEW c \in Browser, c # b
      PROVE  status'[c] = status[c] /\ undermined'[c] = undermined[c]
  BY <1>3 DEF IInv, StatusTyped, UpdateStatus, Overwrite
<1>4. status'[b] \notin Idle
  BY Sets DEF IInv, StatusTyped, UpdateStatus, Overwrite
<1>5. undermined'[b] \/ Busy(b) = {}
  BY DEF IInv, StatusTyped, Held, Overwrite
<1>6. Busy(b)' = Busy(b) \cup {j}
  BY <1>2
<1>7. OneTaskPerBrowser'
  BY <1>2, <1>3, <1>5, <1>6 DEF IInv, OneTaskPerBrowser
<1>8. Held' /\ Released'
  BY <1>2, <1>3, <1>4, <1>6 DEF IInv, Held, Released
<1> QED BY <1>1, <1>7, <1>8 DEF IInv

-----------------------------------------------------------------------------
LEMMA RequestSafe ==
  ASSUME IInv, Request
  PROVE  IInv'
<1>1. ASSUME NEW b \in Browser, ResetStatus(b)
      PROVE  IInv'
  <2>1. "idle" \in Idle /\ Overwrite(b, "idle") /\ UNCHANGED <<pc, browser>>
    BY <1>1 DEF ResetStatus, Idle, jobVars
  <2>2. StatusTyped'
    BY <2>1, OverwriteIdle DEF IInv, StatusTyped
  <2>3. \A c \in Browser : Busy(c)' = Busy(c)
    BY <2>1 DEF Busy
  <2> QED BY <2>1, <2>2, <2>3, OverwriteIdle, Afterwards
<1>2. ASSUME NEW p \in Proxy, AddProxy(p) \/ RemoveProxy(p)
      PROVE  IInv'
  BY <1>2 DEF AddProxy, RemoveProxy, statusVars, jobVars, IInv, StatusTyped,
              OneTaskPerBrowser, Held, Released, Busy
<1>3. ASSUME NEW j \in Job, NEW b \in Browser,
             AddToCart(j, b) \/ \E p \in Proxy : TestProxy(j, b, p)
      PROVE  IInv'
  BY <1>3, Queues DEF AddToCart, TestProxy
<1> QED BY <1>1, <1>2, <1>3 DEF Request

LEMMA WorkSafe ==
  ASSUME IInv, NEW j \in Job, Work(j)
  PROVE  IInv'
<1>1. ASSUME NEW from \in Working, NEW to \in Working, NEW s \in InProgress,
             Step(j, from, to, s)
      PROVE  IInv'
  BY <1>1, GoesOn DEF Step
<1>2. ASSUME NEW from \in Working, NEW to \in Working, Silent(j, from, to)
      PROVE  IInv'
  BY <1>2, GoesOn DEF Silent, statusVars
<1>3. CASE Start(j) \/ ChooseProxy(j) \/ Navigate(j) \/ FillLogin(j)
           \/ AwaitDashboard(j) \/ Search(j) \/ TryAdding(j)
  BY <1>1, <1>3 DEF Start, ChooseProxy, Navigate, FillLogin, AwaitDashboard,
                    Search, TryAdding, Working, InProgress
<1>4. CASE CreateDriver(j) \/ Raise(j)
  BY <1>2, <1>4 DEF CreateDriver, Raise, Working
<1>5. CASE ReportAdding(j)
  BY <1>5, Ends DEF ReportAdding, Step, Idle, Working, Places
<1>6. CASE Quit(j)
  BY <1>6, Leaves DEF Quit, Silent, statusVars, Working, Places
<1>7. CASE Fail(j)
  BY <1>7, Ends DEF Fail, Finish, Idle, Working, Places
<1>8. CASE Judge(j)
  BY <1>8, Leaves DEF Judge, Silent, Finish, statusVars, Working, Places
<1>9. CASE Complete(j) \/ QuitFailed(j)
  BY <1>9, LeavesLate DEF Complete, QuitFailed, LateVerdict, Finish, Idle, Working, Places
<1>10. CASE RestoreProxies(j)
  BY <1>10, Leaves DEF RestoreProxies, statusVars, Working, Places
<1> QED BY <1>3, <1>4, <1>5, <1>6, <1>7, <1>8, <1>9, <1>10 DEF Work

LEMMA InductiveInvariant == Spec => []IInv
<1>1. Init => IInv
  <2> SUFFICES ASSUME Init
               PROVE  IInv
    OBVIOUS
  <2>1. StatusTyped
    BY DEF Init, StatusTyped, Statuses, Idle, Places
  <2>2. \A b \in Browser : Busy(b) = {} /\ status[b] \in Idle
    BY DEF Init, Busy, Working, Idle
  <2> QED BY <2>1, <2>2 DEF IInv, OneTaskPerBrowser, Held, Released
<1>2. IInv /\ [Next]_vars => IInv'
  <2> SUFFICES ASSUME IInv, [Next]_vars
               PROVE  IInv'
    OBVIOUS
  <2>1. CASE UNCHANGED vars
    BY <2>1 DEF vars, IInv, StatusTyped, OneTaskPerBrowser, Held, Released, Busy
  <2> QED BY <2>1, RequestSafe, WorkSafe DEF Next
<1> QED BY <1>1, <1>2, PTL DEF Spec

(* Two tasks are at work in one browser only if its status was undermined: *)
(* the guard at app.py:196 excludes every other way, for any number of     *)
(* requests.                                                               *)
THEOREM LockHolds == Spec => []OneTaskPerBrowser
  BY InductiveInvariant, PTL DEF IInv

(* Whatever overlaps and whoever resets, a browser in which nothing runs   *)
(* has a status that lets the next add_to_cart in.                         *)
THEOREM AdmitsAtRest == Spec => []NeverWedged
<1>1. IInv => NeverWedged
  <2>1. Working \cap {"free", "restoring"} = {}
    BY DEF Working
  <2> QED BY <2>1 DEF IInv, Released, NeverWedged, Busy, Active
<1> QED BY <1>1, InductiveInvariant, PTL

(* The status of a browser tells whether a task works there, in both       *)
(* directions, until it is undermined.  In particular "completed" then     *)
(* means done, as app.py:176 says of it: the finding about that line needs *)
(* a reset, a proxy test or the late verdict of an earlier task.           *)
StatusTellsWork ==
  \A b \in Browser : undermined[b] \/ (status[b] \in Idle <=> Busy(b) = {})

THEOREM IdleIsFree ==
  Spec => [](StatusTellsWork /\ \A b \in Browser :
               undermined[b] \/ (status[b] = "completed" => Busy(b) = {}))
<1>1. IInv => StatusTellsWork
  BY DEF IInv, Held, Released, StatusTellsWork
<1>2. StatusTellsWork =>
        \A b \in Browser : undermined[b] \/ (status[b] = "completed" => Busy(b) = {})
  BY DEF StatusTellsWork, Idle
<1> QED BY <1>1, <1>2, InductiveInvariant, PTL

-----------------------------------------------------------------------------
(* How many steps a job can still take.                                    *)
StepsLeft == [queued |-> 13, starting |-> 12, configuring |-> 11, created |-> 10,
              navigating |-> 9, logging_in |-> 8, logged_in |-> 7, searching |-> 6,
              adding |-> 5, quitting |-> 4, judging |-> 3, completing |-> 2,
              too_late |-> 2, raising |-> 2, restoring |-> 1, free |-> 0]

(* Every step a job takes brings it nearer to its end, whether the task    *)
(* succeeds, fails or judges by another's status, and no other job, reset  *)
(* or change of the list holds it back or sends it round again             *)
(* (app.py:83-178): a request is over after at most 13 steps of its own.   *)
JobsAdvance ==
  [][\A j \in Job :
       /\ Work(j) => StepsLeft[pc[j]]' < StepsLeft[pc[j]]
       /\ ~Work(j) /\ pc[j] # "free" => pc'[j] = pc[j] /\ browser'[j] = browser[j]]_vars

LEMMA WorkLowersRank ==
  ASSUME StatusTyped, NEW j \in Job, Work(j)
  PROVE  StepsLeft[pc[j]]' < StepsLeft[pc[j]]
<1>1. ASSUME NEW to, Goto(j, to)
      PROVE  pc'[j] = to
  BY <1>1 DEF StatusTyped, Goto
<1>2. CASE Start(j) \/ ChooseProxy(j) \/ CreateDriver(j) \/ Navigate(j) \/ FillLogin(j)
           \/ AwaitDashboard(j) \/ Search(j) \/ TryAdding(j) \/ ReportAdding(j)
  BY <1>1, <1>2 DEF Start, ChooseProxy, CreateDriver, Navigate, FillLogin, AwaitDashboard,
                    Search, TryAdding, ReportAdding, Step, Silent, StepsLeft
<1>3. CASE Raise(j) \/ Quit(j)
  BY <1>1, <1>3 DEF Raise, Quit, Silent, StepsLeft
<1>4. CASE Fail(j) \/ Judge(j) \/ Complete(j) \/ QuitFailed(j) \/ RestoreProxies(j)
  BY <1>1, <1>4 DEF Fail, Judge, Complete, QuitFailed, LateVerdict, RestoreProxies, Finish,
                    Silent, StepsLeft
<1> QED
  BY <1>2, <1>3, <1>4 DEF Work

LEMMA OthersKeepRank ==
  ASSUME StatusTyped, [Next]_vars, NEW j \in Job, ~Work(j), pc[j] # "free"
  PROVE  pc'[j] = pc[j] /\ browser'[j] = browser[j]
<1>1. ASSUME NEW i \in Job, i # j, NEW to, Goto(i, to), UNCHANGED browser
      PROVE  pc'[j] = pc[j] /\ browser'[j] = browser[j]
  BY <1>1 DEF StatusTyped, Goto
<1>2. ASSUME NEW i \in Job, i # j, Work(i)
      PROVE  pc'[j] = pc[j] /\ browser'[j] = browser[j]
  BY <1>1, <1>2 DEF Work, Start, ChooseProxy, CreateDriver, Navigate, FillLogin, AwaitDashboard,
     Search, TryAdding, ReportAdding, Raise, Quit, Fail, Judge, Complete, QuitFailed,
     LateVerdict, RestoreProxies, Finish, Step, Silent
<1>3. CASE Request
  BY <1>3 DEF StatusTyped, Request, ResetStatus, AddProxy, RemoveProxy, AddToCart, TestProxy,
              Goto, jobVars
<1> QED
  BY <1>2, <1>3 DEF Next, vars

THEOREM EveryStepAdvances == Spec => JobsAdvance
<1>1. StatusTyped /\ [Next]_vars =>
        [\A j \in Job :
           /\ Work(j) => StepsLeft[pc[j]]' < StepsLeft[pc[j]]
           /\ ~Work(j) /\ pc[j] # "free" => pc'[j] = pc[j] /\ browser'[j] = browser[j]]_vars
  BY WorkLowersRank, OthersKeepRank
<1>2. IInv => StatusTyped
  BY DEF IInv
<1> QED
  BY <1>1, <1>2, InductiveInvariant, PTL DEF Spec, JobsAdvance

-----------------------------------------------------------------------------
(* Which of the lock's steps a step of the API is, in browser b.           *)
LockStep(b) == [Lock(b)!BargingNext]_(Lock(b)!vars)

(* The holders stay; the lock may be undermined if there are some. *)
LEMMA LockKept ==
  ASSUME StatusTyped, NEW b \in Browser, Busy(b)' = Busy(b),
         \/ undermined'[b] = undermined[b]
         \/ undermined'[b] = (undermined[b] \/ Busy(b) # {})
  PROVE  LockStep(b)
<1>1. CASE undermined'[b] = undermined[b]
  BY <1>1 DEF LockStep, Lock!vars
<1>2. CASE undermined'[b] = (undermined[b] \/ Busy(b) # {}) /\ undermined'[b] # undermined[b]
  <2>1. undermined[b] \in BOOLEAN
    BY DEF StatusTyped
  <2>2. undermined'[b] = TRUE /\ Busy(b) # {}
    BY <1>2, <2>1
  <2> QED BY <2>2 DEF LockStep, Lock!BargingNext, Lock!Next, Lock!Undermine
<1> QED BY <1>1, <1>2

(* A task that was at work moves: on, or out. *)
LEMMA LockWork ==
  ASSUME StatusTyped, NEW j \in Job, pc[j] \in Working, NEW to \in Places, Goto(j, to),
         UNCHANGED <<browser, undermined>>, NEW b \in Browser
  PROVE  LockStep(b)
<1>1. Busy(b)' = IF browser[j] = b /\ to \in Working THEN Busy(b) \cup {j} ELSE Busy(b) \ {j}
  BY BusyAfter
<1>2. CASE j \in Busy(b) /\ to \notin Working
  BY <1>1, <1>2 DEF LockStep, Lock!BargingNext, Lock!Next, Lock!Release
<1>3. CASE j \notin Busy(b) \/ to \in Working
  <2>1. Busy(b)' = Busy(b)
    BY <1>1, <1>3 DEF Busy
  <2> QED BY <2>1, LockKept
<1> QED BY <1>2, <1>3

(* A job that is not working, or not any more; it may overwrite the status. *)
LEMMA LockBystander ==
  ASSUME StatusTyped, NEW j \in Job, pc[j] \notin Working, NEW to \in Places \ Working,
         Goto(j, to), UNCHANGED browser,
         \/ UNCHANGED undermined
         \/ \E s : Overwrite(browser[j], s),
         NEW b \in Browser
  PROVE  LockStep(b)
<1>1. Busy(b)' = Busy(b)
  BY BusyAfter DEF Busy
<1>2. \/ undermined'[b] = undermined[b]
      \/ undermined'[b] = (undermined[b] \/ Busy(b) # {})
  BY DEF StatusTyped, Overwrite
<1> QED BY <1>1, <1>2, LockKept

LEMMA LockRequest ==
  ASSUME IInv, Request, NEW b \in Browser
  PROVE  LockStep(b)
<1> StatusTyped
  BY DEF IInv
<1>1. ASSUME NEW c \in Browser, ResetStatus(c)
      PROVE  LockStep(b)
  <2>1. Busy(b)' = Busy(b)
    BY <1>1 DEF ResetStatus, jobVars, Busy
  <2>2. \/ undermined'[b] = undermined[b]
        \/ undermined'[b] = (undermined[b] \/ Busy(b) # {})
    BY <1>1 DEF ResetStatus, Overwrite, StatusTyped
  <2> QED BY <2>1, <2>2, LockKept
<1>2. ASSUME NEW p \in Proxy, AddProxy(p) \/ RemoveProxy(p)
      PROVE  LockStep(b)
  <2>1. Busy(b)' = Busy(b) /\ undermined'[b] = undermined[b]
    BY <1>2 DEF AddProxy, RemoveProxy, statusVars, jobVars, Busy
  <2> QED BY <2>1, LockKept
<1>3. ASSUME NEW j \in Job, NEW c \in Browser, pc[j] = "free", Goto(j, "queued"),
             browser' = [browser EXCEPT ![j] = c]
      PROVE  j \notin Busy(b) /\ Busy(b)' = IF c = b THEN Busy(b) \cup {j} ELSE Busy(b)
  BY <1>3, Sets DEF Busy, Goto, StatusTyped, Working
<1>4. ASSUME NEW j \in Job, NEW c \in Browser, AddToCart(j, c)
      PROVE  LockStep(b)
  <2>1. undermined' = [undermined EXCEPT ![c] = @ /\ Busy(c) # {}] /\ status[c] \in Idle
    BY <1>4 DEF AddToCart
  <2>2. j \notin Busy(b) /\ Busy(b)' = IF c = b THEN Busy(b) \cup {j} ELSE Busy(b)
    BY <1>3, <1>4 DEF AddToCart
  <2>3. CASE c = b
    <3>1. undermined[b] \/ Busy(b) = {}
      BY <2>1, <2>3 DEF IInv, Held
    <3>2. undermined'[b] = (undermined[b] /\ Busy(b) # {})
      BY <2>1, <2>3 DEF StatusTyped
    <3> QED BY <2>2, <2>3, <3>1, <3>2
            DEF LockStep, Lock!BargingNext, Lock!Next, Lock!Acquire, Lock!Take
  <2>4. CASE c # b
    <3>1. undermined'[b] = undermined[b]
      BY <2>1, <2>4 DEF StatusTyped
    <3> QED BY <2>2, <2>4, <3>1, LockKept
  <2> QED BY <2>3, <2>4
<1>5. ASSUME NEW j \in Job, NEW c \in Browser, NEW p \in Proxy, TestProxy(j, c, p)
      PROVE  LockStep(b)
  <2>1. undermined' = [undermined EXCEPT ![c] = @ \/ Busy(c) # {}]
    BY <1>5 DEF TestProxy, Overwrite
  <2>2. j \notin Busy(b) /\ Busy(b)' = IF c = b THEN Busy(b) \cup {j} ELSE Busy(b)
    BY <1>3, <1>5 DEF TestProxy
  <2>3. CASE c = b
    <3>1. undermined'[b] = (undermined[b] \/ Busy(b) # {})
      BY <2>1, <2>3 DEF StatusTyped
    <3> QED BY <2>2, <2>3, <3>1 DEF LockStep, Lock!BargingNext, Lock!Barge, Lock!Take
  <2>4. CASE c # b
    <3>1. undermined'[b] = undermined[b]
      BY <2>1, <2>4 DEF StatusTyped
    <3> QED BY <2>2, <2>4, <3>1, LockKept
  <2> QED BY <2>3, <2>4
<1> QED BY <1>1, <1>2, <1>4, <1>5 DEF Request

LEMMA LockWorks ==
  ASSUME StatusTyped, NEW j \in Job, Work(j), NEW b \in Browser
  PROVE  LockStep(b)
<1> USE DEF Working, Places
<1>1. ASSUME NEW from \in Working, NEW to \in Places, NEW s, Step(j, from, to, s)
      PROVE  LockStep(b)
  BY <1>1, LockWork DEF Step
<1>2. CASE Start(j) \/ ChooseProxy(j) \/ Navigate(j) \/ FillLogin(j)
           \/ AwaitDashboard(j) \/ Search(j) \/ TryAdding(j) \/ ReportAdding(j)
  BY <1>1, <1>2 DEF Start, ChooseProxy, Navigate, FillLogin, AwaitDashboard,
                    Search, TryAdding, ReportAdding
<1>3. CASE CreateDriver(j) \/ Raise(j)
  BY <1>3, LockWork DEF CreateDriver, Raise, Silent, statusVars
<1>4. CASE Fail(j)
  BY <1>4, LockWork DEF Fail, Finish
<1>5. CASE Quit(j) \/ Judge(j) \/ RestoreProxies(j)
  BY <1>5, LockBystander DEF Quit, Judge, RestoreProxies, Silent, Finish, statusVars
<1>6. CASE Complete(j) \/ QuitFailed(j)
  BY <1>6, LockBystander DEF Complete, QuitFailed, LateVerdict, Finish
<1> QED BY <1>2, <1>3, <1>4, <1>5, <1>6 DEF Work

(* The status of each browser goes through the steps of TaskLock and no    *)
(* others, for any number of requests, browsers and proxies: only a proxy  *)
(* test takes it unasked.                                                  *)
THEOREM StatusesAreLocks == Spec => ImplementsLocks
<1>1. Init => \A b \in Browser : Lock(b)!Init
  BY DEF Init, Lock!Init, Busy, Working
<1>2. IInv /\ [Next]_vars => [\A b \in Browser : [Lock(b)!BargingNext]_(Lock(b)!vars)]_vars
  <2> SUFFICES ASSUME IInv, Next, NEW b \in Browser
               PROVE  LockStep(b)
    BY DEF LockStep
  <2> QED BY LockRequest, LockWorks DEF Next, IInv
<1> QED BY <1>1, <1>2, InductiveInvariant, PTL DEF Spec, ImplementsLocks

-----------------------------------------------------------------------------
(* The list of proxies.                                                    *)

Distinct(s) == \A i, k \in 1..Len(s) : s[i] = s[k] => i = k
Elements(s) == {s[i] : i \in 1..Len(s)}

(* Taking out one element of a sequence without repetition. *)
LEMMA WithoutOne ==
  ASSUME NEW S, NEW s \in Seq(S), Distinct(s), NEW x \in Elements(s)
  PROVE  \E k \in 1..Len(s) :
           /\ s[k] = x
           /\ Without(s, x) \in Seq(S) /\ Len(Without(s, x)) = Len(s) - 1
           /\ \A i \in 1..(Len(s) - 1) : Without(s, x)[i] = IF i < k THEN s[i] ELSE s[i + 1]
<1> DEFINE k == CHOOSE i \in 1..Len(s) : s[i] = x
           low == SubSeq(s, 1, k - 1)
           high == SubSeq(s, k + 1, Len(s))
<1>1. k \in 1..Len(s) /\ s[k] = x
  BY DEF Elements
<1>2. Without(s, x) = low \o high
  BY DEF Without, RemoveAt
<1> HIDE DEF k
<1>3. low \in Seq(S) /\ Len(low) = k - 1 /\ \A i \in 1..(k - 1) : low[i] = s[i]
  BY <1>1
<1>4. high \in Seq(S) /\ Len(high) = Len(s) - k /\ \A i \in 1..(Len(s) - k) : high[i] = s[k + i]
  BY <1>1
<1> HIDE DEF low, high
<1>5. /\ low \o high \in Seq(S) /\ Len(low \o high) = Len(s) - 1
      /\ \A i \in 1..(Len(s) - 1) :
           (low \o high)[i] = IF i <= k - 1 THEN low[i] ELSE high[i - (k - 1)]
  <2>1. /\ low \o high \in Seq(S) /\ Len(low \o high) = Len(low) + Len(high)
        /\ \A i \in 1..(Len(low) + Len(high)) :
             (low \o high)[i] = IF i <= Len(low) THEN low[i] ELSE high[i - Len(low)]
    BY <1>3, <1>4, ConcatProperties
  <2>2. k \in Nat /\ Len(s) \in Nat /\ Len(low) + Len(high) = Len(s) - 1
    BY <1>1, <1>3, <1>4
  <2> QED
    BY <1>3, <2>1, <2>2
<1>6. \A i \in 1..(Len(s) - 1) : (low \o high)[i] = IF i < k THEN s[i] ELSE s[i + 1]
  BY <1>1, <1>3, <1>4, <1>5
<1> QED
  BY <1>1, <1>2, <1>5, <1>6

LEMMA WithoutKeeps ==
  ASSUME NEW S, NEW s \in Seq(S), Distinct(s), NEW x \in Elements(s)
  PROVE  /\ Without(s, x) \in Seq(S) /\ Distinct(Without(s, x))
         /\ Elements(Without(s, x)) = Elements(s) \ {x}
<1> DEFINE t == Without(s, x)
<1>1. PICK k \in 1..Len(s) :
        /\ s[k] = x
        /\ t \in Seq(S) /\ Len(t) = Len(s) - 1
        /\ \A i \in 1..(Len(s) - 1) : t[i] = IF i < k THEN s[i] ELSE s[i + 1]
  BY WithoutOne
<1> HIDE DEF t
<1>2. Len(s) \in Nat
  OBVIOUS
<1>3. Distinct(t)
  BY <1>1, <1>2 DEF Distinct
<1>4. \A i \in 1..Len(t) : t[i] \in Elements(s) \ {x}
  BY <1>1, <1>2 DEF Distinct, Elements
<1>5. ASSUME NEW i \in 1..Len(s), i # k PROVE s[i] \in Elements(t)
  <2>1. CASE i < k
    <3>1. i \in 1..Len(t) /\ t[i] = s[i]
      BY <1>1, <1>2, <2>1
    <3> QED
      BY <3>1 DEF Elements
  <2>2. CASE i > k
    <3>1. i - 1 \in 1..Len(t) /\ t[i - 1] = s[i]
      BY <1>1, <1>2, <2>2
    <3> QED
      BY <3>1 DEF Elements
  <2> QED
    BY <1>5, <2>1, <2>2
<1>6. Elements(t) = Elements(s) \ {x}
  BY <1>1, <1>4, <1>5 DEF Elements
<1> QED
  BY <1>1, <1>3, <1>6 DEF t

\* Who is testing: the jobs with a proxy under test, each listed once as long
\* as they are followed.
Listed ==
  /\ tests \in Seq(Job) /\ Distinct(tests)
  /\ tangled \/ \A j \in Job : j \in Elements(tests) <=> target[j] # NoProxy

Testers ==
  /\ Listed
  /\ \A j \in Job :
       /\ pc[j] = "free" => target[j] = NoProxy
       /\ pc[j] = "restoring" => target[j] # NoProxy

ProxyTyped ==
  /\ proxies \in SUBSET Proxy /\ pool \in SUBSET Proxy
  /\ target \in [Job -> Proxy \cup {NoProxy}]
  /\ saved \in [Job -> SUBSET Proxy]
  /\ tangled \in BOOLEAN

\* Tests that nest: the oldest saved the pool, each later one the proxy of the
\* one before, and the list holds that of the newest.
Nested ==
  /\ tests = <<>> => proxies = pool
  /\ tests # <<>> => saved[tests[1]] = pool /\ proxies = {target[tests[Len(tests)]]}
  /\ \A i \in 1..(Len(tests) - 1) : saved[tests[i + 1]] = {target[tests[i]]}

ProxyInv == StatusTyped /\ ProxyTyped /\ Testers /\ (tangled \/ Nested)

LEMMA NestedAlone ==
  ASSUME Nested, UNCHANGED <<proxies, target, saved, tests, pool>>
  PROVE  Nested'
  BY DEF Nested

\* Once tests and edits are tangled nothing is followed.
LEMMA GivenUp ==
  ASSUME NEW underWay, NEW list, tangled' = TRUE, Follow(underWay, list)
  PROVE  Listed' /\ pool' = {}
<1>1. tests' = <<>> /\ pool' = {}
  BY DEF Follow
<1> QED
  BY <1>1 DEF Listed, Distinct

\* A step that leaves the proxies alone and moves one job, not to another end.
LEMMA ProxiesAlone ==
  ASSUME ProxyInv, NEW j \in Job, NEW to \in Places, Goto(j, to),
         to = "free" => target[j] = NoProxy, to = "restoring" => target[j] # NoProxy,
         StatusTyped', UNCHANGED proxyVars
  PROVE  ProxyInv'
<1>1. ProxyTyped'
  BY DEF ProxyInv, ProxyTyped, proxyVars
<1>2. Listed'
  BY DEF ProxyInv, Testers, Listed, proxyVars, Elements, Distinct
<1>3. \A i \in Job : pc'[i] = IF i = j THEN to ELSE pc[i]
  BY DEF ProxyInv, StatusTyped, Goto
<1>4. Testers'
  BY <1>2, <1>3 DEF ProxyInv, Testers, proxyVars
<1>5. (tangled \/ Nested)'
  BY NestedAlone DEF ProxyInv, proxyVars
<1> QED
  BY <1>1, <1>4, <1>5 DEF ProxyInv

LEMMA EditProxies ==
  ASSUME ProxyInv, StatusTyped', NEW p \in Proxy, AddProxy(p) \/ RemoveProxy(p)
  PROVE  ProxyInv'
<1>1. /\ UNCHANGED <<target, saved, pc>> /\ tangled' = (tangled \/ tests # <<>>)
      /\ tangled' \in BOOLEAN
      /\ \E list \in SUBSET Proxy :
           proxies' \in SUBSET Proxy /\ Follow(tests, list) /\ (proxies = pool => proxies' = list)
  <2>1. CASE AddProxy(p)
    BY <2>1 DEF AddProxy, jobVars, ProxyInv, ProxyTyped
  <2>2. CASE RemoveProxy(p)
    BY <2>2 DEF RemoveProxy, jobVars, ProxyInv, ProxyTyped
  <2> QED
    BY <2>1, <2>2
<1>2. PICK list \in SUBSET Proxy :
        proxies' \in SUBSET Proxy /\ Follow(tests, list) /\ (proxies = pool => proxies' = list)
  BY <1>1
<1>3. CASE tangled'
  <2>1. Listed' /\ pool' = {}
    BY <1>1, <1>2, <1>3, GivenUp
  <2>2. ProxyTyped' /\ Testers'
    BY <1>1, <1>2, <2>1 DEF ProxyInv, ProxyTyped, Testers
  <2> QED
    BY <1>3, <2>2 DEF ProxyInv
<1>4. CASE ~tangled'
  <2>1. tests = <<>> /\ tests' = tests /\ pool' = list /\ proxies = pool /\ ~tangled
    BY <1>1, <1>2, <1>4 DEF Follow, ProxyInv, ProxyTyped, Nested
  <2>2. ProxyTyped'
    BY <1>1, <1>2, <2>1 DEF ProxyInv, ProxyTyped
  <2>3. Testers'
    BY <1>1, <2>1 DEF ProxyInv, Testers, Listed, Elements, Distinct
  <2>4. Nested'
    BY <1>2, <2>1 DEF Nested
  <2> QED
    BY <2>2, <2>3, <2>4 DEF ProxyInv
<1> QED
  BY <1>3, <1>4

LEMMA TestNests ==
  ASSUME ProxyInv, StatusTyped', NEW j \in Job, NEW b \in Browser, NEW p \in Proxy,
         TestProxy(j, b, p)
  PROVE  ProxyInv'
<1> DEFINE n == Len(tests)
<1>1. /\ pc[j] = "free" /\ Goto(j, "queued")
      /\ target' = [target EXCEPT ![j] = p] /\ saved' = [saved EXCEPT ![j] = proxies]
      /\ proxies' = {p} /\ tangled' = tangled /\ Follow(Append(tests, j), pool)
  BY DEF TestProxy
<1>2. ProxyTyped'
  BY <1>1 DEF ProxyInv, ProxyTyped, Follow
<1>10. \A i \in Job : target'[i] = (IF i = j THEN p ELSE target[i])
                   /\ pc'[i] = (IF i = j THEN "queued" ELSE pc[i])
  BY <1>1 DEF ProxyInv, StatusTyped, ProxyTyped, Goto
<1>11. p # NoProxy
  BY ProxyAssumption
<1>12. CASE tangled
  <2>1. tangled' = TRUE
    BY <1>1, <1>12
  <2>2. Testers'
    BY <1>1, <1>10, <1>11, <2>1, GivenUp DEF ProxyInv, Testers
  <2> QED
    BY <1>2, <2>1, <2>2 DEF ProxyInv
<1> SUFFICES ASSUME ~tangled PROVE ProxyInv'
  BY <1>12
<1>13. tests' = Append(tests, j) /\ pool' = pool
  BY <1>1 DEF Follow
<1>3. tests \in Seq(Job) /\ Distinct(tests) /\ n \in Nat /\ j \notin Elements(tests)
  BY <1>1 DEF ProxyInv, Testers, Listed
<1>4. /\ tests' \in Seq(Job) /\ Len(tests') = n + 1 /\ tests'[n + 1] = j
      /\ \A i \in 1..n : tests'[i] = tests[i]
      /\ tests' # <<>>
  BY <1>13, <1>3
<1>5. \A i \in 1..n : tests[i] # j /\ tests[i] \in Job
  BY <1>3 DEF Elements
<1>6. tests = <<>> <=> n = 0
  BY <1>3
<1> HIDE DEF n
<1>7. Distinct(tests)' /\ Elements(tests)' = Elements(tests) \cup {j}
  <2>1. 1..(n + 1) = (1..n) \cup {n + 1}
    BY <1>3
  <2> QED
    BY <1>3, <1>4, <1>5, <2>1 DEF Distinct, Elements, n
<1>8. Testers'
  <2>1. Listed'
    BY <1>4, <1>7, <1>10, <1>11 DEF ProxyInv, Testers, Listed
  <2> QED
    BY <1>10, <1>11, <2>1 DEF ProxyInv, Testers
<1>9. ASSUME Nested PROVE Nested'
  <2>1. /\ target'[j] = p /\ saved'[j] = proxies
        /\ \A i \in 1..n : target'[tests[i]] = target[tests[i]]
                          /\ saved'[tests[i]] = saved[tests[i]]
    BY <1>1, <1>5 DEF ProxyInv, ProxyTyped
  <2>2. CASE n = 0
    BY <1>1, <1>13, <1>4, <1>6, <1>9, <2>1, <2>2 DEF Nested
  <2>3. CASE n # 0
    <3>1. /\ saved[tests[1]] = pool /\ proxies = {target[tests[n]]}
          /\ \A i \in 1..(n - 1) : saved[tests[i + 1]] = {target[tests[i]]}
      BY <1>6, <1>9, <2>3 DEF Nested, n
    <3>2. 1 \in 1..n /\ n \in 1..n /\ tests'[1] = tests[1] /\ tests'[n] = tests[n]
      BY <1>3, <1>4, <2>3
    <3>3. saved'[tests'[1]] = pool' /\ proxies' = {target'[tests'[n + 1]]}
      BY <1>1, <1>13, <1>4, <2>1, <3>1, <3>2
    <3>4. ASSUME NEW i \in 1..n PROVE saved'[tests'[i + 1]] = {target'[tests'[i]]}
      <4>1. CASE i = n
        BY <1>4, <2>1, <3>1, <3>2, <4>1
      <4>2. CASE i # n
        <5>1. i \in 1..(n - 1) /\ i + 1 \in 1..n
          BY <1>3, <4>2
        <5>2. tests'[i + 1] = tests[i + 1] /\ tests'[i] = tests[i]
          BY <1>4, <5>1
        <5>3. saved'[tests[i + 1]] = saved[tests[i + 1]] /\ target'[tests[i]] = target[tests[i]]
          BY <2>1, <5>1
        <5> QED
          BY <3>1, <5>1, <5>2, <5>3
      <4> QED
        BY <4>1, <4>2
    <3>5. 1..(Len(tests') - 1) = 1..n
      BY <1>3, <1>4
    <3> QED
      BY <1>4, <3>3, <3>4, <3>5 DEF Nested
  <2> QED
    BY <2>2, <2>3
<1> QED
  BY <1>1, <1>2, <1>8, <1>9 DEF ProxyInv

LEMMA RestoreUnnests ==
  ASSUME ProxyInv, StatusTyped', NEW j \in Job, RestoreProxies(j)
  PROVE  ProxyInv'
<1> DEFINE n == Len(tests)
<1>1. /\ pc[j] = "restoring" /\ Goto(j, "free")
      /\ target' = [target EXCEPT ![j] = NoProxy] /\ saved' = [saved EXCEPT ![j] = {}]
      /\ proxies' = saved[j] /\ tangled' = (tangled \/ Last(tests) # j)
      /\ Follow(Without(tests, j), pool)
  BY DEF RestoreProxies
<1>2. ProxyTyped'
  BY <1>1 DEF ProxyInv, ProxyTyped, Follow
<1>8. \A i \in Job : target'[i] = (IF i = j THEN NoProxy ELSE target[i])
                  /\ pc'[i] = (IF i = j THEN "free" ELSE pc[i])
  BY <1>1 DEF ProxyInv, StatusTyped, ProxyTyped, Goto
<1>9. CASE tangled'
  <2>1. tangled' = TRUE
    BY <1>1, <1>9 DEF ProxyInv, ProxyTyped
  <2>2. Testers'
    BY <1>1, <1>8, <2>1, GivenUp DEF ProxyInv, Testers
  <2> QED
    BY <1>2, <2>1, <2>2 DEF ProxyInv
<1> SUFFICES ASSUME ~tangled' PROVE ProxyInv'
  BY <1>9
<1>10. /\ ~tangled /\ Last(tests) = j
       /\ tests' = Without(tests, j) /\ pool' = pool
  BY <1>1 DEF Follow
<1>3. tests \in Seq(Job) /\ Distinct(tests) /\ n \in Nat /\ j \in Elements(tests)
  BY <1>1, <1>10 DEF ProxyInv, Testers, Listed
<1>4. tests' \in Seq(Job) /\ Distinct(tests') /\ Elements(tests') = Elements(tests) \ {j}
  BY <1>3, <1>10, WithoutKeeps
<1>5. Testers'
  <2>1. Distinct(tests)' /\ Elements(tests)' = Elements(tests) \ {j}
    BY <1>4 DEF Distinct, Elements
  <2>2. Listed'
    BY <1>4, <1>8, <1>10, <2>1 DEF ProxyInv, Testers, Listed
  <2> QED
    BY <1>8, <2>2 DEF ProxyInv, Testers
<1>6. ASSUME Nested PROVE Nested'
  <2>1. n # 0 /\ tests[n] = j
    BY <1>3, <1>10 DEF Last, Elements
  <2>2. PICK k \in 1..n :
          /\ tests[k] = j
          /\ tests' \in Seq(Job) /\ Len(tests') = n - 1
          /\ \A i \in 1..(n - 1) : tests'[i] = IF i < k THEN tests[i] ELSE tests[i + 1]
    BY <1>3, <1>10, WithoutOne
  <2>3. k = n
    BY <1>3, <2>1, <2>2 DEF Distinct
  <2>4. \A i \in 1..(n - 1) : tests'[i] = tests[i] /\ tests[i] # j /\ tests[i] \in Job
    BY <1>3, <2>1, <2>2, <2>3 DEF Distinct
  <2>5. \A i \in 1..(n - 1) : target'[tests[i]] = target[tests[i]]
                            /\ saved'[tests[i]] = saved[tests[i]]
    BY <1>1, <2>4 DEF ProxyInv, ProxyTyped
  <2>6. /\ saved[tests[1]] = pool
        /\ \A i \in 1..(n - 1) : saved[tests[i + 1]] = {target[tests[i]]}
    <3>1. tests # <<>>
      BY <1>3, <2>1
    <3> QED
      BY <1>6, <3>1 DEF Nested
  <2> HIDE DEF n
  <2>7. CASE n = 1
    <3>1. tests' = <<>> /\ proxies' = pool'
      BY <1>1, <1>10, <2>1, <2>2, <2>6, <2>7
    <3> QED
      BY <2>2, <2>7, <3>1 DEF Nested
  <2>8. CASE n # 1
    <3>1. 1 \in 1..(n - 1) /\ n - 1 \in 1..(n - 1) /\ (n - 1) + 1 = n /\ tests' # <<>>
      BY <1>3, <2>1, <2>2, <2>8
    <3>2. saved'[tests'[1]] = pool'
      BY <1>10, <2>4, <2>5, <2>6, <3>1
    <3>3. proxies' = {target'[tests'[n - 1]]}
      BY <1>1, <2>1, <2>4, <2>5, <2>6, <3>1
    <3>4. ASSUME NEW i \in 1..(n - 2) PROVE saved'[tests'[i + 1]] = {target'[tests'[i]]}
      <4>1. i \in 1..(n - 1) /\ i + 1 \in 1..(n - 1)
        BY <1>3, <3>1
      <4> QED
        BY <2>4, <2>5, <2>6, <4>1
    <3>5. 1..(Len(tests') - 1) = 1..(n - 2)
      BY <1>3, <2>2
    <3> QED
      BY <2>2, <3>1, <3>2, <3>3, <3>4, <3>5 DEF Nested
  <2> QED
    BY <2>7, <2>8
<1>7. Nested'
  BY <1>6, <1>10 DEF ProxyInv
<1> QED
  BY <1>2, <1>5, <1>7 DEF ProxyInv

LEMMA WorkProxies ==
  ASSUME ProxyInv, StatusTyped', NEW j \in Job, Work(j)
  PROVE  ProxyInv'
<1> USE DEF Working, Places
<1>1. ASSUME NEW from \in Places, NEW to \in Places \ {"free", "restoring"}, NEW s,
             Step(j, from, to, s) \/ Silent(j, from, to)
      PROVE  ProxyInv'
  <2>1. Goto(j, to) /\ UNCHANGED proxyVars
    BY <1>1 DEF Step, Silent
  <2> QED
    BY <2>1, ProxiesAlone
<1>2. ASSUME Finish(j) PROVE ProxyInv'
  <2>1. /\ Goto(j, IF target[j] = NoProxy THEN "free" ELSE "restoring")
        /\ UNCHANGED proxyVars
    BY <1>2 DEF Finish
  <2>2. CASE target[j] = NoProxy
    BY <2>1, <2>2, ProxiesAlone
  <2>3. CASE target[j] # NoProxy
    BY <2>1, <2>3, ProxiesAlone
  <2> QED
    BY <2>2, <2>3
<1>3. CASE Start(j) \/ ChooseProxy(j) \/ Navigate(j) \/ FillLogin(j)
           \/ AwaitDashboard(j) \/ Search(j) \/ TryAdding(j) \/ ReportAdding(j)
  BY <1>1, <1>3 DEF Start, ChooseProxy, Navigate, FillLogin, AwaitDashboard,
                    Search, TryAdding, ReportAdding
<1>4. CASE CreateDriver(j)
  BY <1>1, <1>4 DEF CreateDriver
<1>5. CASE Raise(j)
  BY <1>1, <1>5 DEF Raise
<1>6. CASE Quit(j)
  BY <1>1, <1>6 DEF Quit
<1>7. CASE Fail(j)
  BY <1>2, <1>7 DEF Fail
<1>8. CASE Judge(j)
  BY <1>1, <1>2, <1>8 DEF Judge
<1>9. CASE Complete(j) \/ QuitFailed(j)
  BY <1>2, <1>9 DEF Complete, QuitFailed, LateVerdict
<1>10. CASE RestoreProxies(j)
  BY <1>10, RestoreUnnests
<1> QED
  BY <1>3, <1>4, <1>5, <1>6, <1>7, <1>8, <1>9, <1>10 DEF Work

LEMMA RequestProxies ==
  ASSUME ProxyInv, StatusTyped', Request
  PROVE  ProxyInv'
<1>1. ASSUME NEW b \in Browser, ResetStatus(b) PROVE ProxyInv'
  <2>1. UNCHANGED <<pc, proxyVars>>
    BY <1>1 DEF ResetStatus, jobVars
  <2>2. ProxyTyped' /\ Testers'
    BY <2>1 DEF ProxyInv, ProxyTyped, Testers, Listed, Elements, Distinct, proxyVars
  <2> QED
    BY <2>1, <2>2, NestedAlone DEF ProxyInv, proxyVars
<1>2. ASSUME NEW j \in Job, NEW b \in Browser, AddToCart(j, b) PROVE ProxyInv'
  <2>1. Goto(j, "queued") /\ UNCHANGED proxyVars
    BY <1>2 DEF AddToCart
  <2>2. "queued" \in Places
    BY DEF Places, Working
  <2> QED
    BY <2>1, <2>2, ProxiesAlone
<1> QED
  BY <1>1, <1>2, EditProxies, TestNests DEF Request

LEMMA AlwaysProxyInv == Spec => []ProxyInv
<1>1. Init => ProxyInv
  <2> SUFFICES ASSUME Init PROVE ProxyInv
    OBVIOUS
  <2>1. StatusTyped
    BY DEF Init, StatusTyped, Statuses, Idle, Places
  <2>2. ProxyTyped /\ tests = <<>> /\ proxies = pool
    BY DEF Init, ProxyTyped
  <2>3. <<>> \in Seq(Job) /\ Distinct(<<>>) /\ Elements(<<>>) = {}
    BY DEF Distinct, Elements
  <2>4. Testers
    BY <2>2, <2>3 DEF Init, Testers, Listed
  <2>5. Nested
    BY <2>2 DEF Nested
  <2> QED
    BY <2>1, <2>2, <2>4, <2>5 DEF ProxyInv
<1>2. ProxyInv /\ StatusTyped' /\ [Next]_vars => ProxyInv'
  <2> SUFFICES ASSUME ProxyInv, StatusTyped', [Next]_vars PROVE ProxyInv'
    OBVIOUS
  <2>1. CASE UNCHANGED vars
    BY <2>1, NestedAlone DEF vars, ProxyInv, ProxyTyped, Testers, Listed, Elements, Distinct
  <2> QED
    BY <2>1, RequestProxies, WorkProxies DEF Next
<1>3. IInv => StatusTyped
  BY DEF IInv
<1> QED
  BY <1>1, <1>2, <1>3, InductiveInvariant, PTL DEF Spec

(* Every variable keeps its type, whatever overlaps. *)
THEOREM TypeCorrect == Spec => []TypeOK
<1>1. ProxyInv => TypeOK
  BY DEF ProxyInv, StatusTyped, ProxyTyped, Testers, Listed, TypeOK
<1> QED
  BY <1>1, AlwaysProxyInv, PTL

(* Any number of proxy tests that nest, with no addition or removal in     *)
(* between, leave the list as they found it (app.py:260-282).              *)
THEOREM NestedTestsRestore == Spec => []PoolRestored
<1>1. ProxyInv => PoolRestored
  BY DEF ProxyInv, Nested, PoolRestored
<1> QED
  BY <1>1, AlwaysProxyInv, PTL

(* While proxy tests nest, the list holds the proxy of the newest one and  *)
(* no other (app.py:271), so a task that draws now draws it (55-56, 102).  *)
THEOREM NewestTestSeesItsProxy == Spec => []TestSeesItsProxy
<1>1. ProxyInv => TestSeesItsProxy
  BY DEF ProxyInv, Nested, TestSeesItsProxy, Last
<1> QED
  BY <1>1, AlwaysProxyInv, PTL
=============================================================================
