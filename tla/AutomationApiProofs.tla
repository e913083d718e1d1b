------------------------- MODULE AutomationApiProofs -------------------------
(***************************************************************************)
(* Theorems about AutomationApi, for any set of jobs, any choice of the    *)
(* endpoints in use and any number of buttons.                             *)
(***************************************************************************)
EXTENDS AutomationApi, TLAPS

(* Why the status works as a lock: while a task works and nobody undermined *)
(* it, the status is none that an endpoint takes for idle.                 *)
Held == undermined \/ Busy = {} \/ status \notin ClearIdle

IInv == TypeOK /\ OneTaskAtATime /\ Held

(* The statuses that a working task writes as it goes on. *)
InProgress == {"starting", "navigating", "logging_in", "searching",
               "adding_to_cart", "navigating_cart", "clearing_cart"}

LEMMA StatusSets ==
  /\ InProgress \subseteq Statuses /\ InProgress \cap ClearIdle = {}
  /\ AddIdle \subseteq ClearIdle /\ "queued" \notin ClearIdle
  BY DEF InProgress, Statuses, ClearIdle, AddIdle

(* A working task that goes on, under a status that counts as busy or      *)
(* under the one it found.                                                 *)
LEMMA WorksOn ==
  ASSUME IInv, NEW j \in Busy, NEW to \in Working,
         pc' = [pc EXCEPT ![j] = to],
         status' \in InProgress \/ status' = status,
         undermined' = undermined
  PROVE  OneTaskAtATime' /\ Held'
  <1>1. Busy' = Busy
    BY DEF IInv, TypeOK, Busy
  <1> QED
    BY <1>1, StatusSets DEF IInv, OneTaskAtATime, Held

(* A working task that ends leaves no other one behind, unless the status  *)
(* was undermined, whatever it reports.                                    *)
LEMMA WorkEnds ==
  ASSUME IInv, NEW j \in Busy, NEW to \in Places \ Working,
         pc' = [pc EXCEPT ![j] = to],
         undermined' = undermined \/ undermined' = TRUE
  PROVE  OneTaskAtATime' /\ Held'
  <1>1. Busy' = Busy \ {j}
    BY DEF IInv, TypeOK, Busy
  <1> QED
    BY <1>1 DEF IInv, OneTaskAtATime, Held

(* A task that goes on under a status that counts as idle undermines it. *)
LEMMA WorksUndermined ==
  ASSUME undermined' = TRUE
  PROVE  OneTaskAtATime' /\ Held'
  BY DEF OneTaskAtATime, Held

(* A job that is not a working task, and does not become one. *)
LEMMA Bystander ==
  ASSUME IInv, NEW j \in Job, pc[j] \notin Working, NEW to \in Places \ Working,
         pc' = [pc EXCEPT ![j] = to],
         \/ UNCHANGED <<status, undermined>>
         \/ undermined' = (undermined \/ Busy # {})
  PROVE  OneTaskAtATime' /\ Held'
  <1>1. Busy' = Busy
    BY DEF IInv, TypeOK, Busy
  <1>2. CASE UNCHANGED <<status, undermined>>
    BY <1>1, <1>2 DEF IInv, OneTaskAtATime, Held
  <1>3. CASE undermined' = (undermined \/ Busy # {})
    BY <1>1, <1>3 DEF IInv, TypeOK, OneTaskAtATime, Held
  <1> QED
    BY <1>2, <1>3

-----------------------------------------------------------------------------
(* The same facts for the form most steps have. *)
LEMMA AdvanceSafe ==
  ASSUME IInv, NEW j \in Job, NEW from \in Working, NEW to \in Places,
         NEW s, Advance(j, from, to, s),
         to \in Working => s \in InProgress \/ s = status
  PROVE  OneTaskAtATime' /\ Held'
  <1>1. j \in Busy /\ pc' = [pc EXCEPT ![j] = to]
        /\ status' = s /\ undermined' = undermined
    BY DEF Advance, Move, Report, Busy
  <1>2. CASE to \in Working
    BY <1>1, <1>2, WorksOn
  <1>3. CASE to \notin Working
    BY <1>1, <1>3, WorkEnds
  <1> QED
    BY <1>2, <1>3

LEMMA AdvanceType ==
  ASSUME TypeOK, NEW j \in Job, NEW from, NEW to \in Places,
         NEW s \in Statuses, Advance(j, from, to, s)
  PROVE  TypeOK'
  BY DEF TypeOK, Advance, Move, Report

(* Admission: the guard found an idle status, so nobody worked, or the     *)
(* status had been undermined and stays so.                                *)
LEMMA StartTaskSafe ==
  ASSUME IInv, NEW j \in Job, NEW endpoint \in {"add", "clear"},
         NEW idle \in SUBSET ClearIdle, StartTask(j, endpoint, idle)
  PROVE  IInv'
  <1>1. TypeOK'
    BY DEF IInv, TypeOK, StartTask, Move, Places, Working, Statuses
  <1>2. undermined \/ Busy = {}
    BY DEF IInv, Held, StartTask
  <1>3. Busy' = Busy \cup {j} /\ status' = "queued"
    BY DEF IInv, TypeOK, StartTask, Move, Busy, Working
  <1>4. OneTaskAtATime'
    BY <1>2, <1>3 DEF OneTaskAtATime, StartTask
  <1>5. Held'
    BY <1>3, StatusSets DEF Held
  <1> QED
    BY <1>1, <1>4, <1>5 DEF IInv

LEMMA RequestSafe ==
  ASSUME IInv, NEW j \in Job, Request(j)
  PROVE  IInv'
  <1>1. ASSUME NEW endpoint \in {"details", "search"},
               NEW place \in {"details", "results"},
               NEW s \in {"searching_details", "searching_results"},
               StartLookup(j, endpoint, place, s)
        PROVE  IInv'
    <2>1. TypeOK'
      BY <1>1 DEF IInv, TypeOK, StartLookup, Overwrite, Move, Places, Statuses
    <2>2. pc[j] \notin Working /\ place \in Places \ Working
      BY <1>1 DEF StartLookup, Move, Places, Working
    <2> QED
      BY <1>1, <2>1, <2>2, Bystander DEF IInv, StartLookup, Overwrite, Move
  <1>2. CASE AddToCart(j) \/ ClearCart(j)
    BY <1>2, StatusSets, StartTaskSafe DEF AddToCart, ClearCart
  <1> QED
    BY <1>1, <1>2 DEF Request, GetProductDetails, GetSearchResults

LEMMA ResetSafe ==
  ASSUME IInv, ResetStatus
  PROVE  IInv'
  <1>1. Busy' = Busy /\ "idle" \in Statuses
    BY DEF ResetStatus, Busy, Statuses, ClearIdle, AddIdle
  <1> QED
    BY <1>1 DEF IInv, TypeOK, OneTaskAtATime, Held, ResetStatus, Overwrite

(* Steps that only advance. *)
LEMMA LoginSafe ==
  ASSUME IInv, NEW j \in Job, BeginTask(j) \/ Login(j) \/ ReportFailure(j)
  PROVE  IInv'
  <1> USE DEF Places, Working, InProgress
  <1>1. status \in Statuses
    BY DEF IInv, TypeOK
  <1>2. ASSUME NEW from \in Working, NEW to \in Working \cup {"leaving"},
               NEW s \in Statuses, Advance(j, from, to, s),
               to \in Working => s \in InProgress \/ s = status
        PROVE  IInv'
    <2>1. TypeOK'
      BY <1>2, AdvanceType DEF IInv
    <2>2. OneTaskAtATime' /\ Held'
      BY <1>2, AdvanceSafe
    <2> QED
      BY <2>1, <2>2 DEF IInv
  <1>3. InProgress \subseteq Statuses
        /\ {"login_error", "login_failed", "timeout_error", "error"} \subseteq Statuses
    BY DEF Statuses, ClearIdle, AddIdle
  <1>4. CASE BeginTask(j) \/ OpenLoginPage(j) \/ ReportFailure(j)
    BY <1>2, <1>3, <1>4 DEF BeginTask, OpenLoginPage, ReportFailure
  <1>5. CASE FindLoginForm(j)
    BY <1>1, <1>2, <1>3, <1>5 DEF FindLoginForm
  <1>6. ASSUME NEW from \in {"logging_in", "verifying"}, LoggedIn(j, from)
        PROVE  IInv'
    BY <1>2, <1>3, <1>6 DEF LoggedIn
  <1>7. CASE VerifyLogin(j)
    BY <1>1, <1>2, <1>3, <1>6, <1>7 DEF VerifyLogin
  <1>8. CASE SubmitLogin(j)
    <2>1. CASE /\ Move(j, "logging_in", "verifying")
               /\ status' = "verification_needed"
               /\ undermined' = TRUE
               /\ UNCHANGED <<kind, left>>
      <3>1. TypeOK'
        BY <2>1 DEF IInv, TypeOK, Move, Statuses, ClearIdle, AddIdle
      <3> QED
        BY <2>1, <3>1, WorksUndermined DEF IInv
    <2> QED
      BY <1>1, <1>2, <1>3, <1>6, <1>8, <2>1 DEF SubmitLogin
  <1> QED
    BY <1>4, <1>5, <1>7, <1>8 DEF Login

(* One button less. *)
LEMMA NextButtonSafe ==
  ASSUME IInv, NEW j \in Job, NEW from \in {"adding", "confirming"},
         NEW s \in Statuses, NextButton(j, from, s),
         \/ s = status /\ undermined' = undermined
         \/ undermined' = (undermined \/ left[j] > 1),
         left[j] > 0
  PROVE  IInv'
  <1> USE DEF Places, Working
  <1>1. left[j] - 1 \in 0..MaxButtons
    BY AutomationApiAssumption DEF IInv, TypeOK
  <1>2. j \in Busy
    BY DEF NextButton, Move, Busy
  <1>3. CASE left[j] > 1
    <2>1. TypeOK'
      BY <1>1, <1>3 DEF IInv, TypeOK, NextButton, Move
    <2>2. pc' = [pc EXCEPT ![j] = "adding"] /\ status' = s
      BY <1>3 DEF NextButton, Move
    <2>3. OneTaskAtATime' /\ Held'
      BY <1>2, <1>3, <2>2, WorksOn, WorksUndermined
    <2> QED
      BY <2>1, <2>3 DEF IInv
  <1>4. CASE ~(left[j] > 1)
    <2>1. TypeOK'
      BY <1>1, <1>4 DEF IInv, TypeOK, NextButton, Move, Statuses, ClearIdle, AddIdle
    <2>2. pc' = [pc EXCEPT ![j] = "leaving"] /\ undermined' = undermined
      BY <1>4 DEF IInv, TypeOK, NextButton, Move
    <2>3. OneTaskAtATime' /\ Held'
      BY <1>2, <2>2, WorkEnds
    <2> QED
      BY <2>1, <2>3 DEF IInv
  <1> QED
    BY <1>3, <1>4

(* While a task goes through the buttons, one at least is left. *)
ButtonsLeft == \A j \in Job : pc[j] \in {"adding", "confirming"} => left[j] > 0

LEMMA AddSafe ==
  ASSUME IInv, ButtonsLeft, NEW j \in Job, Add(j)
  PROVE  IInv'
  <1> USE DEF Places, Working, InProgress
  <1>1. {"adding_to_cart", "search_no_results", "success", "cart_error"} \subseteq Statuses
        /\ status \in Statuses
    BY DEF IInv, TypeOK, Statuses, ClearIdle, AddIdle
  <1>2. ASSUME NEW from \in Working, NEW to \in {"listing", "leaving"}, NEW s \in Statuses,
               Advance(j, from, to, s), to = "listing" => s = "adding_to_cart"
        PROVE  IInv'
    <2>1. TypeOK'
      BY <1>2, AdvanceType DEF IInv
    <2>2. OneTaskAtATime' /\ Held'
      BY <1>2, AdvanceSafe
    <2> QED
      BY <2>1, <2>2 DEF IInv
  <1>3. CASE SearchProduct(j)
    BY <1>1, <1>2, <1>3 DEF SearchProduct
  <1>4. CASE ListButtons(j)
    <2>1. ASSUME NEW n \in 1..MaxButtons, left' = [left EXCEPT ![j] = n],
                 Move(j, "listing", "adding"), UNCHANGED <<status, kind, undermined>>
          PROVE  IInv'
      <3>1. TypeOK'
        BY <2>1 DEF IInv, TypeOK, Move
      <3>2. j \in Busy
        BY <2>1 DEF Move, Busy
      <3>3. OneTaskAtATime' /\ Held'
        BY <2>1, <3>2, WorksOn DEF Move
      <3> QED
        BY <3>1, <3>3 DEF IInv
    <2> QED
      BY <1>1, <1>2, <1>4, <2>1 DEF ListButtons
  <1>5. CASE ClickAdd(j)
    <2>1. CASE NextButton(j, "adding", status) /\ UNCHANGED undermined
      BY <1>1, <2>1, NextButtonSafe DEF ButtonsLeft, NextButton, Move
    <2>2. CASE /\ Move(j, "adding", "confirming")
               /\ Report("adding_to_cart")
               /\ UNCHANGED <<kind, left>>
      <3>1. Advance(j, "adding", "confirming", "adding_to_cart")
        BY <2>2 DEF Advance
      <3>2. TypeOK'
        BY <1>1, <3>1, AdvanceType DEF IInv
      <3>3. OneTaskAtATime' /\ Held'
        BY <3>1, AdvanceSafe
      <3> QED
        BY <3>2, <3>3 DEF IInv
    <2> QED
      BY <1>5, <2>1, <2>2 DEF ClickAdd
  <1>6. CASE ConfirmAdd(j)
    BY <1>1, <1>2, <1>6, NextButtonSafe DEF ConfirmAdd, ButtonsLeft, NextButton, Move
  <1> QED
    BY <1>3, <1>4, <1>5, <1>6 DEF Add

LEMMA ClearSafe ==
  ASSUME IInv, NEW j \in Job, Clear(j)
  PROVE  IInv'
  <1> USE DEF Places, Working, InProgress
  <1>1. {"cart_empty", "clearing_cart", "cart_cleared", "cart_partially_cleared"}
          \subseteq Statuses
    BY DEF Statuses, ClearIdle, AddIdle
  <1>2. ASSUME NEW from \in {"opening_cart", "clearing"}, NEW s \in Statuses,
               Advance(j, from, "leaving", s)
        PROVE  IInv'
    <2>1. TypeOK'
      BY <1>2, AdvanceType DEF IInv
    <2>2. OneTaskAtATime' /\ Held'
      BY <1>2, AdvanceSafe
    <2> QED
      BY <2>1, <2>2 DEF IInv
  <1>3. ASSUME NEW from \in {"opening_cart", "clearing"}, Move(j, from, "clearing"),
               NEW n \in 0..MaxButtons, left' = [left EXCEPT ![j] = n],
               Report("clearing_cart") \/ UNCHANGED <<status, undermined>>,
               UNCHANGED kind
        PROVE  IInv'
    <2>1. TypeOK'
      BY <1>1, <1>3 DEF IInv, TypeOK, Move, Report
    <2>2. j \in Busy
      BY <1>3 DEF Move, Busy
    <2>3. OneTaskAtATime' /\ Held'
      BY <1>3, <2>2, WorksOn DEF Move, Report
    <2> QED
      BY <2>1, <2>3 DEF IInv
  <1>4. CASE OpenCart(j)
    BY <1>1, <1>2, <1>3, <1>4 DEF OpenCart
  <1>5. CASE RemoveItem(j)
    <2>1. left[j] - 1 \in 0..MaxButtons
      BY <1>5, AutomationApiAssumption DEF IInv, TypeOK, RemoveItem
    <2> QED
      BY <1>3, <1>5, <2>1 DEF RemoveItem
  <1>6. CASE CheckCleared(j)
    BY <1>1, <1>2, <1>6 DEF CheckCleared
  <1> QED
    BY <1>4, <1>5, <1>6 DEF Clear

LEMMA RaiseSafe ==
  ASSUME IInv, NEW j \in Job, Raise(j)
  PROVE  IInv'
  <1>1. j \in Busy /\ "failing" \in Working
    BY DEF Raise, Busy, Working
  <1>2. OneTaskAtATime' /\ Held'
    BY <1>1, WorksOn DEF Raise
  <1>3. TypeOK'
    BY <1>1 DEF IInv, TypeOK, Raise, Places
  <1> QED
    BY <1>2, <1>3 DEF IInv

LEMMA AnswerSafe ==
  ASSUME IInv, NEW j \in Job, AnswerDetails(j) \/ AnswerSearch(j) \/ Leave(j)
  PROVE  IInv'
  <1>1. pc[j] \notin Working /\ "free" \in Places \ Working /\ "leaving" \in Places \ Working
    BY DEF AnswerDetails, AnswerSearch, Leave, Move, Places, Working
  <1>2. OneTaskAtATime' /\ Held'
    BY <1>1, Bystander DEF AnswerDetails, AnswerSearch, Leave, Move, Overwrite
  <1>3. TypeOK'
    <2>1. {"details_found", "not_found", "timeout_error", "error",
           "results_found", "search_no_results"} \subseteq Statuses
      BY DEF Statuses, ClearIdle, AddIdle
    <2>2. status' \in Statuses /\ undermined' \in BOOLEAN
      BY <2>1 DEF IInv, TypeOK, AnswerDetails, AnswerSearch, Leave, Overwrite
    <2>3. pc' \in [Job -> Places]
      BY <1>1 DEF IInv, TypeOK, AnswerDetails, AnswerSearch, Leave, Move
    <2>4. 0 \in 0..MaxButtons
      BY AutomationApiAssumption
    <2>5. kind' \in [Job -> {"none", "add", "clear", "details", "search"}]
          /\ left' \in [Job -> 0..MaxButtons]
      BY <2>4 DEF IInv, TypeOK, AnswerDetails, AnswerSearch, Leave
    <2> QED
      BY <2>2, <2>3, <2>5 DEF TypeOK
  <1> QED
    BY <1>2, <1>3 DEF IInv

LEMMA ButtonsLeftStep ==
  ASSUME TypeOK, ButtonsLeft, [Next]_vars
  PROVE  ButtonsLeft'
  BY DEF TypeOK, ButtonsLeft, Next, vars, ResetStatus, Overwrite, Request, AddToCart, ClearCart,
         StartTask, GetProductDetails, GetSearchResults, StartLookup, Work,
         BeginTask, Login, OpenLoginPage, FindLoginForm, SubmitLogin,
         LoggedIn, VerifyLogin, Add, SearchProduct, ListButtons, NextButton,
         ClickAdd, ConfirmAdd, Clear, OpenCart, RemoveItem, CheckCleared,
         Raise, ReportFailure, AnswerDetails, AnswerSearch, Leave, Advance,
         Move, Report

LEMMA InductiveInvariant == Spec => [](IInv /\ ButtonsLeft)
  <1>1. Init => IInv /\ ButtonsLeft
    <2> SUFFICES ASSUME Init
                 PROVE  IInv /\ ButtonsLeft
      OBVIOUS
    <2>1. "idle" \in Statuses /\ "free" \in Places /\ "free" \notin Working
      BY DEF Statuses, ClearIdle, AddIdle, Places, Working
    <2>2. 0 \in 0..MaxButtons
      BY AutomationApiAssumption
    <2>3. TypeOK
      BY <2>1, <2>2 DEF Init, TypeOK
    <2>4. Busy = {}
      BY <2>1 DEF Init, Busy
    <2> QED
      BY <2>3, <2>4 DEF Init, IInv, OneTaskAtATime, Held, ButtonsLeft
  <1>2. IInv /\ ButtonsLeft /\ [Next]_vars => (IInv /\ ButtonsLeft)'
    <2> SUFFICES ASSUME IInv, ButtonsLeft, [Next]_vars
                 PROVE  IInv'
      BY ButtonsLeftStep DEF IInv
    <2>1. CASE UNCHANGED vars
      BY <2>1 DEF IInv, TypeOK, OneTaskAtATime, Held, Busy, vars
    <2>2. ASSUME NEW j \in Job, Work(j)
          PROVE  IInv'
      BY <2>2, LoginSafe, AddSafe, ClearSafe, RaiseSafe, AnswerSafe DEF Work
    <2> QED
      BY <2>1, <2>2, ResetSafe, RequestSafe DEF Next
  <1> QED
    BY <1>1, <1>2, PTL DEF Spec

(* Every variable keeps its type; in particular only the listed statuses   *)
(* are ever shown.                                                         *)
THEOREM TypeCorrect == Spec => []TypeOK
  BY InductiveInvariant, PTL DEF IInv

(* Two background tasks work on the account at the same time only if the   *)
(* status was undermined: the guards at loo.py:439 and 564 work as a lock  *)
(* against everything else, for any number of requests.                    *)
THEOREM StatusExcludes == Spec => []OneTaskAtATime
  BY InductiveInvariant, PTL DEF IInv

-----------------------------------------------------------------------------
(* Which of the lock's steps a step of the API is.                         *)

(* The holders stay; the lock may be undermined if there are some. *)
LEMMA LockKept ==
  ASSUME TypeOK, Busy' = Busy,
         \/ undermined' = undermined
         \/ undermined' = (undermined \/ Busy # {})
         \/ undermined' = TRUE /\ Busy # {}
  PROVE  [Lock!Next]_(Lock!vars)
  <1>1. CASE undermined' = undermined
    BY <1>1 DEF Lock!vars
  <1>2. CASE undermined' = TRUE /\ Busy # {}
    BY <1>2 DEF Lock!Next, Lock!Undermine
  <1>3. CASE undermined' = (undermined \/ Busy # {})
    BY <1>1, <1>2, <1>3 DEF TypeOK
  <1> QED
    BY <1>1, <1>2, <1>3

(* A task that was at work moves: on, or out. *)
LEMMA LockWork ==
  ASSUME TypeOK, NEW j \in Job, NEW from \in Working, NEW to \in Places, Move(j, from, to),
         undermined' = undermined \/ (to \in Working /\ undermined' = TRUE)
  PROVE  [Lock!Next]_(Lock!vars)
  <1>1. j \in Busy
    BY DEF Move, Busy
  <1>2. CASE to \in Working
    <2>1. Busy' = Busy
      BY <1>2 DEF TypeOK, Move, Busy
    <2> QED
      BY <1>1, <2>1, LockKept
  <1>3. CASE to \notin Working
    <2>1. Busy' = Busy \ {j}
      BY <1>3 DEF TypeOK, Move, Busy
    <2> QED
      BY <1>1, <1>3, <2>1 DEF Lock!Next, Lock!Release
  <1> QED
    BY <1>2, <1>3

(* A job that is no task moves; what it writes may undermine the lock. *)
LEMMA LockBystander ==
  ASSUME TypeOK, NEW j \in Job, NEW from \in Places \ Working, NEW to \in Places \ Working,
         Move(j, from, to),
         undermined' = undermined \/ undermined' = (undermined \/ Busy # {})
  PROVE  [Lock!Next]_(Lock!vars)
  <1>1. Busy' = Busy
    BY DEF TypeOK, Move, Busy
  <1> QED
    BY <1>1, LockKept

LEMMA LockRequest ==
  ASSUME IInv, NEW j \in Job, Request(j)
  PROVE  [Lock!Next]_(Lock!vars)
  <1>1. ASSUME NEW idle \in SUBSET ClearIdle, NEW endpoint, StartTask(j, endpoint, idle)
        PROVE  Lock!Acquire(j)
    <2>1. undermined \/ Busy = {}
      BY <1>1 DEF IInv, Held, StartTask
    <2>2. j \notin Busy /\ Busy' = Busy \cup {j}
      BY <1>1 DEF IInv, TypeOK, StartTask, Move, Busy, Working
    <2> QED
      BY <1>1, <2>1, <2>2 DEF Lock!Acquire, Lock!Take, StartTask
  <1>2. CASE AddToCart(j) \/ ClearCart(j)
    BY <1>1, <1>2, StatusSets DEF AddToCart, ClearCart, Lock!Next
  <1>3. CASE GetProductDetails(j) \/ GetSearchResults(j)
    BY <1>3, LockBystander DEF GetProductDetails, GetSearchResults, StartLookup, Overwrite,
                               IInv, Places, Working
  <1> QED
    BY <1>2, <1>3 DEF Request

LEMMA LockWorks ==
  ASSUME TypeOK, NEW j \in Job, Work(j)
  PROVE  [Lock!Next]_(Lock!vars)
  <1> USE DEF Places, Working
  <1>1. ASSUME NEW from \in Working, NEW to \in Places, NEW s, Advance(j, from, to, s)
        PROVE  [Lock!Next]_(Lock!vars)
    BY <1>1, LockWork DEF Advance, Report
  <1>2. CASE BeginTask(j) \/ Login(j) \/ ReportFailure(j)
    <2>1. CASE /\ Move(j, "logging_in", "verifying")
               /\ undermined' = TRUE
      BY <2>1, LockWork
    <2>2. ASSUME NEW from \in {"logging_in", "verifying"}, LoggedIn(j, from)
          PROVE  [Lock!Next]_(Lock!vars)
      BY <1>1, <2>2 DEF LoggedIn
    <2> QED
      BY <1>1, <1>2, <2>1, <2>2
      DEF BeginTask, Login, OpenLoginPage, FindLoginForm, SubmitLogin, VerifyLogin, ReportFailure
  <1>3. ASSUME NEW from \in {"adding", "confirming"}, NEW s, NextButton(j, from, s),
               undermined' = undermined \/ undermined' = (undermined \/ left[j] > 1)
        PROVE  [Lock!Next]_(Lock!vars)
    <2>1. CASE left[j] > 1
      BY <1>3, <2>1, LockWork DEF NextButton, TypeOK
    <2>2. CASE ~(left[j] > 1)
      BY <1>3, <2>2, LockWork DEF NextButton, TypeOK
    <2> QED
      BY <2>1, <2>2
  <1>4. CASE SearchProduct(j) \/ ListButtons(j)
    BY <1>1, <1>4, LockWork DEF SearchProduct, ListButtons
  <1>5. CASE ClickAdd(j) \/ ConfirmAdd(j)
    BY <1>1, <1>3, <1>5, LockWork DEF ClickAdd, ConfirmAdd, Report
  <1>6. CASE Clear(j)
    BY <1>1, <1>6, LockWork DEF Clear, OpenCart, RemoveItem, CheckCleared, Report
  <1>7. CASE Raise(j)
    BY <1>7, LockWork DEF Raise, Move
  <1>8. CASE AnswerDetails(j) \/ AnswerSearch(j) \/ Leave(j)
    BY <1>8, LockBystander DEF AnswerDetails, AnswerSearch, Leave, Overwrite
  <1> QED
    BY <1>2, <1>4, <1>5, <1>6, <1>7, <1>8 DEF Work, Add

(* The API goes through the steps of TaskLock and no others, for any       *)
(* number of requests: the guards at loo.py:439 and 564 with the statuses  *)
(* that tasks write are a lock, and undermining it is the only way in.     *)
THEOREM StatusIsLock == Spec => ImplementsLock
  <1>1. Init => Lock!Init
    BY DEF Init, Lock!Init, Busy, Working
  <1>2. IInv /\ [Next]_vars => [Lock!Next]_(Lock!vars)
    <2> SUFFICES ASSUME IInv, [Next]_vars
                 PROVE  [Lock!Next]_(Lock!vars)
      OBVIOUS
    <2>1. CASE UNCHANGED vars
      BY <2>1 DEF vars, Busy, Lock!vars
    <2>2. CASE ResetStatus
      BY <2>2, LockKept DEF ResetStatus, Overwrite, Busy, IInv
    <2> QED
      BY <2>1, <2>2, LockRequest, LockWorks DEF Next, IInv
  <1> QED
    BY <1>1, <1>2, InductiveInvariant, PTL DEF Spec, ImplementsLock, Lock!Spec

(* The idle statuses do mean that no task runs (loo.py:432), until the     *)
(* status is undermined: the finding about that comment needs a reset or a *)
(* look-up while a task works, a manual verification, or a second button.  *)
IdleUnlessUndermined == undermined \/ IdleMeansNoTask

THEOREM IdleIsFree == Spec => []IdleUnlessUndermined
  <1>1. IInv => IdleUnlessUndermined
    BY StatusSets DEF IInv, Held, IdleUnlessUndermined, IdleMeansNoTask
  <1> QED
    BY <1>1, InductiveInvariant, PTL

-----------------------------------------------------------------------------
(* Which job still has to write the status, when it refuses requests.      *)

(* A job at this place writes the status again before it is over.          *)
Owes(s, place) ==
  \/ s = "queued" /\ place = "queued"
  \/ s = "starting" /\ place \in {"starting", "failing"}
  \/ s = "searching" /\ place \in {"searching", "failing"}
  \/ s = "adding_to_cart" /\ place \in {"listing", "adding", "confirming", "failing"}
  \/ s = "navigating_cart" /\ place \in {"opening_cart", "failing"}
  \/ s = "clearing_cart" /\ place = "clearing"
  \/ s = "searching_results" /\ place = "results"

(* The statuses that refuse an add-to-cart and may stay when all is over.  *)
Stranded == {"navigating", "logging_in", "login_error", "login_failed",
             "cart_cleared", "cart_empty", "cart_partially_cleared",
             "searching_details", "details_found", "not_found", "results_found"}

(* A refused add-to-cart is told the truth (loo.py:442: "Another automation *)
(* task is already running") unless the status is one of those above: any  *)
(* other is about to be replaced by a job under way, whatever overwrote    *)
(* what in between.  The run of RefusedMeansRunning shows an exception.     *)
RefusedIsOwed ==
  status \notin AddIdle \cup Stranded => \E j \in Job : Owes(status, pc[j])

(* A job that moves either writes a status it owes, or one that may stay,  *)
(* or leaves the status alone and owes what it owed.                       *)
LEMMA OwedMove ==
  ASSUME TypeOK, RefusedIsOwed, NEW j \in Job, NEW to, pc' = [pc EXCEPT ![j] = to],
         \/ status' \in AddIdle \cup Stranded
         \/ Owes(status', to)
         \/ status' = status /\ (Owes(status, pc[j]) => Owes(status, to))
  PROVE  RefusedIsOwed'
  <1>1. pc'[j] = to /\ \A i \in Job \ {j} : pc'[i] = pc[i]
    BY DEF TypeOK
  <1>2. CASE status' = status /\ (Owes(status, pc[j]) => Owes(status, to))
    BY <1>1, <1>2 DEF RefusedIsOwed
  <1> QED
    BY <1>1, <1>2 DEF RefusedIsOwed

LEMMA OwedAdvance ==
  ASSUME TypeOK, RefusedIsOwed, NEW j \in Job, NEW from, NEW to, NEW s, Advance(j, from, to, s),
         \/ s \in AddIdle \cup Stranded
         \/ Owes(s, to)
         \/ s = status /\ ~Owes(status, from)
  PROVE  RefusedIsOwed'
  BY OwedMove DEF Advance, Move, Report

LEMMA OwedNextButton ==
  ASSUME TypeOK, RefusedIsOwed, NEW j \in Job, NEW from \in {"adding", "confirming"},
         NEW s \in {status, "cart_error"}, NextButton(j, from, s)
  PROVE  RefusedIsOwed'
  <1>1. "cart_error" \in AddIdle
    BY DEF AddIdle
  <1>2. Owes(status, from) => Owes(status, "adding")
    BY DEF Owes
  <1> QED
    BY <1>1, <1>2, OwedMove DEF NextButton, Move

LEMMA OwedRequest ==
  ASSUME TypeOK, RefusedIsOwed, NEW j \in Job, Request(j)
  PROVE  RefusedIsOwed'
  <1>1. Owes("queued", "queued") /\ Owes("searching_results", "results")
        /\ "searching_details" \in Stranded
    BY DEF Owes, Stranded
  <1> QED
    BY <1>1, OwedMove DEF Request, AddToCart, ClearCart, StartTask, GetProductDetails,
                          GetSearchResults, StartLookup, Overwrite, Move

LEMMA OwedWork ==
  ASSUME TypeOK, RefusedIsOwed, NEW j \in Job, Work(j)
  PROVE  RefusedIsOwed'
  <1>1. {"login_error", "login_failed", "search_no_results", "success", "cart_error", "cart_empty",
         "cart_cleared", "cart_partially_cleared", "timeout_error", "error", "details_found",
         "not_found", "results_found", "navigating", "logging_in", "verification_needed"}
          \subseteq AddIdle \cup Stranded
    BY DEF AddIdle, Stranded
  <1>2. /\ Owes("starting", "starting") /\ Owes("searching", "searching")
        /\ Owes("navigating_cart", "opening_cart") /\ Owes("adding_to_cart", "listing")
        /\ Owes("adding_to_cart", "confirming") /\ Owes("clearing_cart", "clearing")
    BY DEF Owes
  <1>3. ~Owes(status, "navigating") /\ ~Owes(status, "logging_in") /\ ~Owes(status, "leaving")
        /\ ~Owes(status, "details") /\ ~Owes(status, "verifying")
    BY DEF Owes
  <1>4. CASE BeginTask(j) \/ OpenLoginPage(j) \/ FindLoginForm(j) \/ ReportFailure(j)
    BY <1>1, <1>2, <1>3, <1>4, OwedAdvance
    DEF BeginTask, OpenLoginPage, FindLoginForm, ReportFailure
  <1>5. ASSUME NEW from, LoggedIn(j, from)
        PROVE  RefusedIsOwed'
    BY <1>2, <1>5, OwedAdvance DEF LoggedIn
  <1>6. CASE SubmitLogin(j) \/ VerifyLogin(j)
    BY <1>1, <1>3, <1>5, <1>6, OwedAdvance, OwedMove DEF SubmitLogin, VerifyLogin, Move
  <1>7. CASE SearchProduct(j) \/ ListButtons(j)
    <2>1. Owes(status, "listing") => Owes(status, "adding")
      BY DEF Owes
    <2> QED
      BY <1>1, <1>2, <1>7, <2>1, OwedAdvance, OwedMove DEF SearchProduct, ListButtons, Move
  <1>8. CASE ClickAdd(j) \/ ConfirmAdd(j)
    BY <1>1, <1>2, <1>8, OwedAdvance, OwedMove, OwedNextButton
    DEF ClickAdd, ConfirmAdd, Move, Report
  <1>9. CASE Clear(j)
    BY <1>1, <1>2, <1>9, OwedAdvance, OwedMove
    DEF Clear, OpenCart, RemoveItem, CheckCleared, Move, Report
  <1>10. CASE Raise(j)
    <2>1. Owes(status, pc[j]) => Owes(status, "failing")
      BY <1>10 DEF Raise, Owes
    <2> QED
      BY <1>10, <2>1, OwedMove DEF Raise
  <1>11. CASE AnswerDetails(j) \/ AnswerSearch(j) \/ Leave(j)
    BY <1>1, <1>3, <1>11, OwedMove DEF AnswerDetails, AnswerSearch, Leave, Move, Overwrite
  <1> QED
    BY <1>4, <1>6, <1>7, <1>8, <1>9, <1>10, <1>11 DEF Work, Login, Add

THEOREM RefusalsAreOwed == Spec => []RefusedIsOwed
  <1>1. Init => RefusedIsOwed
    BY DEF Init, RefusedIsOwed, AddIdle
  <1>2. TypeOK /\ RefusedIsOwed /\ [Next]_vars => RefusedIsOwed'
    <2> SUFFICES ASSUME TypeOK, RefusedIsOwed, [Next]_vars
                 PROVE  RefusedIsOwed'
      OBVIOUS
    <2>1. CASE UNCHANGED vars
      BY <2>1 DEF vars, RefusedIsOwed
    <2>2. CASE ResetStatus
      BY <2>2 DEF ResetStatus, Overwrite, RefusedIsOwed, AddIdle
    <2> QED
      BY <2>1, <2>2, OwedRequest, OwedWork DEF Next
  <1> QED
    BY <1>1, <1>2, TypeCorrect, PTL DEF Spec

-----------------------------------------------------------------------------
(* How far a job is from its end.                                          *)
Rank(j) ==
  CASE pc[j] = "free" -> 0
    [] pc[j] \in {"leaving", "details"} -> 1
    [] pc[j] \in {"failing", "results"} -> 2
    [] pc[j] = "clearing" -> 3 + left[j]
    [] pc[j] = "confirming" -> 2 + 2 * left[j]
    [] pc[j] = "adding" -> 3 + 2 * left[j]
    [] pc[j] \in {"listing", "opening_cart"} -> 4 + 2 * MaxButtons
    [] pc[j] = "searching" -> 5 + 2 * MaxButtons
    [] pc[j] = "verifying" -> 6 + 2 * MaxButtons
    [] pc[j] = "logging_in" -> 7 + 2 * MaxButtons
    [] pc[j] = "navigating" -> 8 + 2 * MaxButtons
    [] pc[j] = "starting" -> 9 + 2 * MaxButtons
    [] pc[j] = "queued" -> 10 + 2 * MaxButtons

(* Every step a job takes brings it nearer to its end, on every path and   *)
(* through every failure, and no other job, endpoint or reset holds it     *)
(* back or sends it round again (loo.py:100-548): a job under way is over  *)
(* after at most 10 + 2 * MaxButtons steps of its own.                     *)
JobsAdvance ==
  [][\A j \in Job :
       /\ Work(j) => Rank(j)' < Rank(j)
       /\ ~Work(j) /\ pc[j] # "free" => Rank(j)' = Rank(j)]_vars

RankBounded == \A j \in Job : Rank(j) \in 0..(10 + 2 * MaxButtons)

LEMMA WorkLowersRank ==
  ASSUME TypeOK, ButtonsLeft, NEW j \in Job, Work(j)
  PROVE  Rank(j)' < Rank(j)
  <1>1. MaxButtons \in Nat /\ left[j] \in 0..MaxButtons
    BY AutomationApiAssumption DEF TypeOK
  <1>2. CASE BeginTask(j) \/ Login(j)
    BY <1>1, <1>2 DEF BeginTask, Login, OpenLoginPage, FindLoginForm, SubmitLogin, LoggedIn,
                      VerifyLogin, Advance, Move, TypeOK, Rank
  <1>3. CASE SearchProduct(j) \/ ListButtons(j)
    BY <1>1, <1>3 DEF SearchProduct, ListButtons, Advance, Move, TypeOK, Rank
  <1>4. CASE ClickAdd(j) \/ ConfirmAdd(j)
    <2>1. left[j] > 0
      BY <1>4 DEF ButtonsLeft, ClickAdd, ConfirmAdd, NextButton, Advance, Move
    <2> QED
      BY <1>1, <1>4, <2>1 DEF ClickAdd, ConfirmAdd, NextButton, Advance, Move, TypeOK, Rank
  <1>5. CASE Clear(j)
    BY <1>1, <1>5 DEF Clear, OpenCart, RemoveItem, CheckCleared, Advance, Move, TypeOK, Rank
  <1>6. CASE Raise(j) \/ ReportFailure(j)
    BY <1>1, <1>6 DEF Raise, ReportFailure, Advance, Move, TypeOK, Rank
  <1>7. CASE AnswerDetails(j) \/ AnswerSearch(j) \/ Leave(j)
    BY <1>7 DEF AnswerDetails, AnswerSearch, Leave, Move, TypeOK, Rank
  <1> QED
    BY <1>2, <1>3, <1>4, <1>5, <1>6, <1>7 DEF Work, Add

(* A step of another job leaves this one where it is. *)
LEMMA OthersKeepRank ==
  ASSUME TypeOK, [Next]_vars, NEW j \in Job, ~Work(j), pc[j] # "free"
  PROVE  pc'[j] = pc[j] /\ left'[j] = left[j]
  <1>1. ASSUME NEW i \in Job, i # j, Work(i)
        PROVE  pc'[j] = pc[j] /\ left'[j] = left[j]
    BY <1>1 DEF TypeOK, Work, BeginTask, Login, OpenLoginPage, FindLoginForm, SubmitLogin,
         LoggedIn, VerifyLogin, Add, SearchProduct, ListButtons, NextButton,
         ClickAdd, ConfirmAdd, Clear, OpenCart, RemoveItem, CheckCleared,
         Raise, ReportFailure, AnswerDetails, AnswerSearch, Leave, Advance, Move, Report
  <1>2. ASSUME NEW i \in Job, Request(i)
        PROVE  pc'[j] = pc[j] /\ left'[j] = left[j]
    BY <1>2 DEF TypeOK, Request, AddToCart, ClearCart, StartTask, GetProductDetails,
                GetSearchResults, StartLookup, Move
  <1> QED
    BY <1>1, <1>2 DEF Next, ResetStatus, vars

LEMMA RankInRange == TypeOK => RankBounded
  <1> SUFFICES ASSUME TypeOK, NEW j \in Job
               PROVE  Rank(j) \in 0..(10 + 2 * MaxButtons)
    BY DEF RankBounded
  <1>1. MaxButtons \in Nat /\ left[j] \in 0..MaxButtons /\ pc[j] \in Places
    BY AutomationApiAssumption DEF TypeOK
  <1>2. PICK place \in Places : place = pc[j]
    BY <1>1
  <1>3. CASE place \in {"clearing", "confirming", "adding"}
    <2>1. Rank(j) \in {3 + left[j], 2 + 2 * left[j], 3 + 2 * left[j]}
      BY <1>2, <1>3 DEF Rank
    <2> QED
      BY <1>1, <2>1
  <1>4. CASE place \in {"free", "leaving", "details", "failing", "results"}
    <2>1. Rank(j) \in {0, 1, 2}
      BY <1>2, <1>4 DEF Rank
    <2> QED
      BY <1>1, <2>1
  <1>5. CASE place \in {"listing", "opening_cart", "searching", "verifying", "logging_in",
                        "navigating", "starting", "queued"}
    <2>1. Rank(j) \in {k + 2 * MaxButtons : k \in 4..10}
      BY <1>2, <1>5 DEF Rank
    <2> QED
      BY <1>1, <2>1
  <1> QED
    BY <1>3, <1>4, <1>5 DEF Places, Working

THEOREM EveryStepAdvances == Spec => JobsAdvance /\ []RankBounded
  <1>1. TypeOK /\ ButtonsLeft /\ [Next]_vars =>
          [\A j \in Job :
             /\ Work(j) => Rank(j)' < Rank(j)
             /\ ~Work(j) /\ pc[j] # "free" => Rank(j)' = Rank(j)]_vars
    BY WorkLowersRank, OthersKeepRank DEF Rank
  <1>2. IInv => TypeOK
    BY DEF IInv
  <1> QED
    BY <1>1, <1>2, RankInRange, InductiveInvariant, PTL DEF Spec, JobsAdvance
=============================================================================
