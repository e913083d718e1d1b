---------------------------- MODULE AutomationApi ----------------------------
(***************************************************************************)
(* The Playwright edition of the Kroger automation API,                    *)
(* src/Downloads/f22/loo.py.  One event loop runs the endpoints and the    *)
(* tasks they start; all of them share one status string.  The code        *)
(* between two awaits is one action: a variable may be changed by another  *)
(* coroutine only where the code awaits, and pc[j] names that place.       *)
(*                                                                         *)
(* The status doubles as a lock: /kroger/add-to-cart and                   *)
(* /kroger/cart/clear start a background task only if it is one of a list  *)
(* of "idle" statuses.  Reset and the two look-up endpoints write it       *)
(* without asking.                                                         *)
(***************************************************************************)
EXTENDS Naturals, FiniteSets

CONSTANTS
  Job,          \* bound: requests that can be under way at the same time
  Requests,     \* the endpoints that clients call
  MaxButtons    \* bound: buttons a page shows

Endpoints == {"add", "clear", "details", "search", "reset"}

ASSUME AutomationApiAssumption ==
  Requests \subseteq Endpoints /\ MaxButtons \in Nat \ {0}

VARIABLES
  status,       \* operation_status["status"]
  kind,         \* kind[j]: the endpoint that job j came from
  pc,           \* pc[j]: where job j awaits; "free" if there is no such job
  left,         \* left[j]: buttons of the page that j has not tried
  undermined    \* observed: since the working tasks started, the status was
                \* written by somebody else, or by a task that went on
                \* working although the status it wrote counts as idle

vars == <<status, kind, pc, left, undermined>>

(* Mutant of AddIdle: a status is taken for idle that a task starts with. *)
AddIdleWide == {"idle", "completed", "error", "success", "system_error",
                "cart_error", "timeout_error", "element_not_found_error",
                "search_no_results", "verification_needed", "queued"}

(* Statuses that count as idle for /kroger/add-to-cart, and the two more   *)
(* that do for /kroger/cart/clear.                                         *)
AddIdle == {"idle", "completed", "error", "success", "system_error",
            "cart_error", "timeout_error", "element_not_found_error",
            "search_no_results", "verification_needed"}
ClearIdle == AddIdle \cup {"cart_cleared", "cart_empty"}

Statuses == ClearIdle \cup
  {"queued", "starting", "navigating", "logging_in", "login_error",
   "login_failed", "searching", "adding_to_cart", "navigating_cart",
   "clearing_cart", "cart_partially_cleared", "searching_details",
   "details_found", "not_found", "searching_results", "results_found"}

(* Where a background task is while it can still act on the account. *)
Working == {"queued", "starting", "navigating", "logging_in", "verifying",
            "searching", "listing", "adding", "confirming", "opening_cart",
            "clearing", "failing"}
Places == Working \cup {"free", "details", "results", "leaving"}

TypeOK ==
  /\ status \in Statuses
  /\ kind \in [Job -> {"none", "add", "clear", "details", "search"}]
  /\ pc \in [Job -> Places]
  /\ left \in [Job -> 0..MaxButtons]
  /\ undermined \in BOOLEAN

Init ==
  /\ status = "idle"
  /\ kind = [j \in Job |-> "none"]
  /\ pc = [j \in Job |-> "free"]
  /\ left = [j \in Job |-> 0]
  /\ undermined = FALSE

Busy == {j \in Job : pc[j] \in Working}

Move(j, from, to) == pc[j] = from /\ pc' = [pc EXCEPT ![j] = to]

-----------------------------------------------------------------------------
(* Endpoints.  A refused request (409) changes nothing.                    *)

(* Mutant of StartTask: the status is left to the task to set. *)
StartTaskUnclaimed(j, endpoint, idle) ==
  /\ endpoint \in Requests
  /\ status \in idle
  /\ Move(j, "free", "queued")
  /\ kind' = [kind EXCEPT ![j] = endpoint]
  /\ undermined' = (undermined /\ Busy # {})
  /\ UNCHANGED <<status, left>>

StartTask(j, endpoint, idle) ==
  /\ endpoint \in Requests
  /\ status \in idle
  /\ Move(j, "free", "queued")
  /\ status' = "queued"
  /\ kind' = [kind EXCEPT ![j] = endpoint]
  /\ undermined' = (undermined /\ Busy # {})
  /\ UNCHANGED left

AddToCart(j) == StartTask(j, "add", AddIdle)

ClearCart(j) == StartTask(j, "clear", ClearIdle)

(* A status written by anybody but the working task. *)
Overwrite(s) ==
  /\ status' = s
  /\ undermined' = (undermined \/ Busy # {})

ResetStatus ==
  /\ "reset" \in Requests
  /\ Overwrite("idle")
  /\ UNCHANGED <<kind, pc, left>>

StartLookup(j, endpoint, place, s) ==
  /\ endpoint \in Requests
  /\ Move(j, "free", place)
  /\ kind' = [kind EXCEPT ![j] = endpoint]
  /\ Overwrite(s)
  /\ UNCHANGED left

GetProductDetails(j) == StartLookup(j, "details", "details", "searching_details")

GetSearchResults(j) == StartLookup(j, "search", "results", "searching_results")

(* The answer sets the status, unless closing the browser raised: that     *)
(* exception replaces the result and the endpoint sets nothing.            *)
AnswerDetails(j) ==
  /\ Move(j, "details", "free")
  /\ kind' = [kind EXCEPT ![j] = "none"]
  /\ \/ \E s \in {"details_found", "not_found", "timeout_error", "error"} : Overwrite(s)
     \/ UNCHANGED <<status, undermined>>
  /\ UNCHANGED left

AnswerSearch(j) ==
  /\ Move(j, "results", "leaving")
  /\ \E s \in {"results_found", "search_no_results", "timeout_error", "error"} :
       Overwrite(s)
  /\ UNCHANGED <<kind, left>>

-----------------------------------------------------------------------------
(* The background tasks.                                                   *)

Report(s) == status' = s /\ UNCHANGED undermined

Advance(j, from, to, s) ==
  /\ Move(j, from, to)
  /\ Report(s)
  /\ UNCHANGED <<kind, left>>

BeginTask(j) == Advance(j, "queued", "starting", "starting")

OpenLoginPage(j) == Advance(j, "starting", "navigating", "navigating")

(* The login form, however the page was reached, or no form: the helper    *)
(* returns False and leaves the status as it is.                           *)
FindLoginForm(j) ==
  \/ Advance(j, "navigating", "logging_in", "logging_in")
  \/ Advance(j, "navigating", "leaving", status)
  \/ Advance(j, "navigating", "leaving", "login_error")

(* "logged_in" is overwritten before the next await. *)
LoggedIn(j, from) ==
  \/ kind[j] = "add" /\ Advance(j, from, "searching", "searching")
  \/ kind[j] = "clear" /\ Advance(j, from, "opening_cart", "navigating_cart")

(* The dashboard, or an account link; a sign-in button that cannot be      *)
(* clicked; an error; or none of these, and a minute to verify by hand.    *)
SubmitLogin(j) ==
  \/ LoggedIn(j, "logging_in")
  \/ Advance(j, "logging_in", "leaving", status)
  \/ Advance(j, "logging_in", "leaving", "login_error")
  \/ /\ Move(j, "logging_in", "verifying")
     /\ status' = "verification_needed"
     /\ undermined' = TRUE
     /\ UNCHANGED <<kind, left>>

(* After the minute: logged in, not, an error, or a timeout of Playwright,  *)
(* for which the helper returns False and leaves the status as it is.      *)
VerifyLogin(j) ==
  \/ LoggedIn(j, "verifying")
  \/ Advance(j, "verifying", "leaving", status)
  \/ Advance(j, "verifying", "leaving", "login_failed")
  \/ Advance(j, "verifying", "leaving", "login_error")

(* Mutant of SearchProduct: an empty result gets a status of its own. *)
SearchProductNotFound(j) ==
  \/ Advance(j, "searching", "listing", "adding_to_cart")
  \/ Advance(j, "searching", "leaving", "not_found")

(* Line 227 passes wait_until to wait_for_selector, which the published    *)
(* Playwright rejects: there, the search always raises (Raise below).  The *)
(* outcomes the code is written for are kept, so what holds here holds     *)
(* with either library.                                                    *)
SearchProduct(j) ==
  \/ Advance(j, "searching", "listing", "adding_to_cart")
  \/ Advance(j, "searching", "leaving", "search_no_results")

ListButtons(j) ==
  \/ Advance(j, "listing", "leaving", "search_no_results")
  \/ /\ Move(j, "listing", "adding")
     /\ \E n \in 1..MaxButtons : left' = [left EXCEPT ![j] = n]
     /\ UNCHANGED <<status, kind, undermined>>

(* Mutant of NextButton: the loop runs once too often. *)
NextButtonOffByOne(j, from, s) ==
  /\ left' = [left EXCEPT ![j] = @ - 1]
  /\ IF left[j] >= 0
       THEN Move(j, from, "adding") /\ status' = s
       ELSE Move(j, from, "leaving") /\ status' = "cart_error"
  /\ UNCHANGED kind

(* The rest of "for button in add_buttons" once a button is done with: s   *)
(* stays until the next button is clicked, or there is none and the task   *)
(* gives up.                                                               *)
NextButton(j, from, s) ==
  /\ left' = [left EXCEPT ![j] = @ - 1]
  /\ IF left[j] > 1
       THEN Move(j, from, "adding") /\ status' = s
       ELSE Move(j, from, "leaving") /\ status' = "cart_error"
  /\ UNCHANGED kind

(* A button that is hidden or cannot be clicked is passed over. *)
ClickAdd(j) ==
  \/ NextButton(j, "adding", status) /\ UNCHANGED undermined
  \/ /\ Move(j, "adding", "confirming")
     /\ Report("adding_to_cart")
     /\ UNCHANGED <<kind, left>>

(* The counter that confirms the click appears; or it does not in time,    *)
(* and the loop goes on under the status "cart_error"; or the wait fails   *)
(* in another way, and the loop goes on.                                   *)
ConfirmAdd(j) ==
  \/ Advance(j, "confirming", "leaving", "success")
  \/ NextButton(j, "confirming", "cart_error")
       /\ undermined' = (undermined \/ left[j] > 1)
  \/ NextButton(j, "confirming", status) /\ UNCHANGED undermined

OpenCart(j) ==
  \/ Advance(j, "opening_cart", "leaving", "cart_empty")
  \/ /\ Move(j, "opening_cart", "clearing")
     /\ \E n \in 0..MaxButtons : left' = [left EXCEPT ![j] = n]
     /\ Report("clearing_cart")
     /\ UNCHANGED kind

(* An item whose button is hidden or fails stays, and nothing is said. *)
RemoveItem(j) ==
  /\ left[j] > 0
  /\ Move(j, "clearing", "clearing")
  /\ left' = [left EXCEPT ![j] = @ - 1]
  /\ Report("clearing_cart") \/ UNCHANGED <<status, undermined>>
  /\ UNCHANGED kind

CheckCleared(j) ==
  /\ left[j] = 0
  /\ \/ Advance(j, "clearing", "leaving", "cart_cleared")
     \/ Advance(j, "clearing", "leaving", "cart_partially_cleared")

(* An exception no inner handler takes; the status is written only after   *)
(* Playwright has stopped.                                                 *)
Raise(j) ==
  /\ pc[j] \in {"starting", "searching", "listing", "adding", "opening_cart"}
  /\ pc' = [pc EXCEPT ![j] = "failing"]
  /\ UNCHANGED <<status, kind, left, undermined>>

(* Mutant of ReportFailure: a failed task starts over. *)
ReportFailureRetry(j) == Advance(j, "failing", "starting", "starting")

ReportFailure(j) ==
  \/ Advance(j, "failing", "leaving", "timeout_error")
  \/ Advance(j, "failing", "leaving", "error")

(* "finally": the browser is closed and the task or request is over. *)
Leave(j) ==
  /\ Move(j, "leaving", "free")
  /\ kind' = [kind EXCEPT ![j] = "none"]
  /\ left' = [left EXCEPT ![j] = 0]
  /\ UNCHANGED <<status, undermined>>

-----------------------------------------------------------------------------
Request(j) ==
  AddToCart(j) \/ ClearCart(j) \/ GetProductDetails(j) \/ GetSearchResults(j)

Login(j) == OpenLoginPage(j) \/ FindLoginForm(j) \/ SubmitLogin(j) \/ VerifyLogin(j)

Add(j) == SearchProduct(j) \/ ListButtons(j) \/ ClickAdd(j) \/ ConfirmAdd(j)

Clear(j) == OpenCart(j) \/ RemoveItem(j) \/ CheckCleared(j)

Work(j) ==
  \/ BeginTask(j) \/ Login(j) \/ Add(j) \/ Clear(j)
  \/ Raise(j) \/ ReportFailure(j)
  \/ AnswerDetails(j) \/ AnswerSearch(j) \/ Leave(j)

Next == ResetStatus \/ \E j \in Job : Request(j) \/ Work(j)

(* The event loop runs every coroutine that can run, and every wait of a   *)
(* task has a timeout (Playwright's default where the code gives none).    *)
Spec == Init /\ [][Next]_vars /\ \A j \in Job : WF_vars(Work(j))

-----------------------------------------------------------------------------
(* The status keeps two background tasks from working on the account at    *)
(* the same time, unless it was undermined: by a reset or a look-up while  *)
(* a task works, by a task that waits for manual verification, or by one   *)
(* that tries the next button after an unconfirmed click.                  *)
OneTaskAtATime == undermined \/ \A i, j \in Busy : i = j

(* The status is a lock that is taken, released and undermined as TaskLock  *)
(* says: whatever is let in (loo.py:439, 564) finds no task at work, or a  *)
(* status undermined before, and what undermined it is forgotten only when *)
(* a task is let in while none works.                                      *)
Lock == INSTANCE TaskLock WITH holders <- Busy

ImplementsLock == Lock!Spec

(* Everything that ends a task after its login gives the API back: the     *)
(* next add-to-cart is accepted without a reset.                           *)
AddReleases ==
  \A j \in Job :
    kind[j] = "add" /\ pc[j] = "searching" ~> status \in AddIdle \/ undermined

(* Every task that was accepted ends. *)
TasksEnd == \A j \in Job : pc[j] = "queued" ~> pc[j] = "free"

(* What the code says of itself.                                           *)

(* loo.py:432 and 557: the idle statuses "indicate no task is currently    *)
(* running".                                                               *)
IdleMeansNoTask == status \in AddIdle => Busy = {}

(* loo.py:442: a refusal says "Another automation task is already          *)
(* running".                                                               *)
RefusedMeansRunning == status \notin AddIdle => \E j \in Job : pc[j] # "free"
=============================================================================
