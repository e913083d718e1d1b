--------------------------- MODULE UnguardedStatus ---------------------------
(***************************************************************************)
(* Two programs that report on one status without looking at it first:     *)
(* "selenium", src/Downloads/PythonApplication3.py, whose add-to-cart      *)
(* tasks run in worker threads and write the keys of the status one after  *)
(* the other, and "cart", src/kroger.beta.fastapi.py, whose requests run   *)
(* in worker threads and replace the keys at once.  A message is known by  *)
(* the status it was written with; timestamps and logging are left out.    *)
(***************************************************************************)
EXTENDS Naturals, FiniteSets

CONSTANTS Job,      \* requests under way
          Editions  \* which of the two programs is considered

ASSUME EditionsAssumption == Editions \subseteq {"selenium", "cart"}
ASSUME JobAssumption == IsFiniteSet(Job)

VARIABLES edition, board, pc,
          pending,   \* what update_status has still to write of a report
          drivers,   \* requests whose browser runs
          crowded    \* observed: two have been at work since one began alone

vars == <<edition, board, pc, pending, drivers, crowded>>

\* Mutant of Results: a product that could not be added is no result.
ResultsShort == {"success", "error"}

\* What the verdict at line 132 takes for a result.
Results == {"success", "cart_error", "error"}

\* What a request may end with, and all that is ever reported.
Final == {"success", "cart_error", "error", "completed", "system_error"}
Statuses == Final \cup {"idle", "queued", "starting", "navigating", "logging_in", "logged_in",
                        "verification_needed", "searching", "search_complete", "adding_to_cart"}

Init ==
  /\ edition \in Editions
  /\ board = [status |-> "idle", message |-> "idle"]
  /\ pc = [j \in Job |-> "idle"]
  /\ pending = [j \in Job |-> "none"]
  /\ drivers = {}
  /\ crowded = FALSE

\* Ended, in the ordinary way or by an exception of its last call.
AtRest == {"idle", "gone"}
Working == {j \in Job : pc[j] \notin AtRest \/ pending[j] # "none"}

\* Mutant of Report: the message is forgotten.
ReportStatusOnly(j, s) == board' = [board EXCEPT !.status = s] /\ UNCHANGED pending

\* update_status: the first key, or all of them.
Report(j, s) ==
  IF edition = "cart"
  THEN board' = [status |-> s, message |-> s] /\ UNCHANGED pending
  ELSE board' = [board EXCEPT !.status = s] /\ pending' = [pending EXCEPT ![j] = s]

\* The second key, before the request does anything else.
WriteMessage(j) ==
  /\ pending[j] # "none"
  /\ board' = [board EXCEPT !.message = pending[j]]
  /\ pending' = [pending EXCEPT ![j] = "none"]
  /\ UNCHANGED <<pc, drivers>>

\* A request that is at "from" reports s and is then at "to"; a new one begins.
Goes(j, from, s, to) ==
  /\ pc[j] = from /\ pending[j] = "none"
  /\ Report(j, s)
  /\ pc' = [pc EXCEPT ![j] = to]
Begins(j, s, to) == \E from \in AtRest : Goes(j, from, s, to) /\ drivers' = drivers \ {j}

-----------------------------------------------------------------------------
\* PythonApplication3.py: the endpoint, a coroutine, queues a task whatever runs.
Queue(j) ==
  /\ \A k \in Job : pc[k] = "queued" => pending[k] = "none"
  /\ Begins(j, "queued", "queued")
Start(j) == Goes(j, "queued", "starting", "setup") /\ UNCHANGED drivers

\* webdriver.Chrome, which may raise outside the inner try.
OpenBrowser(j) ==
  /\ Goes(j, "setup", "navigating", "login_page")
  /\ drivers' = drivers \cup {j}

\* Mutant of SetupFails: nobody catches what webdriver.Chrome raises.
SetupFailsSilently(j) ==
  /\ pc[j] = "setup" /\ pending[j] = "none"
  /\ pc' = [pc EXCEPT ![j] = "idle"]
  /\ UNCHANGED <<board, pending, drivers>>

SetupFails(j) == Goes(j, "setup", "system_error", "idle") /\ UNCHANGED drivers

\* Mutants of LoginSteps and CartSteps: the login is tried again after a
\* verification; success is reported before the click has shown any.
LoginStepsRetry == {<<"login_page", "logging_in", "login">>, <<"login", "logged_in", "search_page">>,
                    <<"login", "verification_needed", "login">>}
CartStepsEarly == {<<"search_page", "searching", "results">>, <<"results", "success", "product">>,
                   <<"product", "adding_to_cart", "add">>, <<"add", "success", "quit">>}
CartStepsMisspelt == {<<"search_page", "searching", "result">>}

LoginSteps == {<<"login_page", "logging_in", "login">>, <<"login", "logged_in", "search_page">>,
               <<"login", "verification_needed", "search_page">>}
CartSteps == {<<"search_page", "searching", "results">>, <<"results", "search_complete", "product">>,
              <<"product", "adding_to_cart", "add">>, <<"add", "success", "quit">>}

Progress(j) ==
  /\ \E step \in LoginSteps \cup CartSteps : Goes(j, step[1], step[2], step[3])
  /\ UNCHANGED drivers

\* Mutant of AfterError: as in Downloads/app.py, the browser is left running.
AfterErrorLeave == "idle"

AfterError == "quit"

\* What raises on the way to the product, and at its button.
Fails(j) ==
  /\ \/ \E from \in {"login_page", "login", "results"} : Goes(j, from, "error", AfterError)
     \/ Goes(j, "add", "cart_error", "quit")
  /\ UNCHANGED drivers

\* finally: the browser is closed, which may raise, and the status judged.
Quit(j) ==
  /\ pc[j] = "quit" /\ pending[j] = "none"
  /\ pc' = [pc EXCEPT ![j] = "judge"]
  /\ drivers' = drivers \ {j}
  /\ UNCHANGED <<board, pending>>

QuitFails(j) ==
  /\ Goes(j, "quit", "system_error", "gone")
  /\ UNCHANGED drivers

Judge(j) ==
  /\ pc[j] = "judge"
  /\ pc' = [pc EXCEPT ![j] = IF board.status \in Results THEN "idle" ELSE "complete"]
  /\ UNCHANGED <<board, pending, drivers>>

Complete(j) == Goes(j, "complete", "completed", "idle") /\ UNCHANGED drivers

Task(j) ==
  \/ WriteMessage(j) \/ Start(j) \/ OpenBrowser(j) \/ SetupFails(j) \/ Progress(j)
  \/ Fails(j) \/ Quit(j) \/ QuitFails(j) \/ Judge(j) \/ Complete(j)

-----------------------------------------------------------------------------
\* kroger.beta.fastapi.py: one call of the shop, which may raise.
AddToCart(j) == Begins(j, "starting", "post")
Posted(j) ==
  /\ \E s \in {"success", "error"} : Goes(j, "post", s, "idle")
  /\ UNCHANGED drivers
PostRaises(j) ==
  /\ pc[j] = "post"
  /\ pc' = [pc EXCEPT ![j] = "gone"]
  /\ UNCHANGED <<board, pending, drivers>>
ResetStatus(j) == Begins(j, "idle", "idle")

Next ==
  /\ \E j \in Job : \/ /\ edition = "selenium"
                       /\ Queue(j) \/ Task(j)
                    \/ /\ edition = "cart"
                       /\ AddToCart(j) \/ Posted(j) \/ PostRaises(j) \/ ResetStatus(j)
  /\ crowded' = \/ Cardinality(Working') > 1
                \/ crowded /\ ~(Working = {} /\ Working' # {})
  /\ UNCHANGED edition

\* A task runs on: its thread is not stopped, and Selenium's waits have
\* timeouts.  The call of the shop has none, and is not fair.
Spec == Init /\ [][Next]_vars /\ \A j \in Job : WF_vars(Task(j) /\ Next)

-----------------------------------------------------------------------------
\* The values of the variables, as update_status (39-44; beta 63-69) leaves them.
TypeOK ==
  /\ edition \in Editions
  /\ board \in [status : Statuses, message : Statuses]
  /\ pc \in [Job -> AtRest \cup {"queued", "setup", "login_page", "login", "search_page", "results",
                              "product", "add", "quit", "judge", "complete", "post"}]
  /\ pending \in [Job -> Statuses \cup {"none"}]
  /\ drivers \subseteq Job
  /\ crowded \in BOOLEAN

(***************************************************************************)
(* Whatever tasks do to each other's status, once nothing is at work it is *)
(* one that a task may end with (PythonApplication3.py:123-136), message   *)
(* included; or a request to the cart died in its call and "starting"      *)
(* stays (kroger.beta.fastapi.py:122-129).                                 *)
(***************************************************************************)
RestIsFinal ==
  Working = {} =>
    \/ {board.status, board.message} \subseteq Final \cup {"idle"}
    \/ edition = "cart" /\ board.status = "starting" /\ \E j \in Job : pc[j] = "gone"

(***************************************************************************)
(* The status and the message are of one report, once it is written out,   *)
(* unless two tasks have written at a time (lines 41-42); the cart         *)
(* replaces both in one call (beta 64-68).                                 *)
(***************************************************************************)
ReportIsWhole ==
  edition = "cart" \/ ~crowded =>
    \/ board.message = board.status
    \/ \E j \in Job : pending[j] = board.status

(***************************************************************************)
(* To a client that polls (lines 148, 160-163) while no second request has *)
(* come, a final status means that the task touches the cart no more.      *)
(***************************************************************************)
FinalMeansDone ==
  ~crowded /\ board.status \in Final =>
    \A j \in Working : pc[j] \in {"quit", "judge"} \cup AtRest

(***************************************************************************)
(* "Process completed but with unknown result" (line 133) is only ever     *)
(* said when another request has overwritten the result.                   *)
(***************************************************************************)
UnknownNeedsCompany == board.status = "completed" => crowded

(***************************************************************************)
(* Every task has closed its browser when it ends (lines 129-131), other   *)
(* than by an exception of the closing.                                    *)
(***************************************************************************)
BrowserClosed == \A j \in drivers : pc[j] # "idle"

(***************************************************************************)
(* Every queued task ends (lines 46-136), whatever others report meanwhile.*)
(***************************************************************************)
TasksEnd == \A j \in Job : (edition = "selenium" /\ j \in Working) ~> j \notin Working
=============================================================================
