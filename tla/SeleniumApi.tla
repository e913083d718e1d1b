----------------------------- MODULE SeleniumApi -----------------------------
(***************************************************************************)
(* The Selenium edition of the Kroger automation API,                      *)
(* src/Downloads/app.py.  Endpoints are coroutines of one event loop and   *)
(* never await, so each is one step; the tasks they queue are plain        *)
(* functions that run in worker threads, interleaved with everything.      *)
(*                                                                         *)
(* There is one status per browser, used as a lock by add_to_cart.         *)
(* test_proxy does not look at it; it replaces the global PROXY_LIST by    *)
(* the proxy under test, queues a task, and queues restore_proxies behind  *)
(* it to put back the copy it took.                                        *)
(***************************************************************************)
EXTENDS Naturals, Sequences, SequencesExt

CONSTANTS
  Browser,   \* the keys of operation_status
  Proxy,     \* the proxies that requests name
  Job,       \* bound: requests whose background tasks are under way
  Requests   \* the endpoints in use, a subset of Endpoints

Endpoints == {"reset", "add_to_cart", "add_proxy", "remove_proxy", "test_proxy"}

ASSUME RequestsAssumption == Requests \subseteq Endpoints

NoProxy == "none"
ASSUME ProxyAssumption == NoProxy \notin Proxy

VARIABLES
  status,      \* status[b]: operation_status[b]["status"]
  pc,          \* pc[j]: where the background tasks of j stand; "free" if none
  browser,     \* browser[j]: the browser that j was asked to use
  proxies,     \* PROXY_LIST; it never holds a proxy twice
  target,      \* target[j]: the proxy that j tests, or NoProxy
  saved,       \* saved[j]: original_list, the copy that j will put back
  undermined,  \* undermined[b]: observed, since the tasks working in b
               \* started the status of b was written by somebody else
  tests,       \* observed: the proxy tests under way, oldest first
  pool,        \* observed: the list as additions and removals alone make it
  tangled      \* observed: an addition or removal came during a test, or a
               \* test put its copy back before a later one did; from then on
               \* the other two are not followed

statusVars == <<status, undermined>>
proxyVars == <<proxies, target, saved, tests, pool, tangled>>
jobVars == <<pc, browser>>
vars == <<status, undermined, proxies, target, saved, tests, pool, tangled,
          pc, browser>>

(* Mutant of Idle: a status is taken for idle that a task starts with. *)
IdleWide == {"idle", "completed", "error", "system_error", "success", "cart_error", "queued"}

Idle == {"idle", "completed", "error", "system_error", "success", "cart_error"}
Statuses == Idle \cup
  {"queued", "testing_proxy", "starting", "configuring", "navigating",
   "logging_in", "logged_in", "verification_needed", "searching",
   "adding_to_cart"}

(* Where a task is until it has reported the result of its work. *)
Working == {"queued", "starting", "configuring", "created", "navigating",
            "logging_in", "logged_in", "searching", "adding", "raising"}
Places == Working \cup {"free", "quitting", "judging", "completing",
                        "too_late", "restoring"}

TypeOK ==
  /\ status \in [Browser -> Statuses]
  /\ pc \in [Job -> Places]
  /\ browser \in [Job -> Browser]
  /\ proxies \in SUBSET Proxy /\ pool \in SUBSET Proxy
  /\ target \in [Job -> Proxy \cup {NoProxy}]
  /\ saved \in [Job -> SUBSET Proxy]
  /\ undermined \in [Browser -> BOOLEAN]
  /\ tests \in Seq(Job)
  /\ tangled \in BOOLEAN

Init ==
  /\ status = [b \in Browser |-> "idle"]
  /\ pc = [j \in Job |-> "free"]
  /\ browser \in {[j \in Job |-> b] : b \in Browser}
  /\ proxies \in SUBSET Proxy \ {{}}
  /\ pool = proxies
  /\ target = [j \in Job |-> NoProxy]
  /\ saved = [j \in Job |-> {}]
  /\ undermined = [b \in Browser |-> FALSE]
  /\ tests = <<>>
  /\ tangled = FALSE

Busy(b) == {j \in Job : browser[j] = b /\ pc[j] \in Working}
Active(b) == {j \in Job : browser[j] = b /\ pc[j] \notin {"free", "restoring"}}

UpdateStatus(b, s) == status' = [status EXCEPT ![b] = s]

(* A status written by anybody but a working task. *)
Overwrite(b, s) ==
  /\ UpdateStatus(b, s)
  /\ undermined' = [undermined EXCEPT ![b] = @ \/ Busy(b) # {}]

Goto(j, place) == pc' = [pc EXCEPT ![j] = place]

(* What is followed of the tests under way and of the list without them. *)
Follow(underWay, list) ==
  /\ tests' = IF tangled' THEN <<>> ELSE underWay
  /\ pool' = IF tangled' THEN {} ELSE list

(* A sequence without x, which occurs in it once. *)
Without(s, x) == RemoveAt(s, CHOOSE i \in 1..Len(s) : s[i] = x)

-----------------------------------------------------------------------------
(* Endpoints. *)

ResetStatus(b) ==
  /\ "reset" \in Requests
  /\ Overwrite(b, "idle")
  /\ UNCHANGED <<jobVars, proxyVars>>

(* Mutant of AddToCart: the status is left to the task to set. *)
AddToCartUnclaimed(j, b) ==
  /\ "add_to_cart" \in Requests
  /\ pc[j] = "free"
  /\ status[b] \in Idle
  /\ undermined' = [undermined EXCEPT ![b] = @ /\ Busy(b) # {}]
  /\ Goto(j, "queued")
  /\ browser' = [browser EXCEPT ![j] = b]
  /\ UNCHANGED <<status, proxyVars>>

AddToCart(j, b) ==
  /\ "add_to_cart" \in Requests
  /\ pc[j] = "free"
  /\ status[b] \in Idle
  /\ UpdateStatus(b, "queued")
  /\ undermined' = [undermined EXCEPT ![b] = @ /\ Busy(b) # {}]
  /\ Goto(j, "queued")
  /\ browser' = [browser EXCEPT ![j] = b]
  /\ UNCHANGED proxyVars

AddProxy(p) ==
  /\ "add_proxy" \in Requests
  /\ p \notin proxies
  /\ proxies' = proxies \cup {p}
  /\ tangled' = (tangled \/ tests # <<>>)
  /\ Follow(tests, pool \cup {p})
  /\ UNCHANGED <<statusVars, jobVars, target, saved>>

RemoveProxy(p) ==
  /\ "remove_proxy" \in Requests
  /\ p \in proxies
  /\ proxies' = proxies \ {p}
  /\ tangled' = (tangled \/ tests # <<>>)
  /\ Follow(tests, pool \ {p})
  /\ UNCHANGED <<statusVars, jobVars, target, saved>>

(* Mutant of TestProxy: the list is copied after it was replaced. *)
TestProxyCopiesLate(j, b, p) ==
  /\ "test_proxy" \in Requests
  /\ pc[j] = "free"
  /\ Overwrite(b, "testing_proxy")
  /\ Goto(j, "queued")
  /\ browser' = [browser EXCEPT ![j] = b]
  /\ target' = [target EXCEPT ![j] = p]
  /\ saved' = [saved EXCEPT ![j] = {p}]
  /\ proxies' = {p}
  /\ UNCHANGED tangled
  /\ Follow(Append(tests, j), pool)

TestProxy(j, b, p) ==
  /\ "test_proxy" \in Requests
  /\ pc[j] = "free"
  /\ Overwrite(b, "testing_proxy")
  /\ Goto(j, "queued")
  /\ browser' = [browser EXCEPT ![j] = b]
  /\ target' = [target EXCEPT ![j] = p]
  /\ saved' = [saved EXCEPT ![j] = proxies]
  /\ proxies' = {p}
  /\ UNCHANGED tangled
  /\ Follow(Append(tests, j), pool)

-----------------------------------------------------------------------------
(* kroger_automation_task, in a worker thread. *)

Step(j, from, to, s) ==
  /\ pc[j] = from
  /\ Goto(j, to)
  /\ UpdateStatus(browser[j], s)
  /\ UNCHANGED <<undermined, browser, proxyVars>>

Silent(j, from, to) ==
  /\ pc[j] = from
  /\ Goto(j, to)
  /\ UNCHANGED <<statusVars, browser, proxyVars>>

Start(j) == Step(j, "queued", "starting", "starting")

(* get_random_proxy: whatever the list holds by now.  A test uses a proxy;  *)
(* whether another request does is up to the client.                       *)
ChooseProxy(j) ==
  /\ proxies # {}
  /\ Step(j, "starting", "configuring", "configuring")

CreateDriver(j) ==
  \/ target[j] = NoProxy /\ Silent(j, "starting", "created")
  \/ Silent(j, "configuring", "created")

Navigate(j) == Step(j, "created", "navigating", "navigating")

(* Mutant of FillLogin: a status misspelt. *)
FillLoginMisspelt(j) == Step(j, "navigating", "logging_in", "loging_in")

FillLogin(j) == Step(j, "navigating", "logging_in", "logging_in")

(* Mutant of AwaitDashboard: a login that timed out starts over. *)
AwaitDashboardRetry(j) ==
  \/ Step(j, "logging_in", "logged_in", "logged_in")
  \/ Step(j, "logging_in", "navigating", "verification_needed")

AwaitDashboard(j) ==
  \/ Step(j, "logging_in", "logged_in", "logged_in")
  \/ Step(j, "logging_in", "logged_in", "verification_needed")

Search(j) == Step(j, "logged_in", "searching", "searching")

(* "search_complete" is followed by this status at once. *)
TryAdding(j) == Step(j, "searching", "adding", "adding_to_cart")

ReportAdding(j) ==
  \/ Step(j, "adding", "quitting", "success")
  \/ Step(j, "adding", "quitting", "cart_error")

(* An exception before the result: the timeout of a wait, the driver gone, *)
(* random.choice on a list that is empty or shrinks under it.              *)
Raise(j) ==
  /\ pc[j] \in {"starting", "configuring", "created", "navigating",
                "logging_in", "searching"}
  /\ Silent(j, pc[j], "raising")

Quit(j) ==
  \/ Silent(j, "quitting", "judging")
  \/ Silent(j, "quitting", "too_late")

(* The task was the last function of the request, unless this is a test. *)
Finish(j) ==
  /\ Goto(j, IF target[j] = NoProxy THEN "free" ELSE "restoring")
  /\ UNCHANGED <<browser, proxyVars>>

(* Mutant of Fail: the exception is only logged. *)
FailSilently(j) ==
  /\ pc[j] = "raising"
  /\ Finish(j)
  /\ UNCHANGED statusVars

Fail(j) ==
  /\ pc[j] = "raising"
  /\ UpdateStatus(browser[j], "system_error")
  /\ Finish(j)
  /\ UNCHANGED undermined

(* Line 175 reads the shared status, whoever wrote it last. *)
Judge(j) ==
  \/ /\ pc[j] = "judging"
     /\ status[browser[j]] \in {"success", "cart_error", "error"}
     /\ Finish(j)
     /\ UNCHANGED statusVars
  \/ /\ status[browser[j]] \notin {"success", "cart_error", "error"}
     /\ Silent(j, "judging", "completing")

(* A verdict of a task that had reported its result before. *)
LateVerdict(j, from, s) ==
  /\ pc[j] = from
  /\ Overwrite(browser[j], s)
  /\ Finish(j)

Complete(j) == LateVerdict(j, "completing", "completed")

QuitFailed(j) == LateVerdict(j, "too_late", "system_error")

(* Mutant of RestoreProxies: the copy is added to the list, not put back. *)
RestoreProxiesMerged(j) ==
  /\ pc[j] = "restoring"
  /\ Goto(j, "free")
  /\ proxies' = proxies \cup saved[j]
  /\ target' = [target EXCEPT ![j] = NoProxy]
  /\ saved' = [saved EXCEPT ![j] = {}]
  /\ tangled' = (tangled \/ Last(tests) # j)
  /\ Follow(Without(tests, j), pool)
  /\ UNCHANGED <<statusVars, browser>>

(* restore_proxies *)
RestoreProxies(j) ==
  /\ pc[j] = "restoring"
  /\ Goto(j, "free")
  /\ proxies' = saved[j]
  /\ target' = [target EXCEPT ![j] = NoProxy]
  /\ saved' = [saved EXCEPT ![j] = {}]
  /\ tangled' = (tangled \/ Last(tests) # j)
  /\ Follow(Without(tests, j), pool)
  /\ UNCHANGED <<statusVars, browser>>

-----------------------------------------------------------------------------
Work(j) ==
  \/ Start(j) \/ ChooseProxy(j) \/ CreateDriver(j) \/ Navigate(j)
  \/ FillLogin(j) \/ AwaitDashboard(j) \/ Search(j) \/ TryAdding(j)
  \/ ReportAdding(j) \/ Raise(j) \/ Quit(j) \/ Fail(j) \/ Judge(j)
  \/ Complete(j) \/ QuitFailed(j) \/ RestoreProxies(j)

Request ==
  \/ \E b \in Browser : ResetStatus(b)
  \/ \E p \in Proxy : AddProxy(p) \/ RemoveProxy(p)
  \/ \E j \in Job, b \in Browser :
       AddToCart(j, b) \/ \E p \in Proxy : TestProxy(j, b, p)

Next == Request \/ \E j \in Job : Work(j)

(* Threads run, and every wait of Selenium has a timeout. *)
Spec == Init /\ [][Next]_vars /\ \A j \in Job : WF_vars(Work(j))

-----------------------------------------------------------------------------
(* The lock of one browser holds, unless it was undermined: by a reset, by *)
(* a proxy test, or by the late verdict of an earlier task.                *)
OneTaskPerBrowser ==
  \A b \in Browser : undermined[b] \/ \A i, j \in Busy(b) : i = j

(* The status of each browser is a lock as TaskLock says, of whose tasks   *)
(* those of add_to_cart ask (app.py:194) and those of test_proxy do not.   *)
Lock(b) == INSTANCE TaskLock WITH holders <- Busy(b), undermined <- undermined[b]

ImplementsLocks ==
  /\ \A b \in Browser : Lock(b)!Init
  /\ [][\A b \in Browser : [Lock(b)!BargingNext]_(Lock(b)!vars)]_vars

(* Whatever overlaps and whoever resets: once nothing runs in a browser,   *)
(* its status is one that lets the next add_to_cart in.                    *)
NeverWedged ==
  \A b \in Browser : Active(b) = {} => status[b] \in Idle

(* Proxy tests that nest leave the list as they found it. *)
PoolRestored == tests = <<>> /\ ~tangled => proxies = pool

(* While tests nest, the newest one finds its own proxy in the list and no *)
(* other.                                                                  *)
TestSeesItsProxy == tests # <<>> /\ ~tangled => proxies = {target[Last(tests)]}

(* Every task that was queued ends, and a test puts its copy back. *)
TasksEnd == \A j \in Job : pc[j] = "queued" ~> pc[j] = "free"

(* app.py:176 says "Process completed" of the browser's process. *)
CompletedMeansDone ==
  \A b \in Browser : status[b] = "completed" => Busy(b) = {}
=============================================================================
