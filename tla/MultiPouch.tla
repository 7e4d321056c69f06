----------------------------- MODULE MultiPouch -----------------------------
(***************************************************************************)
(* Requests on libcurl's multi handle, driven by the libevent loop         *)
(* (lib/pouch/multi_pouch.c), and what snotstream.c does with them: a      *)
(* request is made by url_get, which puts it into the list easy_handles,   *)
(* or by upload_xl3, which does not; pr_callback gets those that are done; *)
(* signal_cb and main take down what is left.                              *)
(*                                                                         *)
(* libcurl is external.  A transfer is "running" until it is "done"; as    *)
(* long as one is running libcurl wants to be called when a timeout        *)
(* expires, and says so through multi_timer_cb when that changes.          *)
(* A callback of the loop is one step; the walk of signal_cb is unrolled.  *)
(***************************************************************************)
EXTENDS Integers, Sequences, FiniteSets, Functions

CONSTANT Req  \* the addresses of PouchReq structs

ASSUME ReqAssumption == IsFiniteSet(Req)

VARIABLES
  pr,            \* "none" or "live", for each struct
  easy,          \* its easy handle in the multi handle: "none", "running", "done"
  list,          \* the requests in the nodes of easy_handles, first to last
  timer,         \* timer_event is pending
  still_running, \* what the last curl_multi_socket_action reported
  phase,         \* "loop", "signal", "stopped" (by signal_cb), "failed" (by the
                 \* listener), "destroyed" and "dropped" (nd_destroy after the one
                 \* and the other), "done", "crashed"
  faults         \* misuse of the heap: "double free", "use after free"

vars == <<pr, easy, list, timer, still_running, phase, faults>>

Init ==
  /\ pr = [r \in Req |-> "none"] /\ easy = [r \in Req |-> "none"]
  /\ list = << >>
  /\ timer = FALSE /\ still_running = 0
  /\ phase = "loop" /\ faults = {}

Running == {r \in Req : easy[r] = "running"}
Listed  == Range(list)

\* The list without the nodes of the requests S.
Unlist(S) ==
  LET left[i \in 0 .. Len(list)] ==
        IF i = 0 THEN << >>
        ELSE IF list[i] \in S THEN left[i - 1] ELSE Append(left[i - 1], list[i])
  IN  left[Len(list)]

\* f with the value v for all of S.
With(f, S, v) == [r \in Req |-> IF r \in S THEN v ELSE f[r]]

\* The structs S are freed, and the memory is misused as `misuse` says besides.
Frees(S, misuse) ==
  /\ pr' = With(pr, S, "none")
  /\ faults' = faults \cup misuse \cup
               (IF \E r \in S : pr[r] = "none" THEN {"double free"} ELSE {})

-----------------------------------------------------------------------------
(* New requests. *)

\* Whatever time libcurl asks for, the timer is pending afterwards: even for -1,
\* which asks for none.
multi_timer_cb == timer' = TRUE

\* pr_domulti: libcurl asks at once for a timeout for the new handle.
pr_domulti(r) ==
  /\ pr' = [pr EXCEPT ![r] = "live"]
  /\ easy' = [easy EXCEPT ![r] = "running"]
  /\ multi_timer_cb
  /\ UNCHANGED <<still_running, phase, faults>>

\* url_get: the request goes to the end of the list as well.
url_get(r) ==
  /\ phase = "loop" /\ pr[r] = "none"
  /\ pr_domulti(r)
  /\ list' = Append(list, r)

\* The end of upload_xl3.
Upload(r) ==
  /\ phase = "loop" /\ pr[r] = "none"
  /\ pr_domulti(r)
  /\ UNCHANGED list

-----------------------------------------------------------------------------
(* libcurl and libevent call. *)

\* Mutant: the node stays in the list.
pr_callbackKeeps(D) ==
  /\ Frees(D \cap Listed, {})
  /\ list' = list

\* pr_callback, for each of D: a request that it finds in the list is removed
\* from the list and freed; one that it does not find is left alone.
pr_callback(D) ==
  /\ Frees(D \cap Listed, {})
  /\ list' = Unlist(D)

\* Mutant: the struct is freed, its easy handle stays.
check_multi_infoPlain(D) ==
  /\ pr_callback(D)
  /\ easy' = With(easy, D, "done")

\* check_multi_info takes the messages of all transfers D that are done and
\* gives each to pr_callback.  pr_free takes the easy handle with the struct.
check_multi_info(D) ==
  /\ pr_callback(D)
  /\ easy' = With(With(easy, D, "done"), D \cap Listed, "none")

\* curl_multi_socket_action finishes the transfers D.
SocketAction(D) ==
  /\ D \subseteq Running
  /\ still_running' = Cardinality(Running \ D)

\* Mutant: the timer is deleted for the last but one transfer, too.
event_cbEager(D) ==
  /\ phase = "loop" /\ Running # {}
  /\ SocketAction(D) /\ check_multi_info(D)
  /\ timer' = (timer /\ still_running' > 1)
  /\ UNCHANGED phase

\* event_cb: something happened on a socket of a transfer.  The timer goes on,
\* for the old timeout or for another that libcurl asks for; after the last
\* transfer event_cb deletes it, whatever libcurl asked for.
event_cb(D) ==
  /\ phase = "loop" /\ Running # {}
  /\ SocketAction(D) /\ check_multi_info(D)
  /\ timer' = (timer /\ still_running' > 0)
  /\ UNCHANGED phase

\* Mutant: the timer is added again after every call.
timer_cbAgain(D) ==
  /\ phase = "loop" /\ timer
  /\ SocketAction(D) /\ check_multi_info(D)
  /\ timer' = TRUE
  /\ UNCHANGED phase

\* timer_cb: the timer has fired and is not pending.  libcurl asks for the next
\* timeout of the transfers that go on; when the last one is done it says once,
\* by -1, that it wants none; without a transfer it does not call.
timer_cb(D) ==
  /\ phase = "loop" /\ timer
  /\ SocketAction(D) /\ check_multi_info(D)
  /\ IF Running # {} THEN multi_timer_cb ELSE timer' = FALSE
  /\ UNCHANGED phase

-----------------------------------------------------------------------------
(* The end of the program. *)

\* signal_cb begins its walk over the list.
Signal ==
  /\ phase = "loop" /\ phase' = "signal"
  /\ UNCHANGED <<pr, easy, list, timer, still_running, faults>>

\* One iteration: the node, its request and the easy handle are freed, and the
\* next node is read from the one just freed.  Either that memory still holds
\* the pointer or the program follows a wild one.  curl_multi_remove_handle
\* may call multi_timer_cb.
SignalWalk ==
  /\ phase = "signal" /\ list # << >>
  /\ Frees({Head(list)}, {"use after free"})
  /\ easy' = With(easy, {Head(list)}, "none")
  /\ list' = Tail(list)
  /\ timer' = timer \/ multi_timer_cb
  /\ phase' \in {"signal", "crashed"}
  /\ UNCHANGED still_running

\* pmi_multi_cleanup finds no message, for check_multi_info takes them all.
SignalEnd ==
  /\ phase = "signal" /\ list = << >>
  /\ phase' = "stopped"
  /\ UNCHANGED <<pr, easy, list, timer, still_running, faults>>

\* listener_error_cb ends the loop without signal_cb's cleanup.
ListenerError ==
  /\ phase = "loop" /\ phase' = "failed"
  /\ UNCHANGED <<pr, easy, list, timer, still_running, faults>>

\* nd_destroy frees the nodes that are left and, with free, what they carry,
\* but not the easy handles.
nd_destroy ==
  /\ \/ phase = "stopped" /\ phase' = "destroyed"
     \/ phase = "failed"  /\ phase' = "dropped"
  /\ Frees(Listed, {})
  /\ list' = << >>
  /\ UNCHANGED <<easy, timer, still_running>>

\* pr_del_pmi: the timer and the multi handle go, then the event base.
pr_del_pmi ==
  /\ phase \in {"destroyed", "dropped"} /\ phase' = "done"
  /\ timer' = FALSE
  /\ easy' = [r \in Req |-> "none"]
  /\ UNCHANGED <<pr, list, still_running, faults>>

Next ==
  \/ \E r \in Req : url_get(r) \/ Upload(r)
  \/ \E D \in SUBSET Req : event_cb(D) \/ timer_cb(D)
  \/ Signal \/ SignalWalk \/ SignalEnd \/ ListenerError \/ nd_destroy \/ pr_del_pmi

\* libevent calls timer_cb when the timer has expired, and libcurl, called
\* again and again, finishes each transfer: pr_domulti gives it two seconds.
Fairness ==
  /\ WF_vars(\E D \in SUBSET Req : timer_cb(D))
  /\ \A r \in Req : WF_vars(\E D \in SUBSET Req : r \in D /\ timer_cb(D))

Spec == Init /\ [][Next]_vars /\ Fairness

-----------------------------------------------------------------------------
(* Properties. *)

TypeOK ==
  /\ pr \in [Req -> {"none", "live"}]
  /\ easy \in [Req -> {"none", "running", "done"}]
  /\ list \in Seq(Req)
  /\ timer \in BOOLEAN
  /\ still_running \in 0 .. Cardinality(Req)
  /\ phase \in {"loop", "signal", "stopped", "failed", "destroyed", "dropped", "done", "crashed"}
  /\ faults \subseteq {"double free", "use after free"}

\* The list has each of its requests once, and only requests that are still
\* running: what pr_callback freed is out of it, so neither signal_cb nor
\* nd_destroy meets it again.
ListIsPending == IsInjective(list) /\ Listed \subseteq Running

\* The PouchReq that an easy handle points to (CURLOPT_PRIVATE, CURLOPT_WRITEDATA,
\* CURLOPT_ERRORBUFFER) has not been freed: while the loop runs, while signal_cb
\* takes the list down, and until curl_multi_cleanup.  The one exception is the
\* end after a listener error, where main frees the requests that are in flight
\* (nd_destroy) before the multi handle that still has their easy handles.
PrivateIsLive ==
  \A r \in Req : easy[r] # "none" =>
    pr[r] = "live" \/ (phase = "dropped" /\ easy[r] = "running")

\* Whatever ends the program, and whatever is in flight then, no request is
\* freed twice.
NoDoubleFree == "double free" \notin faults

\* While a transfer is running the timer is pending: event_cb never deletes
\* one that libcurl still counts on, although it goes by still_running, which
\* pr_domulti does not update.
TimerKept == phase = "loop" /\ Running # {} => timer

\* Every request is answered, or times out, unless the loop ends first.
RequestsAreAnswered ==
  \A r \in Req : easy[r] = "running" ~> easy[r] # "running" \/ phase # "loop"

\* Without transfers the timer does not go on firing, although
\* multi_timer_cb adds it when libcurl wants it deleted.
IdleTimerStops ==
  phase = "loop" /\ Running = {} ~> Running # {} \/ ~timer \/ phase # "loop"

\* signal_cb "exits cleanly" (snotstream.c:371): no freed memory is read.
NoUseAfterFree == "use after free" \notin faults
=============================================================================
