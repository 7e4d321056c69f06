----------------------------- MODULE MonitorCons -----------------------------
(***************************************************************************)
(* The connections of the monitor (snotstream.c): the table of monitoring  *)
(* connections and its counter cur_mon_con, the controller that starts and *)
(* stops them, and what the program does with them when it ends.           *)
(*                                                                         *)
(* Everything runs in callbacks of one libevent loop, so a callback is one *)
(* step; main's cleanup runs after the loop, one loop iteration a step.    *)
(* libevent calls no callback of a bufferevent that was freed, and freeing *)
(* one closes its socket.                                                  *)
(***************************************************************************)
EXTENDS Integers

CONSTANTS
  MaxCons,  \* MAX_MON_CONS
  Overrun,  \* how far behind the table the scan in start_con may run
  TypeStr,  \* the type strings a controller may send
  Known,    \* those that get_con_type knows
  Place,    \* the <host> <port> pairs a controller may send
  Session,  \* the controller connections
  NULL      \* C's null pointer, and "no value"

ASSUME MaxConsAssumption == MaxCons \in Nat \ {0}
ASSUME OverrunAssumption == Overrun \in Nat
ASSUME TypeAssumption    == Known \subseteq TypeStr /\ "UNKNOWN" \notin Known
ASSUME NullAssumption    == NULL \notin Place \cup Session

VARIABLES
  cons,            \* monitoring_cons
  cur_mon_con,     \* the slot the next connection gets
  have_controller, \* how many controllers listener_accept_cb counts
  controller_bev,  \* the global pointer to the controller's bufferevent
  sessions,        \* the controller bufferevents that exist
  reply,           \* what the callback of the last step reported
  faults,          \* misuse of the heap: "double free", "leak"
  phase,           \* "running", "stopping" (stop_all_cons), "done"
  stop_i           \* i of stop_all_cons

table      == <<cons, cur_mon_con, faults>>
controller == <<have_controller, controller_bev, sessions>>
vars       == <<table, controller, reply, phase, stop_i>>

Slots   == 0 .. MaxCons-1
ConType == Known \cup {"UNKNOWN", "EV_BUILDER"}

\* get_con_type: every string it does not know is the same type.
get_con_type(t) == IF t \in Known THEN t ELSE "UNKNOWN"

\* The connection struct; mem is the state of both host and bev, which are
\* allocated and freed together.  Globals start as zeros.
Connection ==
  [valid : Nat, type : ConType, place : Place \cup {NULL}, mem : {"none", "open", "freed"}]

ZeroCon == [valid |-> 0, type |-> "EV_BUILDER", place |-> NULL, mem |-> "none"]

NoReply     == [said |-> "nothing", type |-> NULL, place |-> NULL]
Say(w, t, p) == [said |-> w, type |-> t, place |-> p]

Init ==
  /\ cons = [i \in Slots |-> ZeroCon] /\ cur_mon_con = 0
  /\ have_controller = 0 /\ controller_bev = NULL /\ sessions = {}
  /\ reply = NoReply /\ faults = {}
  /\ phase = "running" /\ stop_i = 0

-----------------------------------------------------------------------------
(* The table. *)

\* Where a scan for the first slot that is not valid ends in table c.  When
\* all are valid it ends behind the table: at MaxCons if it is bounded, and
\* otherwise wherever the memory there happens to hold a zero.
Scan(c, last) ==
  {k \in 0 .. last : /\ k < MaxCons => c[k].valid = 0
                     /\ \A j \in Slots : j < k => c[j].valid # 0}

\* Mutant: the slot stays valid.
DeletedStaysValid(c, i) ==
  [c EXCEPT ![i].mem = IF @ = "none" THEN "none" ELSE "freed"]

\* delete_con of slot i in table c: the slot is freed, not erased.
Deleted(c, i) ==
  [c EXCEPT ![i].valid = 0,
            ![i].mem = IF @ = "none" THEN "none" ELSE "freed"]

\* Mutant: the slot just freed is taken for the first free one.
delete_conReuses(i) ==
  /\ cons' = Deleted(cons, i)
  /\ faults' = IF cons[i].mem = "freed" THEN faults \cup {"double free"} ELSE faults
  /\ cur_mon_con' = i

delete_con(i) ==
  /\ cons' = Deleted(cons, i)
  /\ faults' = IF cons[i].mem = "freed" THEN faults \cup {"double free"} ELSE faults
  /\ cur_mon_con' \in Scan(cons', MaxCons)

\* start_con's slot once it is filled in.
Started(t, p) ==
  [cons EXCEPT ![cur_mon_con] =
     [valid |-> @.valid + 1, type |-> get_con_type(t), place |-> p, mem |-> "open"]]

\* Mutant: stop_con looks at every slot, valid or not.
SearchedAll == Slots

\* The slots stop_con compares with its arguments, and those that match.
Searched == {j \in Slots : j < cur_mon_con}

\* Mutant: the place is not compared.
MatchingType(t, p) == {j \in Searched : cons[j].type = get_con_type(t)}

Matching(t, p) ==
  {j \in Searched : cons[j].type = get_con_type(t) /\ cons[j].place = p}

-----------------------------------------------------------------------------
(* The controller and its commands. *)

\* Mutant: every controller is accepted.
AcceptAll(s) ==
  /\ phase = "running" /\ s \notin sessions
  /\ sessions' = sessions \cup {s} /\ controller_bev' = s
  /\ have_controller' = have_controller + 1
  /\ reply' = NoReply
  /\ UNCHANGED <<table, phase, stop_i>>

\* listener_accept_cb: a second controller is closed at once.
Accept(s) ==
  /\ phase = "running" /\ s \notin sessions
  /\ have_controller = 0
  /\ sessions' = sessions \cup {s} /\ controller_bev' = s
  /\ have_controller' = have_controller + 1
  /\ reply' = NoReply
  /\ UNCHANGED <<table, phase, stop_i>>

\* controller_event_cb: the connection was closed or failed.
ControllerClosed(s) ==
  /\ phase = "running" /\ s \in sessions
  /\ sessions' = sessions \ {s} /\ controller_bev' = NULL
  /\ have_controller' = have_controller - 1
  /\ reply' = NoReply
  /\ UNCHANGED <<table, phase, stop_i>>

\* start_con when it believes that every slot is taken.
StartRefused(t, p) ==
  /\ phase = "running" /\ sessions # {}
  /\ cur_mon_con >= MaxCons
  /\ reply' = Say("full", t, p)
  /\ UNCHANGED <<table, controller, phase, stop_i>>

\* start_con: the connection is pending, or it fails before start_con ends,
\* by its return value or by a call of data_event_cb: either deletes it.
StartCon(t, p) ==
  /\ phase = "running" /\ sessions # {}
  /\ cur_mon_con < MaxCons
  /\ faults' = IF cons[cur_mon_con].mem = "open" THEN faults \cup {"leak"} ELSE faults
  /\ \/ cons' = Started(t, p) /\ reply' = Say("started", t, p)
     \/ cons' = Deleted(Started(t, p), cur_mon_con) /\ reply' = Say("failed", t, p)
  /\ cur_mon_con' \in Scan(cons', MaxCons + Overrun)
  /\ UNCHANGED <<controller, phase, stop_i>>

\* stop_con: the first match is deleted.
StopCon(t, p) ==
  /\ phase = "running" /\ sessions # {}
  /\ \E j \in Matching(t, p) :
       /\ \A k \in Matching(t, p) : j <= k
       /\ delete_con(j)
  /\ reply' = Say("stopped", t, p)
  /\ UNCHANGED <<controller, phase, stop_i>>

\* stop_con: nothing matches.
StopFails(t, p) ==
  /\ phase = "running" /\ sessions # {}
  /\ Matching(t, p) = {}
  /\ reply' = Say("no such connection", t, p)
  /\ UNCHANGED <<table, controller, phase, stop_i>>

-----------------------------------------------------------------------------
(* The monitored hosts, and the end of the program. *)

\* data_event_cb: end of file or an error on the connection of slot i.
DataEvent(i) ==
  /\ phase = "running" /\ cons[i].mem = "open"
  /\ delete_con(i)
  /\ reply' = NoReply
  /\ UNCHANGED <<controller, phase, stop_i>>

\* signal_cb and listener_error_cb end the event loop.
LoopEnds ==
  /\ phase = "running"
  /\ phase' = "stopping" /\ stop_i' = 0
  /\ reply' = NoReply
  /\ UNCHANGED <<table, controller>>

\* An iteration of the loop in stop_all_cons.
StopAllStep ==
  /\ phase = "stopping" /\ stop_i < cur_mon_con
  /\ delete_con(stop_i)
  /\ stop_i' = stop_i + 1
  /\ UNCHANGED <<controller, reply, phase>>

\* main goes on after stop_all_cons: it frees the controller and returns.
CleanUp ==
  /\ phase = "stopping" /\ stop_i >= cur_mon_con
  /\ sessions' = sessions \ {controller_bev}
  /\ phase' = "done"
  /\ UNCHANGED <<table, have_controller, controller_bev, reply, stop_i>>

Next ==
  \/ \E s \in Session : Accept(s) \/ ControllerClosed(s)
  \/ \E t \in TypeStr, p \in Place :
       \/ StartRefused(t, p) \/ StartCon(t, p)
       \/ StopCon(t, p) \/ StopFails(t, p)
  \/ \E i \in Slots : DataEvent(i)
  \/ LoopEnds \/ StopAllStep \/ CleanUp

Spec == Init /\ [][Next]_vars

-----------------------------------------------------------------------------
(* Properties. *)

TypeOK ==
  /\ cons \in [Slots -> Connection]
  /\ cur_mon_con \in 0 .. MaxCons + Overrun
  /\ have_controller \in Int /\ controller_bev \in Session \cup {NULL}
  /\ sessions \subseteq Session
  /\ faults \subseteq {"double free", "leak"}
  /\ phase \in {"running", "stopping", "done"}
  /\ stop_i \in Nat

\* cur_mon_con, which every callback that touches the table recomputes, is
\* the first free slot, or lies behind the table when there is none.  So a
\* start is refused only when no slot is free, and what stop_con and
\* stop_all_cons look at below it are connections that exist, although they
\* never test `valid` and deleted slots keep their type, host and port.
CurIsFirstFree == cur_mon_con \in Scan(cons, MaxCons + Overrun)

\* A slot is valid exactly while its bufferevent and its host are allocated.
ValidIffOpen ==
  \A i \in Slots : IF cons[i].mem = "open" THEN cons[i].valid = 1 ELSE cons[i].valid = 0

\* No sequence of starts, failures, stops, remote closes and shutdown frees
\* a connection twice or overwrites one that is open.
NoHeapMisuse == faults = {}

\* There is at most one controller, the counter and the global pointer agree
\* with it, and none is left when the program has ended.
OneController ==
  /\ have_controller = IF controller_bev = NULL THEN 0 ELSE 1
  /\ sessions = IF phase = "done" \/ controller_bev = NULL THEN {} ELSE {controller_bev}

\* A stop closes one connection, and one of the type and place it names.
StopClosesWhatItNames ==
  [][reply'.said = "stopped" /\ phase' = "running" =>
       \E i \in Slots :
         /\ cons[i].mem = "open" /\ cons'[i].mem = "freed"
         /\ cons[i].type = get_con_type(reply'.type) /\ cons[i].place = reply'.place
         /\ \A k \in Slots \ {i} : cons'[k] = cons[k]]_vars

\* The program "exits cleanly" (snotstream.c:371) through stop_all_cons
\* (snotstream.c:639): no monitoring connection is open at the end.
NothingOpenAtExit == phase = "done" => \A i \in Slots : cons[i].mem # "open"
=============================================================================
