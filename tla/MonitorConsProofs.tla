-------------------------- MODULE MonitorConsProofs --------------------------
(***************************************************************************)
(* Proofs about the connection table, for any number of slots, types,      *)
(* places and controllers.                                                 *)
(***************************************************************************)
EXTENDS MonitorCons, TLAPS

\* stop_all_cons never deletes a slot behind the table: when cur_mon_con lies
\* behind it the loop is still at slot 0, and the first delete_con corrects it.
StopStaysInTable == phase = "stopping" => stop_i = 0 \/ cur_mon_con <= MaxCons

IInv ==
  /\ TypeOK /\ CurIsFirstFree /\ ValidIffOpen /\ NoHeapMisuse /\ OneController
  /\ StopStaysInTable

-----------------------------------------------------------------------------
(* The table. *)

\* Where a scan ends: at a free slot with none before it, or behind a table
\* without one.
LEMMA ScanEnds ==
  ASSUME NEW c, NEW last \in {MaxCons, MaxCons + Overrun}, NEW k \in Scan(c, last)
  PROVE  /\ k \in 0 .. MaxCons + Overrun
         /\ k \in Scan(c, MaxCons + Overrun)
         /\ k < MaxCons => k \in Slots /\ c[k].valid = 0
         /\ \A j \in Slots : j < k => c[j].valid # 0
BY MaxConsAssumption, OverrunAssumption DEF Scan, Slots

\* Deleting an open connection keeps the table in order.
LEMMA DeleteKeeps ==
  ASSUME cons \in [Slots -> Connection], ValidIffOpen, NoHeapMisuse,
         NEW i \in Slots, cons[i].mem = "open", delete_con(i)
  PROVE  /\ cons' \in [Slots -> Connection]
         /\ cur_mon_con' \in 0 .. MaxCons + Overrun
         /\ CurIsFirstFree' /\ ValidIffOpen' /\ NoHeapMisuse'
<1>1. /\ cons' = [cons EXCEPT ![i] = [cons[i] EXCEPT !.valid = 0, !.mem = "freed"]]
      /\ faults' = faults /\ cur_mon_con' \in Scan(cons', MaxCons)
  BY DEF delete_con, Deleted
<1>2. [cons[i] EXCEPT !.valid = 0, !.mem = "freed"] \in Connection
  BY DEF Connection
<1>3. cons' \in [Slots -> Connection]
  BY <1>1, <1>2
<1>4. ValidIffOpen'
  BY <1>1 DEF ValidIffOpen, Connection
<1>5. CurIsFirstFree' /\ cur_mon_con' \in 0 .. MaxCons + Overrun
  BY <1>1, ScanEnds DEF CurIsFirstFree
<1>6. QED
  BY <1>1, <1>3, <1>4, <1>5 DEF NoHeapMisuse

\* A slot below cur_mon_con holds an open connection.
LEMMA BelowIsOpen ==
  ASSUME TypeOK, CurIsFirstFree, ValidIffOpen, NEW i \in Slots, i < cur_mon_con
  PROVE  cons[i].mem = "open"
<1>1. cons[i].valid # 0
  BY ScanEnds DEF CurIsFirstFree
<1>2. QED
  BY <1>1 DEF ValidIffOpen

\* Filling in the free slot cur_mon_con, and deleting it again if the
\* connection fails at once, keep the table in order.
LEMMA StartKeeps ==
  ASSUME TypeOK, CurIsFirstFree, ValidIffOpen, NoHeapMisuse,
         NEW t \in TypeStr, NEW p \in Place, StartCon(t, p)
  PROVE  /\ cons' \in [Slots -> Connection]
         /\ cur_mon_con' \in 0 .. MaxCons + Overrun
         /\ CurIsFirstFree' /\ ValidIffOpen' /\ NoHeapMisuse'
<1> DEFINE n == cur_mon_con
           new == [valid |-> 1, type |-> get_con_type(t), place |-> p, mem |-> "open"]
           dead == [valid |-> 0, type |-> get_con_type(t), place |-> p, mem |-> "freed"]
<1>1. n \in Slots /\ cons[n].valid = 0
  BY ScanEnds DEF StartCon, CurIsFirstFree
<1>2. cons \in [Slots -> Connection] /\ cons[n].mem # "open"
  <2>1. cons \in [Slots -> Connection]
    BY DEF TypeOK
  <2>2. cons[n].mem = "open" => cons[n].valid = 1
    BY <1>1 DEF ValidIffOpen
  <2>3. QED
    BY <1>1, <2>1, <2>2
<1>3. get_con_type(t) \in ConType
  BY DEF get_con_type, ConType
<1>4. new \in Connection /\ dead \in Connection
  BY <1>3 DEF Connection
<1>5. Started(t, p) = [cons EXCEPT ![n] = new]
  BY <1>1, <1>2 DEF Started
<1>6. Deleted(Started(t, p), n) = [cons EXCEPT ![n] = dead]
  BY <1>1, <1>2, <1>5 DEF Deleted
<1>7. cons' = [cons EXCEPT ![n] = new] \/ cons' = [cons EXCEPT ![n] = dead]
  BY <1>5, <1>6 DEF StartCon
<1>8. cons' \in [Slots -> Connection]
  BY <1>2, <1>4, <1>7
<1>9. ValidIffOpen'
  BY <1>1, <1>2, <1>7 DEF ValidIffOpen
<1>10. CurIsFirstFree' /\ cur_mon_con' \in 0 .. MaxCons + Overrun
  BY ScanEnds DEF CurIsFirstFree, StartCon
<1>11. NoHeapMisuse'
  BY <1>2 DEF NoHeapMisuse, StartCon
<1>12. QED
  BY <1>8, <1>9, <1>10, <1>11

-----------------------------------------------------------------------------
(* The invariant. *)

\* The invariant holds initially.
LEMMA InitIInv == Init => IInv
<1> SUFFICES ASSUME Init PROVE IInv
  OBVIOUS
<1>1. ZeroCon \in Connection
  BY DEF ZeroCon, Connection, ConType
<1>2. TypeOK
  BY <1>1, MaxConsAssumption, OverrunAssumption DEF Init, TypeOK
<1>3. CurIsFirstFree
  BY MaxConsAssumption, OverrunAssumption DEF Init, CurIsFirstFree, Scan, Slots, ZeroCon
<1>4. ValidIffOpen
  BY DEF Init, ValidIffOpen, ZeroCon
<1>5. NoHeapMisuse /\ OneController
  BY DEF Init, NoHeapMisuse, OneController
<1>6. QED
  BY <1>2, <1>3, <1>4, <1>5 DEF IInv, Init, StopStaysInTable

\* Every step preserves it.
LEMMA StepIInv == IInv /\ [Next]_vars => IInv'
<1> SUFFICES ASSUME IInv, [Next]_vars PROVE IInv'
  OBVIOUS
<1>i. /\ TypeOK /\ CurIsFirstFree /\ ValidIffOpen /\ NoHeapMisuse /\ OneController
      /\ StopStaysInTable
  BY DEF IInv
\* A callback that touches only the table, or only the controller.
<1>t. ASSUME UNCHANGED <<controller, stop_i>>, phase' = phase,
             cons' \in [Slots -> Connection], cur_mon_con' \in 0 .. MaxCons + Overrun,
             CurIsFirstFree', ValidIffOpen', NoHeapMisuse', StopStaysInTable'
      PROVE  IInv'
  BY <1>i, <1>t DEF IInv, TypeOK, NoHeapMisuse, OneController, controller
<1>c. ASSUME UNCHANGED table
      PROVE  /\ CurIsFirstFree' /\ ValidIffOpen' /\ NoHeapMisuse'
             /\ cons' \in [Slots -> Connection] /\ cur_mon_con' \in 0 .. MaxCons + Overrun
  BY <1>i, <1>c DEF TypeOK, CurIsFirstFree, ValidIffOpen, NoHeapMisuse, table
<1>1. CASE \E s \in Session : Accept(s)
  <2>1. PICK s \in Session : Accept(s)
    BY <1>1
  <2>2. /\ have_controller' = 1 /\ controller_bev' = s /\ sessions' = {s}
        /\ UNCHANGED <<table, phase, stop_i>> /\ phase = "running" /\ s # NULL
    BY <2>1, <1>i, NullAssumption DEF Accept, OneController
  <2>3. /\ CurIsFirstFree' /\ ValidIffOpen' /\ NoHeapMisuse'
        /\ cons' \in [Slots -> Connection] /\ cur_mon_con' \in 0 .. MaxCons + Overrun
    BY <2>2, <1>c
  <2>4. OneController'
    BY <2>2 DEF OneController
  <2>5. TypeOK' /\ StopStaysInTable'
    BY <2>2, <2>3, <1>i DEF TypeOK, NoHeapMisuse, StopStaysInTable
  <2>6. QED
    BY <2>3, <2>4, <2>5 DEF IInv
<1>2. CASE \E s \in Session : ControllerClosed(s)
  <2>1. PICK s \in Session : ControllerClosed(s)
    BY <1>2
  <2>2. /\ have_controller' = 0 /\ controller_bev' = NULL /\ sessions' = {}
        /\ UNCHANGED <<table, phase, stop_i>> /\ phase = "running"
    BY <2>1, <1>i DEF ControllerClosed, OneController
  <2>3. /\ CurIsFirstFree' /\ ValidIffOpen' /\ NoHeapMisuse'
        /\ cons' \in [Slots -> Connection] /\ cur_mon_con' \in 0 .. MaxCons + Overrun
    BY <2>2, <1>c
  <2>4. OneController'
    BY <2>2 DEF OneController
  <2>5. TypeOK' /\ StopStaysInTable'
    BY <2>2, <2>3, <1>i DEF TypeOK, NoHeapMisuse, StopStaysInTable
  <2>6. QED
    BY <2>3, <2>4, <2>5 DEF IInv
<1>3. CASE \E t \in TypeStr, p \in Place : StartRefused(t, p) \/ StopFails(t, p)
  BY <1>3, <1>c, <1>t DEF StartRefused, StopFails, StopStaysInTable
<1>4. CASE \E t \in TypeStr, p \in Place : StartCon(t, p)
  <2>1. PICK t \in TypeStr, p \in Place : StartCon(t, p)
    BY <1>4
  <2>2. QED
    BY <2>1, <1>i, <1>t, StartKeeps DEF StartCon, StopStaysInTable
<1>5. CASE \E t \in TypeStr, p \in Place : StopCon(t, p)
  <2>1. PICK t \in TypeStr, p \in Place : StopCon(t, p)
    BY <1>5
  <2>2. PICK j \in Matching(t, p) : delete_con(j)
    BY <2>1 DEF StopCon
  <2>3. j \in Slots /\ j < cur_mon_con
    BY DEF Matching, Searched
  <2>4. cons[j].mem = "open"
    BY <2>3, <1>i, BelowIsOpen
  <2>5. QED
    BY <2>1, <2>2, <2>3, <2>4, <1>i, <1>t, DeleteKeeps DEF StopCon, TypeOK, StopStaysInTable
<1>6. CASE \E i \in Slots : DataEvent(i)
  <2>1. PICK i \in Slots : DataEvent(i)
    BY <1>6
  <2>2. QED
    BY <2>1, <1>i, <1>t, DeleteKeeps DEF DataEvent, TypeOK, StopStaysInTable
<1>7. CASE LoopEnds
  BY <1>7, <1>c, <1>i DEF LoopEnds, IInv, TypeOK, OneController, NoHeapMisuse, controller, StopStaysInTable
<1>8. CASE StopAllStep
  <2>1. /\ stop_i < cur_mon_con /\ delete_con(stop_i) /\ stop_i' = stop_i + 1
        /\ UNCHANGED <<controller, phase>> /\ stop_i \in Nat
    BY <1>8, <1>i DEF StopAllStep, TypeOK
  <2>2. stop_i \in Slots
    <3>1. (stop_i = 0 \/ cur_mon_con <= MaxCons) /\ cur_mon_con \in Nat
      <4>1. phase = "stopping"
        BY <1>8 DEF StopAllStep
      <4>2. cur_mon_con \in 0 .. MaxCons + Overrun
        BY <1>i DEF TypeOK
      <4>3. QED
        BY <4>1, <4>2, <1>i, MaxConsAssumption, OverrunAssumption DEF StopStaysInTable
    <3>2. QED
      BY <2>1, <3>1, MaxConsAssumption DEF Slots
  <2>3. cons[stop_i].mem = "open"
    BY <2>1, <2>2, <1>i, BelowIsOpen
  <2>4. /\ cons' \in [Slots -> Connection] /\ cur_mon_con' \in 0 .. MaxCons + Overrun
        /\ CurIsFirstFree' /\ ValidIffOpen' /\ NoHeapMisuse'
    BY <2>1, <2>2, <2>3, <1>i, DeleteKeeps DEF TypeOK
  <2>5. StopStaysInTable'
    <3>1. cur_mon_con' \in 0 .. MaxCons
      BY <2>1 DEF delete_con, Scan
    <3>2. QED
      BY <3>1, MaxConsAssumption DEF StopStaysInTable
  <2>6. QED
    BY <2>1, <2>4, <2>5, <1>i DEF IInv, TypeOK, NoHeapMisuse, OneController, controller
<1>9. CASE CleanUp
  <2>1. /\ sessions' = sessions \ {controller_bev} /\ phase' = "done"
        /\ UNCHANGED <<table, have_controller, controller_bev, stop_i>>
    BY <1>9 DEF CleanUp
  <2>2. QED
    BY <2>1, <1>c, <1>i DEF IInv, TypeOK, OneController, NoHeapMisuse, StopStaysInTable
<1>10. CASE UNCHANGED vars
  BY <1>10, <1>c, <1>t, <1>i DEF vars, StopStaysInTable, table
<1>11. QED
  BY <1>1, <1>2, <1>3, <1>4, <1>5, <1>6, <1>7, <1>8, <1>9, <1>10 DEF Next

\* The inductive invariant holds in every state of the monitor.
THEOREM MonitorInvariant == Spec => []IInv
<1>1. QED
  BY InitIInv, StepIInv, PTL DEF Spec

\* Type correctness, whatever the size of the table.
THEOREM MonitorTypeOK == Spec => []TypeOK
<1>1. IInv => TypeOK
  BY DEF IInv
<1>2. QED
  BY <1>1, MonitorInvariant, PTL

\* cur_mon_con is the first free slot (or behind a full table) after every
\* callback, so the loops bounded by it meet existing connections only.
THEOREM MonitorCurIsFirstFree == Spec => []CurIsFirstFree
<1>1. IInv => CurIsFirstFree
  BY DEF IInv
<1>2. QED
  BY <1>1, MonitorInvariant, PTL

\* The flag `valid` and the memory of a slot agree: what delete_con and
\* start_con leave behind, a failed start included.
THEOREM MonitorValidIffOpen == Spec => []ValidIffOpen
<1>1. IInv => ValidIffOpen
  BY DEF IInv
<1>2. QED
  BY <1>1, MonitorInvariant, PTL

\* No connection is freed twice and none is overwritten while it is open.
THEOREM MonitorNoHeapMisuse == Spec => []NoHeapMisuse
<1>1. IInv => NoHeapMisuse
  BY DEF IInv
<1>2. QED
  BY <1>1, MonitorInvariant, PTL

\* One controller at a time, and none is left after the cleanup.
THEOREM MonitorOneController == Spec => []OneController
<1>1. IInv => OneController
  BY DEF IInv
<1>2. QED
  BY <1>1, MonitorInvariant, PTL

\* A stop closes exactly one connection, and one of the type and place that
\* it names.
THEOREM MonitorStopClosesWhatItNames == Spec => StopClosesWhatItNames
<1> DEFINE Closes ==
      reply'.said = "stopped" /\ phase' = "running" =>
        \E i \in Slots :
          /\ cons[i].mem = "open" /\ cons'[i].mem = "freed"
          /\ cons[i].type = get_con_type(reply'.type) /\ cons[i].place = reply'.place
          /\ \A k \in Slots \ {i} : cons'[k] = cons[k]
<1>1. ASSUME IInv, Next PROVE Closes
  <2>i. TypeOK /\ CurIsFirstFree /\ ValidIffOpen
    BY <1>1 DEF IInv
  <2>1. CASE \E t \in TypeStr, p \in Place : StopCon(t, p)
    <3>1. PICK t \in TypeStr, p \in Place : StopCon(t, p)
      BY <2>1
    <3>2. reply' = [said |-> "stopped", type |-> t, place |-> p]
      BY <3>1 DEF StopCon, Say
    <3>3. PICK j \in Matching(t, p) : delete_con(j)
      BY <3>1 DEF StopCon
    <3>4. /\ j \in Slots /\ j < cur_mon_con
          /\ cons[j].type = get_con_type(t) /\ cons[j].place = p
      BY DEF Matching, Searched
    <3>5. cons[j].mem = "open"
      BY <3>4, <2>i, BelowIsOpen
    <3>6. cons' = [cons EXCEPT ![j] = [cons[j] EXCEPT !.valid = 0, !.mem = "freed"]]
      BY <3>3, <3>5 DEF delete_con, Deleted
    <3>7. cons[j] \in Connection /\ cons \in [Slots -> Connection]
      BY <3>4, <2>i DEF TypeOK
    <3>8. cons'[j].mem = "freed" /\ \A k \in Slots \ {j} : cons'[k] = cons[k]
      BY <3>4, <3>6, <3>7 DEF Connection
    <3>9. QED
      BY <3>2, <3>4, <3>5, <3>8
  <2>2. CASE \E s \in Session : Accept(s) \/ ControllerClosed(s)
    BY <2>2 DEF Accept, ControllerClosed, NoReply
  <2>3. CASE \E t \in TypeStr, p \in Place :
               StartRefused(t, p) \/ StartCon(t, p) \/ StopFails(t, p)
    <3>1. PICK t \in TypeStr, p \in Place :
            StartRefused(t, p) \/ StartCon(t, p) \/ StopFails(t, p)
      BY <2>3
    <3>2. \E w \in {"full", "started", "failed", "no such connection"} :
            reply' = [said |-> w, type |-> t, place |-> p]
      BY <3>1 DEF StartRefused, StartCon, StopFails, Say
    <3>3. QED
      BY <3>2
  <2>4. CASE (\E i \in Slots : DataEvent(i)) \/ LoopEnds
    BY <2>4 DEF DataEvent, LoopEnds, NoReply
  <2>5. CASE StopAllStep \/ CleanUp
    BY <2>5 DEF StopAllStep, CleanUp
  <2>6. QED
    BY <1>1, <2>1, <2>2, <2>3, <2>4, <2>5 DEF Next
<1>2. IInv /\ [Next]_vars => [Closes]_vars
  BY <1>1
<1>3. QED
  BY <1>2, MonitorInvariant, PTL DEF Spec, StopClosesWhatItNames
=============================================================================
