-------------------------- MODULE MultiPouchProofs --------------------------
(***************************************************************************)
(* Proofs about the requests on libcurl's multi handle, for any number of  *)
(* them.                                                                   *)
(***************************************************************************)
EXTENDS MultiPouch, SequenceTheorems, FiniteSetTheorems, WellFoundedInduction, TLAPS

-----------------------------------------------------------------------------
(* The list. *)

\* The least-number principle, which stands for induction.
LEMMA LeastNumber ==
  ASSUME NEW T \in SUBSET Nat, T # {}
  PROVE  \E n \in T : \A m \in T : n <= m
<1>1. PICK k \in T : TRUE
  OBVIOUS
<1> DEFINE S == 0 .. k
           Below == {0 .. n : n \in {m \in T : m <= k}}
<1>2. Below # {}
  BY <1>1
<1>3. Below \subseteq FiniteSubsetsOf(S)
  <2>1. SUFFICES ASSUME NEW n \in T, n <= k
                 PROVE  0 .. n \subseteq S /\ IsFiniteSet(0 .. n)
    BY DEF FiniteSubsetsOf
  <2>2. IsFiniteSet(0 .. n)
    BY FS_Interval
  <2>3. QED
    BY <2>1, <2>2
<1>4. PICK x \in Below : \A y \in Below : <<y, x>> \notin StrictSubsetOrdering(S)
  <2> HIDE DEF Below, S
  <2>1. QED
    BY <1>2, <1>3, FS_StrictSubsetOrderingWellFounded, WFMin
<1>5. PICK n \in T : n <= k /\ x = 0 .. n
  OBVIOUS
<1>6. ASSUME NEW m \in T, m < n PROVE FALSE
  <2>1. 0 .. m \in Below
    BY <1>5, <1>6
  <2>2. 0 .. m \subseteq 0 .. n /\ 0 .. m # 0 .. n /\ 0 .. n \subseteq S
    BY <1>5, <1>6
  <2>3. <<0 .. m, x>> \in StrictSubsetOrdering(S)
    BY <1>5, <2>2 DEF StrictSubsetOrdering
  <2>4. QED
    BY <1>4, <2>1, <2>3
<1>7. QED
  BY <1>6

\* f is the table that Unlist makes of the first n nodes.
Table(f, S, n) ==
  f = [i \in 0 .. n |->
         IF i = 0 THEN << >>
         ELSE IF list[i] \in S THEN f[i - 1] ELSE Append(f[i - 1], list[i])]

LEMMA TableEntries ==
  ASSUME NEW f, NEW S, NEW n \in Nat, Table(f, S, n)
  PROVE  /\ f[0] = << >>
         /\ \A i \in 1 .. n :
              f[i] = IF list[i] \in S THEN f[i - 1] ELSE Append(f[i - 1], list[i])
<1>1. \A i \in 0 .. n :
        f[i] = IF i = 0 THEN << >>
               ELSE IF list[i] \in S THEN f[i - 1] ELSE Append(f[i - 1], list[i])
  BY Zenon DEF Table
<1>2. QED
  BY <1>1

LEMMA UnlistIsTable ==
  ASSUME NEW A, list \in Seq(A), NEW S
  PROVE  \E f : Table(f, S, Len(list)) /\ Unlist(S) = f[Len(list)]
<1> DEFINE Bad == {n \in 0 .. Len(list) : ~ \E f : Table(f, S, n)}
<1>1. \E f : Table(f, S, 0)
  <2> DEFINE g == [i \in 0 .. 0 |-> << >>]
  <2>1. Table(g, S, 0)
    BY DEF Table
  <2>2. QED
    BY <2>1
<1>2. ASSUME NEW n \in Nat, n + 1 <= Len(list), NEW f, Table(f, S, n)
      PROVE  \E g : Table(g, S, n + 1)
  <2> DEFINE g == [i \in 0 .. (n + 1) |->
                     IF i = n + 1
                       THEN IF list[i] \in S THEN f[i - 1] ELSE Append(f[i - 1], list[i])
                       ELSE f[i]]
  <2>1. \A i \in 0 .. n : g[i] = f[i]
    OBVIOUS
  <2>1a. /\ f[0] = << >>
        /\ \A i \in 1 .. n :
             f[i] = IF list[i] \in S THEN f[i - 1] ELSE Append(f[i - 1], list[i])
    BY <1>2, TableEntries
  <2>2. \A i \in 0 .. (n + 1) :
          g[i] = IF i = 0 THEN << >>
                 ELSE IF list[i] \in S THEN g[i - 1] ELSE Append(g[i - 1], list[i])
    BY <2>1, <2>1a
  <2>3. Table(g, S, n + 1)
    BY <2>2 DEF Table
  <2>4. QED
    BY <2>3
<1>3. Bad = {}
  <2>1. SUFFICES ASSUME Bad # {} PROVE FALSE
    OBVIOUS
  <2>2. PICK n \in Bad : \A m \in Bad : n <= m
    <3>1. Bad \in SUBSET Nat
      OBVIOUS
    <3> HIDE DEF Bad
    <3>2. QED
      BY <2>1, <3>1, LeastNumber
  <2>3. n \in Nat /\ n <= Len(list) /\ n # 0
    BY <1>1
  <2>4. n - 1 \notin Bad
    BY <2>2, <2>3
  <2>5. PICK f : Table(f, S, n - 1)
    BY <2>3, <2>4
  <2>6. \E g : Table(g, S, (n - 1) + 1)
    BY <1>2, <2>3, <2>5
  <2>7. QED
    BY <2>3, <2>6
<1>4. \E f : Table(f, S, Len(list))
  <2>1. Len(list) \in 0 .. Len(list)
    OBVIOUS
  <2>2. QED
    BY <1>3, <2>1
<1>5. Unlist(S) = (CHOOSE f : Table(f, S, Len(list)))[Len(list)]
  BY DEF Unlist, Table
<1>6. Table(CHOOSE f : Table(f, S, Len(list)), S, Len(list))
  BY <1>4
<1>7. QED
  BY <1>5, <1>6

\* Taking the requests S out of the list leaves the others, once each.
LEMMA UnlistEffect ==
  ASSUME NEW A, list \in Seq(A), IsInjective(list), NEW S
  PROVE  /\ Unlist(S) \in Seq(A) /\ IsInjective(Unlist(S))
         /\ Range(Unlist(S)) = Range(list) \ S
<1>1. PICK f : Table(f, S, Len(list)) /\ Unlist(S) = f[Len(list)]
  BY UnlistIsTable
<1> DEFINE Good(n) == /\ f[n] \in Seq(A)
                      /\ \A e : (\E k \in 1 .. Len(f[n]) : f[n][k] = e)
                                  <=> (\E k \in 1 .. n : list[k] = e /\ e \notin S)
                      /\ \A a, b \in 1 .. Len(f[n]) : f[n][a] = f[n][b] => a = b
           Bad == {n \in 0 .. Len(list) : ~ Good(n)}
<1>2. /\ f[0] = << >>
      /\ \A n \in 1 .. Len(list) :
           f[n] = IF list[n] \in S THEN f[n - 1] ELSE Append(f[n - 1], list[n])
  BY <1>1, TableEntries
<1>3. Good(0)
  BY <1>2
<1>4. ASSUME NEW n \in 1 .. Len(list), Good(n - 1) PROVE Good(n)
  <2> DEFINE t == f[n - 1]
             x == list[n]
  <2>1. /\ t \in Seq(A) /\ x \in A
        /\ \A e : (\E k \in 1 .. Len(t) : t[k] = e)
                    <=> (\E k \in 1 .. (n - 1) : list[k] = e /\ e \notin S)
        /\ \A a, b \in 1 .. Len(t) : t[a] = t[b] => a = b
    BY <1>4
  <2>2. f[n] = IF x \in S THEN t ELSE Append(t, x)
    BY <1>2
  <2>3. \A e : (\E k \in 1 .. n : list[k] = e /\ e \notin S)
                 <=> (\E k \in 1 .. (n - 1) : list[k] = e /\ e \notin S) \/ (x = e /\ e \notin S)
    OBVIOUS
  <2>4. \A k \in 1 .. (n - 1) : list[k] # x
    BY DEF IsInjective
  <2> HIDE DEF t, x, Good
  <2>5. CASE x \in S
    BY <2>1, <2>2, <2>3, <2>5 DEF Good
  <2>6. CASE x \notin S
    <3> DEFINE u == Append(t, x)
    <3>1. /\ u \in Seq(A) /\ Len(u) = Len(t) + 1 /\ u[Len(t) + 1] = x
          /\ \A k \in 1 .. Len(t) : u[k] = t[k]
      BY <2>1, AppendProperties
    <3> HIDE DEF u
    <3>2. f[n] = u
      BY <2>2, <2>6 DEF u
    <3>3. \A e : (\E k \in 1 .. Len(u) : u[k] = e)
                   <=> (\E k \in 1 .. Len(t) : t[k] = e) \/ x = e
      BY <2>1, <3>1
    <3>4. \A k \in 1 .. Len(t) : t[k] # x
      BY <2>1, <2>4
    <3>5. \A a, b \in 1 .. Len(u) : u[a] = u[b] => a = b
      BY <2>1, <3>1, <3>4
    <3>6. \A e : (\E k \in 1 .. Len(u) : u[k] = e)
                   <=> (\E k \in 1 .. n : list[k] = e /\ e \notin S)
      BY <2>1, <2>3, <2>6, <3>3
    <3>7. QED
      BY <3>1, <3>2, <3>5, <3>6 DEF Good
  <2>7. QED
    BY <2>5, <2>6
<1> HIDE DEF Good
<1>5. Bad = {}
  <2>1. SUFFICES ASSUME Bad # {} PROVE FALSE
    OBVIOUS
  <2>2. PICK n \in Bad : \A m \in Bad : n <= m
    <3>1. Bad \in SUBSET Nat
      OBVIOUS
    <3> HIDE DEF Bad
    <3>2. QED
      BY <2>1, <3>1, LeastNumber
  <2>3. n \in 1 .. Len(list)
    BY <1>3
  <2>4. n - 1 \notin Bad
    BY <2>2, <2>3
  <2>5. Good(n - 1)
    BY <2>3, <2>4
  <2>6. QED
    BY <1>4, <2>3, <2>5
<1>6. Good(Len(list))
  BY <1>5
<1> DEFINE u == f[Len(list)]
<1>7. /\ u \in Seq(A) /\ DOMAIN u = 1 .. Len(u) /\ DOMAIN list = 1 .. Len(list)
      /\ \A e : (\E k \in 1 .. Len(u) : u[k] = e)
                  <=> (\E k \in 1 .. Len(list) : list[k] = e /\ e \notin S)
      /\ \A a, b \in 1 .. Len(u) : u[a] = u[b] => a = b
  BY <1>6 DEF Good
<1> HIDE DEF u
<1>8. IsInjective(u)
  BY <1>7 DEF IsInjective
<1>9. Range(u) = Range(list) \ S
  <2>1. \A e : e \in Range(u) <=> \E k \in 1 .. Len(u) : u[k] = e
    BY <1>7 DEF Range
  <2>2. \A e : e \in Range(list) <=> \E k \in 1 .. Len(list) : list[k] = e
    BY <1>7 DEF Range
  <2>3. QED
    BY <1>7, <2>1, <2>2
<1>10. QED
  BY <1>1, <1>7, <1>8, <1>9 DEF u

-----------------------------------------------------------------------------
(* The invariant. *)

\* signal_cb leaves no list, and neither does nd_destroy.
EmptyList == phase \in {"stopped", "destroyed", "dropped", "done"} => list = << >>

IInv ==
  /\ TypeOK /\ ListIsPending /\ PrivateIsLive /\ NoDoubleFree /\ TimerKept
  /\ EmptyList

LEMMA RunningCount ==
  ASSUME NEW S \in SUBSET Req
  PROVE  /\ Cardinality(S) \in 0 .. Cardinality(Req)
         /\ Cardinality(S) = 0 <=> S = {}
<1>1. IsFiniteSet(S) /\ Cardinality(S) <= Cardinality(Req)
  BY ReqAssumption, FS_Subset
<1>2. Cardinality(S) \in Nat /\ Cardinality(Req) \in Nat
  BY <1>1, ReqAssumption, FS_CardinalityType
<1>3. QED
  BY <1>1, <1>2, FS_EmptySet

\* With is an update at all of S.
LEMMA WithPr ==
  ASSUME NEW f \in [Req -> {"none", "live"}], NEW S
  PROVE  /\ With(f, S, "none") \in [Req -> {"none", "live"}]
         /\ \A r \in Req : With(f, S, "none")[r] = IF r \in S THEN "none" ELSE f[r]
BY DEF With

LEMMA WithEasy ==
  ASSUME NEW f \in [Req -> {"none", "running", "done"}], NEW S, NEW v \in {"none", "done"}
  PROVE  /\ With(f, S, v) \in [Req -> {"none", "running", "done"}]
         /\ \A r \in Req : With(f, S, v)[r] = IF r \in S THEN v ELSE f[r]
BY DEF With

LEMMA InitInv == Init => IInv
<1> SUFFICES ASSUME Init PROVE IInv
  OBVIOUS
<1>1. still_running \in 0 .. Cardinality(Req)
  BY RunningCount DEF Init
<1>2. TypeOK
  <2>1. timer \in BOOLEAN
    BY DEF Init
  <2>2. list \in Seq(Req)
    BY DEF Init
  <2>3. QED
    BY <1>1, <2>1, <2>2 DEF Init, TypeOK
<1>3. Range(list) = {} /\ IsInjective(list) /\ Running = {}
  BY DEF Init, Range, IsInjective, Running
<1>4. QED
  BY <1>2, <1>3
  DEF Init, IInv, ListIsPending, Listed, PrivateIsLive, NoDoubleFree, TimerKept, EmptyList

\* A new request is not in the list, for those in it are live.
LEMMA NewStep ==
  ASSUME IInv, NEW r \in Req, url_get(r) \/ Upload(r)
  PROVE  IInv'
<1>1. /\ phase = "loop" /\ pr[r] = "none" /\ phase' = "loop"
      /\ pr' = [pr EXCEPT ![r] = "live"] /\ easy' = [easy EXCEPT ![r] = "running"]
      /\ timer' = TRUE /\ still_running' = still_running /\ faults' = faults
  BY DEF url_get, Upload, pr_domulti, multi_timer_cb
<1>2. list' = list \/ list' = Append(list, r)
  BY DEF url_get, Upload
<1>3. /\ list \in Seq(Req) /\ easy \in [Req -> {"none", "running", "done"}]
      /\ pr \in [Req -> {"none", "live"}] /\ IsInjective(list) /\ Range(list) \subseteq Running
  BY DEF IInv, TypeOK, ListIsPending, Listed
<1>4. r \notin Running /\ r \notin Range(list)
  BY <1>1, <1>3 DEF IInv, PrivateIsLive, Running
<1>5. Running \cup {r} \subseteq Running'
  BY <1>1, <1>3 DEF Running
<1>6. CASE list' = list
  <2>1. TypeOK'
    BY <1>1, <1>3, <1>6 DEF IInv, TypeOK
  <2>2. ListIsPending'
    BY <1>3, <1>5, <1>6 DEF ListIsPending, Listed
  <2>3. QED
    BY <1>1, <1>3, <2>1, <2>2
    DEF IInv, PrivateIsLive, NoDoubleFree, TimerKept, EmptyList
<1>7. CASE list' = Append(list, r)
  <2>1. /\ list' \in Seq(Req) /\ Len(list') = Len(list) + 1 /\ list'[Len(list) + 1] = r
        /\ \A i \in 1 .. Len(list) : list'[i] = list[i]
    BY <1>3, <1>7, AppendProperties
  <2>2. TypeOK'
    BY <1>1, <1>3, <2>1 DEF IInv, TypeOK
  <2>3. \A i \in 1 .. Len(list) : list[i] # r
    BY <1>3, <1>4 DEF Range
  <2>4. IsInjective(list')
    <3>1. \A i, j \in 1 .. Len(list) : list[i] = list[j] => i = j
      BY <1>3 DEF IsInjective
    <3>2. \A i, j \in 1 .. Len(list) + 1 : list'[i] = list'[j] => i = j
      BY <1>3, <2>1, <2>3, <3>1
    <3>3. QED
      BY <2>1, <3>2 DEF IsInjective
  <2>5. Range(list') \subseteq Range(list) \cup {r}
    BY <1>3, <2>1 DEF Range
  <2>6. ListIsPending'
    BY <1>3, <1>5, <2>4, <2>5 DEF ListIsPending, Listed
  <2>7. QED
    BY <1>1, <1>3, <2>2, <2>6
    DEF IInv, PrivateIsLive, NoDoubleFree, TimerKept, EmptyList
<1>8. QED
  BY <1>2, <1>6, <1>7

\* The requests that are done leave the list, the heap and the multi handle
\* together; those that are not stay in all three.
LEMMA CallbackStep ==
  ASSUME IInv, NEW D \in SUBSET Req, event_cb(D) \/ timer_cb(D)
  PROVE  IInv'
<1> DEFINE F == D \cap Listed
<1> HIDE DEF F
<1>1. /\ phase = "loop" /\ phase' = "loop" /\ D \subseteq Running
      /\ still_running' = Cardinality(Running \ D)
      /\ pr' = With(pr, F, "none") /\ list' = Unlist(D)
      /\ easy' = With(With(easy, D, "done"), F, "none")
  BY DEF event_cb, timer_cb, SocketAction, check_multi_info, pr_callback, Frees, F
<1>2. /\ event_cb(D) => timer' = (timer /\ still_running' > 0)
      /\ timer_cb(D) => IF Running # {} THEN timer' = TRUE ELSE timer' = FALSE
  BY DEF event_cb, timer_cb, multi_timer_cb
<1>3. /\ list \in Seq(Req) /\ easy \in [Req -> {"none", "running", "done"}]
      /\ pr \in [Req -> {"none", "live"}] /\ IsInjective(list) /\ Listed \subseteq Running
      /\ \A r \in Req : easy[r] # "none" => pr[r] = "live"
  BY <1>1 DEF IInv, TypeOK, ListIsPending, PrivateIsLive
<1>4. list' \in Seq(Req) /\ IsInjective(list') /\ Listed' = Listed \ D
  BY <1>1, <1>3, UnlistEffect DEF Listed
<1>5. /\ easy' \in [Req -> {"none", "running", "done"}] /\ pr' \in [Req -> {"none", "live"}]
      /\ \A r \in F : easy'[r] = "none"
      /\ \A r \in Req \ F : pr'[r] = pr[r]
      /\ \A r \in D \ F : easy'[r] = "done"
      /\ \A r \in Req \ (D \cup F) : easy'[r] = easy[r]
  <2> DEFINE g == With(easy, D, "done")
  <2>1. g \in [Req -> {"none", "running", "done"}]
        /\ \A r \in Req : g[r] = IF r \in D THEN "done" ELSE easy[r]
    BY <1>3, WithEasy
  <2>2. easy' = With(g, F, "none")
    BY <1>1
  <2> HIDE DEF g
  <2>3. /\ easy' \in [Req -> {"none", "running", "done"}]
        /\ \A r \in Req : easy'[r] = IF r \in F THEN "none" ELSE g[r]
    BY <2>1, <2>2, WithEasy
  <2>4. pr' \in [Req -> {"none", "live"}]
        /\ \A r \in Req : pr'[r] = IF r \in F THEN "none" ELSE pr[r]
    BY <1>1, <1>3, WithPr
  <2>5. F \subseteq Req /\ D \subseteq Req
    BY DEF F
  <2>6. QED
    BY <2>1, <2>3, <2>4, <2>5
<1>6. Running' = Running \ D
  <2>1. F \subseteq D
    BY DEF F
  <2>2. QED
    BY <1>1, <1>3, <1>5, <2>1 DEF Running
<1>7. faults' = faults
  <2>1. \A r \in D \cap Listed : pr[r] # "none"
    BY <1>3 DEF Running
  <2>2. QED
    BY <2>1 DEF event_cb, timer_cb, check_multi_info, pr_callback, Frees
<1>8. /\ still_running' \in 0 .. Cardinality(Req)
      /\ still_running' = 0 <=> Running' = {}
  BY <1>1, <1>6, RunningCount DEF Running
<1>9. timer' \in BOOLEAN /\ (Running' # {} => timer')
  <2>1. timer \in BOOLEAN /\ (Running # {} => timer)
    BY <1>1 DEF IInv, TypeOK, TimerKept
  <2>2. still_running' > 0 <=> Running' # {}
    BY <1>8
  <2>3. QED
    BY <1>2, <1>6, <2>1, <2>2
<1>10. TypeOK'
  BY <1>1, <1>4, <1>5, <1>7, <1>8, <1>9 DEF IInv, TypeOK
<1>11. ListIsPending'
  BY <1>3, <1>4, <1>6 DEF ListIsPending
<1>12. PrivateIsLive'
  <2>1. \A r \in Req \ F : easy'[r] # "none" => easy[r] # "none"
    BY <1>1, <1>3, <1>5 DEF Running
  <2>2. \A r \in Req : easy'[r] # "none" => pr'[r] = "live"
    BY <1>3, <1>5, <2>1
  <2>3. QED
    BY <2>2 DEF PrivateIsLive
<1>13. QED
  BY <1>1, <1>7, <1>9, <1>10, <1>11, <1>12
  DEF IInv, NoDoubleFree, TimerKept, EmptyList

\* The first node of the list goes; its request is in no other.
LEMMA WalkStep ==
  ASSUME IInv, SignalWalk
  PROVE  IInv'
<1> DEFINE h == Head(list)
<1>1. /\ phase = "signal" /\ phase' \in {"signal", "crashed"} /\ list # << >>
      /\ pr' = With(pr, {h}, "none") /\ easy' = With(easy, {h}, "none")
      /\ list' = Tail(list) /\ still_running' = still_running
  BY DEF SignalWalk, Frees
<1>2. /\ list \in Seq(Req) /\ easy \in [Req -> {"none", "running", "done"}]
      /\ pr \in [Req -> {"none", "live"}] /\ IsInjective(list) /\ Listed \subseteq Running
      /\ \A r \in Req : easy[r] # "none" => pr[r] = "live"
  BY <1>1 DEF IInv, TypeOK, ListIsPending, PrivateIsLive
<1>3. /\ h = list[1] /\ h \in Req /\ list' \in Seq(Req) /\ Len(list') = Len(list) - 1
      /\ \A i \in 1 .. Len(list) - 1 : list'[i] = list[i + 1]
  <2>1. /\ Head(list) \in Req /\ Tail(list) \in Seq(Req) /\ Len(Tail(list)) = Len(list) - 1
        /\ \A i \in 1 .. Len(Tail(list)) : Tail(list)[i] = list[i + 1]
    BY <1>1, <1>2, HeadTailProperties
  <2>2. Head(list) = list[1]
    <3>1. list # << >> /\ list \in Seq(Req)
      BY <1>1, <1>2
    <3>2. QED
      BY <3>1
  <2>3. QED
    BY <1>1, <2>1, <2>2
<1>4. 1 \in DOMAIN list /\ DOMAIN list = 1 .. Len(list) /\ Len(list) \in Nat
  <2>1. list # << >> /\ list \in Seq(Req)
    BY <1>1, <1>2
  <2>2. QED
    BY <2>1, EmptySeq, LenProperties
<1>5. DOMAIN list' = 1 .. Len(list) - 1
  BY <1>3
<1>6. IsInjective(list')
  <2>1. SUFFICES ASSUME NEW i \in 1 .. Len(list) - 1, NEW j \in 1 .. Len(list) - 1,
                        list'[i] = list'[j]
                 PROVE  i = j
    BY <1>5 DEF IsInjective
  <2>2. i + 1 \in DOMAIN list /\ j + 1 \in DOMAIN list /\ list[i + 1] = list[j + 1]
    BY <1>3, <1>4, <2>1
  <2>3. i + 1 = j + 1
    BY <1>2, <2>2 DEF IsInjective
  <2>4. QED
    BY <2>3
<1>7. Listed' \subseteq Listed \ {h}
  <2>1. SUFFICES ASSUME NEW i \in 1 .. Len(list) - 1 PROVE list'[i] \in Listed \ {h}
    BY <1>5 DEF Listed, Range
  <2>2. i + 1 \in DOMAIN list /\ list'[i] = list[i + 1] /\ i + 1 # 1
    BY <1>3, <1>4
  <2>3. list[i + 1] # list[1]
    BY <1>2, <1>4, <2>2 DEF IsInjective
  <2>4. QED
    BY <1>3, <2>2, <2>3 DEF Listed, Range
<1>8. h \in Running /\ pr[h] = "live"
  <2>1. h \in Listed
    BY <1>3, <1>4 DEF Listed, Range
  <2>2. QED
    BY <1>2, <2>1 DEF Running
<1>8a. faults' = faults \cup {"use after free"}
  BY <1>8 DEF SignalWalk, Frees
<1> HIDE DEF h
<1>9. /\ pr' \in [Req -> {"none", "live"}] /\ easy' \in [Req -> {"none", "running", "done"}]
      /\ easy'[h] = "none"
      /\ \A r \in Req \ {h} : pr'[r] = pr[r] /\ easy'[r] = easy[r]
  <2>1. pr' \in [Req -> {"none", "live"}]
        /\ \A r \in Req : pr'[r] = IF r \in {h} THEN "none" ELSE pr[r]
    BY <1>1, <1>2, WithPr
  <2>2. /\ easy' \in [Req -> {"none", "running", "done"}]
        /\ \A r \in Req : easy'[r] = IF r \in {h} THEN "none" ELSE easy[r]
    BY <1>1, <1>2, WithEasy
  <2>3. QED
    BY <1>3, <2>1, <2>2
<1>10. Running' = Running \ {h}
  BY <1>9 DEF Running
<1>12. timer' \in BOOLEAN
  BY DEF SignalWalk, multi_timer_cb, IInv, TypeOK
<1>13. TypeOK'
  BY <1>1, <1>3, <1>9, <1>8a, <1>12 DEF IInv, TypeOK
<1>14. ListIsPending' /\ PrivateIsLive'
  BY <1>2, <1>6, <1>7, <1>9, <1>10 DEF ListIsPending, PrivateIsLive
<1>15. QED
  BY <1>1, <1>8a, <1>13, <1>14 DEF IInv, NoDoubleFree, TimerKept, EmptyList

\* Steps that only change where the program is.
LEMMA PhaseStep ==
  ASSUME IInv, Signal \/ SignalEnd \/ ListenerError
  PROVE  IInv'
<1>1. /\ phase \in {"loop", "signal"} /\ phase' \in {"signal", "stopped", "failed"}
      /\ phase' = "stopped" => list = << >>
      /\ UNCHANGED <<pr, easy, list, timer, still_running, faults>>
  BY DEF Signal, SignalEnd, ListenerError
<1>2. TypeOK'
  BY <1>1 DEF IInv, TypeOK
<1>3. ListIsPending' /\ PrivateIsLive'
  BY <1>1 DEF IInv, ListIsPending, Listed, Running, PrivateIsLive
<1>4. QED
  BY <1>1, <1>2, <1>3 DEF IInv, NoDoubleFree, TimerKept, EmptyList

LEMMA DestroyStep ==
  ASSUME IInv, nd_destroy
  PROVE  IInv'
<1>1. /\ \/ phase = "stopped" /\ phase' = "destroyed"
         \/ phase = "failed" /\ phase' = "dropped"
      /\ list' = << >>
      /\ pr' = With(pr, Listed, "none") /\ UNCHANGED <<easy, timer, still_running>>
  BY DEF nd_destroy, Frees
<1>2. /\ \A r \in Listed : pr[r] = "live" /\ easy[r] = "running"
      /\ \A r \in Req : easy[r] # "none" => pr[r] = "live"
  BY <1>1 DEF IInv, ListIsPending, PrivateIsLive, Running
<1>3. faults' = faults
  BY <1>2 DEF nd_destroy, Frees
<1>4. /\ pr' \in [Req -> {"none", "live"}] /\ list' \in Seq(Req)
      /\ \A r \in Req : pr'[r] = IF r \in Listed THEN "none" ELSE pr[r]
  <2>1. pr \in [Req -> {"none", "live"}]
    BY DEF IInv, TypeOK
  <2>2. QED
    BY <1>1, <2>1, WithPr
<1>5. TypeOK'
  BY <1>1, <1>3, <1>4 DEF IInv, TypeOK
<1>6. ListIsPending'
  BY <1>1 DEF ListIsPending, Listed, Range, IsInjective
<1>7. PrivateIsLive'
  <2>1. CASE phase = "stopped"
    <3>1. Listed = {}
      BY <2>1 DEF IInv, EmptyList, Listed, Range
    <3>2. QED
      BY <1>1, <1>2, <1>4, <3>1 DEF PrivateIsLive
  <2>2. CASE phase = "failed"
    BY <1>1, <1>2, <1>4, <2>2 DEF PrivateIsLive
  <2>3. QED
    BY <1>1, <2>1, <2>2
<1>8. QED
  BY <1>1, <1>3, <1>5, <1>6, <1>7 DEF IInv, NoDoubleFree, TimerKept, EmptyList

LEMMA DelStep ==
  ASSUME IInv, pr_del_pmi
  PROVE  IInv'
<1>1. list = << >>
  BY DEF pr_del_pmi, IInv, EmptyList
<1>2. TypeOK'
  BY DEF pr_del_pmi, IInv, TypeOK
<1>3. ListIsPending'
  BY <1>1 DEF pr_del_pmi, ListIsPending, Listed, Range, IsInjective
<1>4. QED
  BY <1>1, <1>2, <1>3
  DEF pr_del_pmi, IInv, PrivateIsLive, NoDoubleFree, TimerKept, EmptyList

-----------------------------------------------------------------------------
(* The theorems. *)

LEMMA NextInv == IInv /\ [Next]_vars => IInv'
<1> SUFFICES ASSUME IInv, [Next]_vars PROVE IInv'
  OBVIOUS
<1>1. CASE \E r \in Req : url_get(r) \/ Upload(r)
  BY <1>1, NewStep
<1>2. CASE \E D \in SUBSET Req : event_cb(D) \/ timer_cb(D)
  BY <1>2, CallbackStep
<1>3. CASE Signal \/ SignalEnd \/ ListenerError
  BY <1>3, PhaseStep
<1>4. CASE SignalWalk
  BY <1>4, WalkStep
<1>5. CASE nd_destroy \/ pr_del_pmi
  BY <1>5, DestroyStep, DelStep
<1>6. CASE UNCHANGED vars
  BY <1>6 DEF vars, IInv, TypeOK, ListIsPending, Listed, Running, PrivateIsLive, NoDoubleFree,
              TimerKept, EmptyList
<1>7. QED
  BY <1>1, <1>2, <1>3, <1>4, <1>5, <1>6 DEF Next

LEMMA InvHolds == Spec => []IInv
BY InitInv, NextInv, PTL DEF Spec

\* The types of requests, handles, list and timer.
THEOREM PouchTypeOK == Spec => []TypeOK
<1>1. IInv => TypeOK
  BY DEF IInv
<1>2. QED
  BY <1>1, InvHolds, PTL

\* easy_handles has each request that is still running at most once.
THEOREM ListHolds == Spec => []ListIsPending
<1>1. IInv => ListIsPending
  BY DEF IInv
<1>2. QED
  BY <1>1, InvHolds, PTL

\* libcurl's handles point to requests that have not been freed, but for those in
\* flight between nd_destroy and curl_multi_cleanup after a listener error.
THEOREM PrivateHolds == Spec => []PrivateIsLive
<1>1. IInv => PrivateIsLive
  BY DEF IInv
<1>2. QED
  BY <1>1, InvHolds, PTL

\* No request is freed twice, by pr_callback, signal_cb or nd_destroy.
THEOREM FreesHold == Spec => []NoDoubleFree
<1>1. IInv => NoDoubleFree
  BY DEF IInv
<1>2. QED
  BY <1>1, InvHolds, PTL

\* The timer is pending as long as a transfer is running.
THEOREM TimerHolds == Spec => []TimerKept
<1>1. IInv => TimerKept
  BY DEF IInv
<1>2. QED
  BY <1>1, InvHolds, PTL
=============================================================================
