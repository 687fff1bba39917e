------------------------ MODULE ServerProcessProofs ------------------------
(***************************************************************************)
(* Proofs about ServerProcess, for any number of threads and signals.        *)
(*                                                                           *)
(* Neither property is inductive.  Inv adds how far start-up has come        *)
(* (StartUp), what main has reached after it (Served), and the fact the      *)
(* safety of the signal handler rests on (Walks): a thread inside the        *)
(* handler cannot end, so while a walk goes on that began in join, main is   *)
(* still in join.                                                            *)
(*                                                                           *)
(* The last section is about Registry.                                       *)
(***************************************************************************)
EXTENDS ServerProcess, TLAPS

Handlers == {Main} \cup Workers

Typed ==
  /\ main \in {"make", "push", "spawn", "join", "destroy", "unwind"}
  /\ i \in Nat /\ registered \in Nat /\ capacity \in Nat
  /\ ctxs \in [Workers -> {"none", "live", "destroyed"}]
  /\ worker \in [Workers -> {"none", "ctor", "start", "loop", "drain", "done"}]
  /\ walk \in [Handlers -> [on : BOOLEAN, begin : Nat, pos : Nat, end : Nat, serving : BOOLEAN]]

StartUp ==
  main \in {"make", "push", "spawn"} =>
    /\ i \in Workers
    /\ registered = IF main = "spawn" THEN i ELSE i - 1
    /\ \A k \in Workers : k < i \/ (k = i /\ main # "make") => ctxs[k] = "live"
    /\ \A k \in Workers : k >= i => worker[k] = "none"

Served ==
  /\ \A k \in Workers : worker[k] # "none" => k <= registered
  /\ main = "join" => registered = NThreads /\ \A k \in Workers : ctxs[k] = "live"
  /\ main = "destroy" => \A k \in Workers : worker[k] = "done"

Walks ==
  /\ \A h \in Workers : walk[h].on => worker[h] \notin {"none", "done"}
  /\ \A h \in Handlers : walk[h].on /\ walk[h].serving =>
       main = "join" /\ walk[h].begin = capacity /\ walk[h].end = registered

Inv == Typed /\ StartUp /\ Served /\ Walks

LEMMA InitInv == Init => Inv
  <1> SUFFICES ASSUME Init PROVE Inv
    OBVIOUS
  <1> USE ServerProcessAssumption DEF Workers, Handlers, Main
  <1>1. Idle \in [on : BOOLEAN, begin : Nat, pos : Nat, end : Nat, serving : BOOLEAN]
    BY DEF Idle
  <1>2. Typed
    BY <1>1 DEF Init, Typed
  <1>3. StartUp /\ Served
    BY DEF Init, StartUp, Served
  <1>4. \A h \in Handlers : ~walk[h].on
    BY DEF Init, Idle
  <1> QED
    BY <1>2, <1>3, <1>4 DEF Inv, Walks, Init

LEMMA NextInv == Inv /\ [Next]_vars => Inv'
  <1> SUFFICES ASSUME Inv, [Next]_vars PROVE Inv'
    OBVIOUS
  <1> USE ServerProcessAssumption DEF Workers, Handlers, Main, Inv, Runs
  <1>1. CASE MakeContext
    <2>1. Typed'
      BY <1>1 DEF MakeContext, Typed
    <2>2. StartUp'
      BY <1>1 DEF MakeContext, StartUp, Typed
    <2> QED
      BY <1>1, <2>1, <2>2 DEF MakeContext, Served, Walks
  <1>2. CASE PushBack
    <2>1. capacity' \in Nat
      BY <1>2 DEF PushBack, Typed
    <2>2. Typed'
      <3>1. main' = "spawn" /\ UNCHANGED <<process, i, ctxs, worker, running_, walk, signals>>
        BY <1>2 DEF PushBack
      <3> QED
        BY <1>2, <2>1, <3>1, SMTT(30) DEF PushBack, Typed
    <2>3. StartUp' /\ Served'
      <3>1. /\ main = "push" /\ main' = "spawn" /\ registered' = registered + 1
            /\ UNCHANGED <<i, ctxs, worker>>
        BY <1>2 DEF PushBack
      <3>2. registered \in Nat
        BY DEF Typed
      <3>3. StartUp'
        BY <3>1, <3>2 DEF StartUp
      <3>4. Served'
        BY <3>1, <3>2 DEF Served
      <3> QED
        BY <3>3, <3>4
    <2>4. Walks'
      BY <1>2 DEF PushBack, Walks
    <2> QED
      BY <2>2, <2>3, <2>4
  <1>3. CASE Spawn
    <2>1. /\ main = "spawn" /\ i \in Workers /\ registered = i
          /\ worker' = [worker EXCEPT ![i] = "ctor"]
          /\ i' = i + 1 /\ main' = IF i = NThreads THEN "join" ELSE "make"
          /\ UNCHANGED <<ctxs, registered, capacity, walk>>
      BY <1>3 DEF Spawn, StartUp
    <2>2. Typed'
      <3>1. main' \in {"make", "join"} /\ i' \in Nat
        BY <2>1
      <3>2. worker' \in [Workers -> {"none", "ctor", "start", "loop", "drain", "done"}]
        BY <2>1 DEF Typed
      <3> QED
        BY <2>1, <3>1, <3>2 DEF Typed
    <2>3. /\ \A k \in Workers : k <= i => ctxs[k] = "live"
          /\ \A k \in Workers : k >= i => worker[k] = "none"
          /\ \A k \in Workers : worker'[k] = IF k = i THEN "ctor" ELSE worker[k]
      BY <2>1 DEF Typed, StartUp
    <2>4. StartUp'
      <3>1. CASE i = NThreads
        BY <2>1, <3>1 DEF StartUp
      <3>2. CASE i # NThreads
        <4>1. main' = "make" /\ i' \in Workers /\ registered' = i' - 1
          BY <2>1, <3>2
        <4> QED
          BY <2>1, <2>3, <4>1 DEF StartUp
      <3> QED
        BY <3>1, <3>2
    <2>5. Served'
      <3>1. main' = "join" => registered' = NThreads /\ \A k \in Workers : ctxs'[k] = "live"
        BY <2>1, <2>3
      <3>2. \A k \in Workers : worker'[k] # "none" => k <= registered'
        BY <2>1, <2>3
      <3> QED
        BY <2>1, <3>1, <3>2 DEF Served
    <2>6. Walks'
      BY <2>1 DEF Typed, Walks
    <2> QED
      BY <2>2, <2>4, <2>5, <2>6
  <1>4. CASE Throw
    BY <1>4 DEF Throw, Typed, StartUp, Served, Walks
  <1>5. CASE Join
    <2>1. \A h \in Handlers : ~walk[h].on
      BY <1>5 DEF Join, Walks
    <2> QED
      BY <1>5, <2>1 DEF Join, Typed, StartUp, Served, Walks
  <1>6. CASE DestroyContext
    BY <1>6 DEF DestroyContext, Typed, StartUp, Served, Walks
  <1>7. CASE LeaveTry
    BY <1>7 DEF LeaveTry, mainVars, Typed, StartUp, Served, Walks
  <1>8. ASSUME NEW k \in Workers, WorkerStep(k) \/ RunFails(k) \/ LeaveRun(k) PROVE Inv'
    <2>1. /\ UNCHANGED <<main, i, ctxs, registered, capacity, walk>>
          /\ \/ UNCHANGED worker
             \/ \E to \in {"start", "loop", "drain", "done"} :
                  /\ worker' = [worker EXCEPT ![k] = to]
                  /\ worker[k] # "none" /\ ~walk[k].on
      BY <1>8 DEF WorkerStep, BuildServer, EnterRun, LeaveLoop, LeaveRun, RunFails, UseDestroyed, mainVars, Typed
    <2>2. CASE UNCHANGED worker
      BY <2>1, <2>2 DEF Typed, StartUp, Served, Walks
    <2>3. CASE ~UNCHANGED worker
      <3>1. PICK to \in {"start", "loop", "drain", "done"} :
              /\ worker' = [worker EXCEPT ![k] = to]
              /\ worker[k] # "none" /\ ~walk[k].on
        BY <2>1, <2>3
      <3>2. main # "destroy" \/ to = "done" \/ worker[k] = "done"
        BY DEF Served
      <3>3. worker[k] # "done"
        BY <1>8, <2>3 DEF WorkerStep, BuildServer, EnterRun, LeaveLoop, LeaveRun, RunFails, UseDestroyed
      <3> QED
        BY <2>1, <3>1, <3>2, <3>3 DEF Typed, StartUp, Served, Walks
    <2> QED
      BY <2>2, <2>3
  <1>9. ASSUME NEW h \in Handlers, Signal(h) PROVE Inv'
    <2>1. UNCHANGED <<main, i, ctxs, registered, capacity, worker>>
      BY <1>9 DEF Signal, mainVars
    <2> DEFINE w == [on |-> TRUE, begin |-> capacity, pos |-> 1,
                     end |-> registered, serving |-> main = "join"]
    <2>2. w \in [on : BOOLEAN, begin : Nat, pos : Nat, end : Nat, serving : BOOLEAN]
      BY DEF Typed
    <2>3. walk' = [walk EXCEPT ![h] = w]
      BY <1>9 DEF Signal
    <2>4. w.serving <=> main = "join"
      OBVIOUS
    <2>5. w.begin = capacity /\ w.end = registered
      OBVIOUS
    <2>6. h \in Workers => worker[h] \notin {"none", "done"}
      BY <1>9 DEF Signal
    <2> HIDE DEF w
    <2>7. Walks'
      BY <2>1, <2>3, <2>4, <2>5, <2>6 DEF Walks, Typed
    <2> QED
      BY <2>1, <2>2, <2>3, <2>7 DEF Typed, StartUp, Served
  <1>10. ASSUME NEW h \in Handlers, HandlerStep(h) PROVE Inv'
    <2>1. UNCHANGED <<main, i, ctxs, registered, capacity, worker>>
      BY <1>10 DEF HandlerStep, StopOne, HandlerDies, HandlerReturns, mainVars
    <2>2. StartUp' /\ Served'
      BY <2>1 DEF StartUp, Served
    <2>3. CASE StopOne(h)
      <3>1. walk' = [walk EXCEPT ![h].pos = @ + 1]
        BY <2>3 DEF StopOne
      <3>2. walk[h] \in [on : BOOLEAN, begin : Nat, pos : Nat, end : Nat, serving : BOOLEAN]
        BY DEF Typed
      <3>3. [walk[h] EXCEPT !.pos = @ + 1]
              \in [on : BOOLEAN, begin : Nat, pos : Nat, end : Nat, serving : BOOLEAN]
        BY <3>2
      <3>4. Typed'
        BY <2>1, <3>1, <3>3 DEF Typed
      <3>5. \A g \in Handlers : /\ walk'[g].on = walk[g].on
                                /\ walk'[g].serving = walk[g].serving
                                /\ walk'[g].begin = walk[g].begin
                                /\ walk'[g].end = walk[g].end
        BY <3>1 DEF Typed
      <3> QED
        BY <2>1, <2>2, <3>4, <3>5 DEF Walks
    <2>4. CASE HandlerDies(h)
      BY <2>1, <2>2, <2>4 DEF HandlerDies, Typed, Walks
    <2>5. CASE HandlerReturns(h)
      <3>1. Idle \in [on : BOOLEAN, begin : Nat, pos : Nat, end : Nat, serving : BOOLEAN]
        BY DEF Idle
      <3>2. ~Idle.on
        BY DEF Idle
      <3> QED
        BY <2>1, <2>2, <2>5, <3>1, <3>2 DEF HandlerReturns, Typed, Walks
    <2> QED
      BY <1>10, <2>3, <2>4, <2>5 DEF HandlerStep
  <1>11. CASE UNCHANGED vars
    BY <1>11 DEF vars, mainVars, Typed, StartUp, Served, Walks
  <1> QED
    BY <1>1, <1>2, <1>3, <1>4, <1>5, <1>6, <1>7, <1>8, <1>9, <1>10, <1>11 DEF Next, MainStep

LEMMA InvHolds == Spec => []Inv
  BY InitInv, NextInv, PTL DEF Spec

\* A started thread can be reached by SIGINT, and its context outlives it unless
\* an exception unwinds main (coro_echo.cpp:94-113).
THEOREM EveryThreadHasItsContext == Spec => []ThreadHasContext
  <1>1. Inv => ThreadHasContext
    <2> SUFFICES ASSUME Inv, NEW k \in Workers, worker[k] \notin {"none", "done"}
                 PROVE  k <= registered /\ (ctxs[k] = "live" \/ main = "unwind")
      BY DEF ThreadHasContext
    <2> QED
      BY ServerProcessAssumption DEF Inv, Typed, StartUp, Served, Workers
  <1> QED
    BY <1>1, InvHolds, PTL

\* HandleSigInt, begun while main waits in join, only meets live contexts and a
\* vector that does not move (coro_echo.cpp:16-18).
THEOREM SignalIsSafeWhileServing == Spec => []SignalWhileServingIsSafe
  <1>1. Inv => SignalWhileServingIsSafe
    BY DEF Inv, Walks, Served, SignalWhileServingIsSafe, Handlers
  <1> QED
    BY <1>1, InvHolds, PTL

-----------------------------------------------------------------------------
(* Service registration.  A Registry shares no state with the rest of the     *)
(* process that owns it; its variables are declared here to state its theorem *)
(* about an instance of the module.                                           *)

CONSTANTS Services, MaxLeases

VARIABLES step, service, lease_id, granted, leases, keys, keep_alive, leaseOf

Reg == INSTANCE Registry WITH registered <- leaseOf

\* The lease RegisterService works with is one that etcd has granted.
RegInv == Reg!TypeOK /\ lease_id <= granted

LEMMA RegInit ==
  ASSUME MaxLeases \in Nat
  PROVE  Reg!Init => RegInv
  BY DEF Reg!Init, RegInv, Reg!TypeOK

LEMMA RegNext ==
  ASSUME MaxLeases \in Nat, RegInv, [Reg!Next]_Reg!vars
  PROVE  RegInv'
  <1> USE DEF RegInv, Reg!TypeOK
  <1>1. ASSUME NEW s \in Services, Reg!LeaseGrant(s) PROVE RegInv'
    <2>1. /\ granted' = granted + 1 /\ granted' \in 1..MaxLeases
          /\ leases' = leases \cup {granted'} /\ lease_id' = granted' /\ service' = s /\ step' = "put"
          /\ keys' = keys /\ keep_alive' = keep_alive /\ leaseOf' = leaseOf
      BY <1>1 DEF Reg!LeaseGrant
    <2>2. leases' \subseteq 1..granted'
      BY <2>1
    <2>3. 0..granted \subseteq 0..granted'
      BY <2>1
    <2>4. keys' \in [Services -> leases' \cup {0}]
      BY <2>1
    <2>5. keep_alive' \in 0..granted' /\ leaseOf' \in [Services -> 0..granted']
      BY <2>1, <2>3
    <2> QED
      BY <2>1, <2>2, <2>4, <2>5
  <1>2. CASE Reg!Put
    BY <1>2 DEF Reg!Put
  <1>3. CASE Reg!LeaseKeepAlive
    BY <1>3 DEF Reg!LeaseKeepAlive, Reg!etcdVars
  <1>4. CASE Reg!Destroy
    BY <1>4 DEF Reg!Destroy, Reg!etcdVars
  <1>5. ASSUME NEW l \in leases, Reg!Expire(l) PROVE RegInv'
    BY <1>5 DEF Reg!Expire, Reg!callVars
  <1>6. CASE UNCHANGED Reg!vars
    BY <1>6 DEF Reg!vars, Reg!callVars, Reg!etcdVars
  <1> QED
    BY <1>1, <1>2, <1>3, <1>4, <1>5, <1>6 DEF Reg!Next

\* registry.cpp: for any set of services and any number of leases, a service's
\* key in etcd is attached to a lease that etcd has granted and that has not
\* expired, wherever RegisterService failed and whatever expired meanwhile.
THEOREM KeysHaveLeases ==
  ASSUME MaxLeases \in Nat
  PROVE  Reg!Spec => []Reg!TypeOK
  <1>1. RegInv => Reg!TypeOK
    BY DEF RegInv
  <1>2. Reg!Init => RegInv
    BY RegInit
  <1>3. RegInv /\ [Reg!Next]_Reg!vars => RegInv'
    BY RegNext
  <1> QED
    BY <1>1, <1>2, <1>3, PTL DEF Reg!Spec

\* What is true while only one RegisterService has got a lease: with it the
\* KeepAlive is refreshing whatever was registered.
OneLease ==
  /\ RegInv /\ lease_id = granted
  /\ granted <= 1 /\ step # "gone" => \A s \in Services : leaseOf[s] # 0 => keep_alive = leaseOf[s]

LEMMA OneLeaseNext ==
  ASSUME MaxLeases \in Nat, OneLease, [Reg!Next]_Reg!vars
  PROVE  OneLease'
  <1>1. RegInv'
    BY RegNext DEF OneLease
  <1> USE DEF OneLease, RegInv, Reg!TypeOK
  <1>2. ASSUME NEW s \in Services, Reg!LeaseGrant(s) PROVE OneLease'
    <2>1. granted' = granted + 1 /\ lease_id' = granted' /\ leaseOf' = leaseOf
      BY <1>2 DEF Reg!LeaseGrant
    <2>2. granted' <= 1 => granted = 0
      BY <2>1
    <2>3. granted' <= 1 => \A t \in Services : leaseOf'[t] = 0
      BY <2>1, <2>2
    <2> QED
      BY <1>1, <2>1, <2>3
  <1>3. CASE Reg!Put
    BY <1>1, <1>3 DEF Reg!Put
  <1>4. CASE Reg!LeaseKeepAlive
    <2>1. /\ keep_alive' = lease_id /\ leaseOf' = [leaseOf EXCEPT ![service] = lease_id]
          /\ lease_id' = lease_id /\ granted' = granted
      BY <1>4 DEF Reg!LeaseKeepAlive, Reg!etcdVars
    <2>2. ASSUME granted <= 1, NEW t \in Services, leaseOf'[t] # 0 PROVE keep_alive' = leaseOf'[t]
      <3>1. leaseOf'[t] \in 0..granted
        BY <1>1, <2>1
      <3>2. lease_id = 1 /\ leaseOf'[t] = 1
        BY <2>2, <3>1
      <3> QED
        BY <2>1, <3>2
    <2> QED
      BY <1>1, <2>1, <2>2
  <1>5. CASE Reg!Destroy
    BY <1>1, <1>5 DEF Reg!Destroy, Reg!etcdVars
  <1>6. ASSUME NEW l \in leases, Reg!Expire(l) PROVE OneLease'
    BY <1>1, <1>6 DEF Reg!Expire, Reg!callVars
  <1>7. CASE UNCHANGED Reg!vars
    BY <1>1, <1>7 DEF Reg!vars, Reg!callVars, Reg!etcdVars
  <1> QED
    BY <1>2, <1>3, <1>4, <1>5, <1>6, <1>7 DEF Reg!Next

\* registry.h:10, "Automatically spawns a thread to keep the lease alive", for a
\* Registry of which RegisterService has been called once: the key of the
\* registered service does not vanish.
FirstRegistrationIsKept ==
  [][\A s \in Services :
       granted = 1 /\ step = "none" /\ keys[s] # 0 /\ keys[s] = leaseOf[s] => keys'[s] = keys[s]]_Reg!vars

\* So the promise is kept for the first service that is registered; it is the
\* second lease that breaks it.
THEOREM FirstIsKept ==
  ASSUME MaxLeases \in Nat
  PROVE  Reg!Spec => FirstRegistrationIsKept
  <1>1. Reg!Init => OneLease
    BY RegInit DEF Reg!Init, OneLease
  <1>2. OneLease /\ [Reg!Next]_Reg!vars => OneLease'
    BY OneLeaseNext
  <1>3. ASSUME OneLease, [Reg!Next]_Reg!vars, NEW s \in Services,
               granted = 1, step = "none", keys[s] # 0, keys[s] = leaseOf[s]
        PROVE  keys'[s] = keys[s]
    <2>1. keep_alive = keys[s]
      BY <1>3 DEF OneLease
    <2>2. ASSUME NEW l \in leases, Reg!Expire(l) PROVE keys'[s] = keys[s]
      BY <1>3, <2>1, <2>2 DEF Reg!Expire
    <2>3. ASSUME NEW t \in Services, Reg!LeaseGrant(t) PROVE keys'[s] = keys[s]
      BY <2>3 DEF Reg!LeaseGrant
    <2>4. CASE Reg!Put \/ Reg!LeaseKeepAlive \/ Reg!Destroy \/ UNCHANGED Reg!vars
      BY <1>3, <2>4 DEF Reg!Put, Reg!LeaseKeepAlive, Reg!Destroy, Reg!vars, Reg!etcdVars
    <2> QED
      BY <1>3, <2>2, <2>3, <2>4 DEF Reg!Next
  <1>4. OneLease /\ [Reg!Next]_Reg!vars =>
          \A s \in Services :
            granted = 1 /\ step = "none" /\ keys[s] # 0 /\ keys[s] = leaseOf[s] => keys'[s] = keys[s]
    BY <1>3
  <1> QED
    BY <1>1, <1>2, <1>4, PTL DEF Reg!Spec, FirstRegistrationIsKept
=============================================================================
