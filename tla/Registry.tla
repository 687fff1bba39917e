------------------------------ MODULE Registry ------------------------------
(***************************************************************************)
(* Service registration (src/registry.cpp): RegisterService grants a lease,  *)
(* puts the service's key under it and starts a KeepAlive for the lease; the *)
(* destructor cancels the KeepAlive.  Each of the first two steps waits for  *)
(* etcd's answer, and throws when it is an error.                            *)
(*                                                                           *)
(* etcd and its client are external, modelled from how registry.cpp uses     *)
(* them: a lease that no KeepAlive refreshes expires and takes its keys with *)
(* it; a KeepAlive object that is cancelled or destroyed refreshes no more.  *)
(***************************************************************************)
EXTENDS Integers

CONSTANTS
  Services,   \* the service names (with their endpoints) that are registered
  MaxLeases   \* bound on the leases granted

ASSUME RegistryAssumption == MaxLeases \in Nat

VARIABLES
  step,       \* where RegisterService is, "none" outside of it
  service,    \* the service it registers
  lease_id,   \* the lease it was granted
  granted,    \* how many leases etcd has granted
  leases,     \* etcd: the leases that have not expired
  keys,       \* etcd: the lease each service's key is attached to, 0 if absent
  keep_alive, \* Impl::keep_alive: the lease it refreshes, 0 if null
  registered  \* history: the lease with which RegisterService returned, by service

callVars == <<step, service, lease_id>>
etcdVars == <<granted, leases, keys>>
vars == <<callVars, etcdVars, keep_alive, registered>>

-----------------------------------------------------------------------------

\* RegisterService is called; leasegrant succeeds, or throws (and nothing has
\* changed).
LeaseGrant(s) ==
  /\ step = "none"
  /\ granted < MaxLeases
  /\ granted' = granted + 1
  /\ leases' = leases \cup {granted'}
  /\ lease_id' = granted'
  /\ service' = s
  /\ step' = "put"
  /\ UNCHANGED <<keys, keep_alive, registered>>

\* put succeeds only while the lease exists.  When it fails, etcd may have
\* stored the key nevertheless (the answer got lost); RegisterService throws.
Put ==
  /\ step = "put"
  /\ \/ /\ lease_id \in leases
        /\ keys' = [keys EXCEPT ![service] = lease_id]
        /\ step' \in {"keepalive", "none"}
     \/ /\ step' = "none"
        /\ UNCHANGED keys
  /\ UNCHANGED <<service, lease_id, granted, leases, keep_alive, registered>>

\* The new KeepAlive replaces the old one, which is destroyed.
LeaseKeepAlive ==
  /\ step = "keepalive"
  /\ keep_alive' = lease_id
  /\ registered' = [registered EXCEPT ![service] = lease_id]
  /\ step' = "none"
  /\ UNCHANGED <<service, lease_id, etcdVars>>

\* Mutant: the KeepAlive is not cancelled.
DestroyKeepsAlive ==
  /\ step # "gone"
  /\ step' = "gone"
  /\ UNCHANGED <<service, lease_id, etcdVars, keep_alive, registered>>

\* ~Registry, or the end of the process at any point.
Destroy ==
  /\ step # "gone"
  /\ step' = "gone"
  /\ keep_alive' = 0
  /\ UNCHANGED <<service, lease_id, etcdVars, registered>>

\* The time to live of a lease is over before anyone refreshed it.
Expire(l) ==
  /\ l \in leases /\ l # keep_alive
  /\ leases' = leases \ {l}
  /\ keys' = [s \in Services |-> IF keys[s] = l THEN 0 ELSE keys[s]]
  /\ UNCHANGED <<callVars, granted, keep_alive, registered>>

-----------------------------------------------------------------------------

Init ==
  /\ step = "none"
  /\ service \in Services
  /\ lease_id = 0
  /\ granted = 0
  /\ leases = {}
  /\ keys = [s \in Services |-> 0]
  /\ keep_alive = 0
  /\ registered = [s \in Services |-> 0]

Next ==
  \/ \E s \in Services : LeaseGrant(s)
  \/ Put \/ LeaseKeepAlive \/ Destroy
  \/ \E l \in leases : Expire(l)

Spec == Init /\ [][Next]_vars

\* Leases that are not refreshed do expire.
FairSpec == Spec /\ \A l \in 1..MaxLeases : WF_vars(Expire(l))

-----------------------------------------------------------------------------
(* Properties. *)

TypeOK ==
  /\ step \in {"none", "put", "keepalive", "gone"}
  /\ service \in Services
  /\ lease_id \in 0..MaxLeases
  /\ granted \in 0..MaxLeases
  /\ leases \subseteq 1..granted
  /\ keys \in [Services -> leases \cup {0}]
  /\ keep_alive \in 0..granted
  /\ registered \in [Services -> 0..granted]

\* Once the Registry is gone, at whatever point of a registration, no key stays
\* behind.
NothingStaysBehind == (step = "gone") ~> (\A s \in Services : keys[s] = 0)

\* registry.h:10: "Register a service with a TTL. Automatically spawns a thread
\* to keep the lease alive": the key of a registered service does not vanish
\* while the Registry exists and no registration is in progress.
RegisteredIsKept ==
  [][\A s \in Services :
       step = "none" /\ keys[s] # 0 /\ keys[s] = registered[s] => keys'[s] = keys[s]]_vars
=============================================================================
