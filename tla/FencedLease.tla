---------------------------- MODULE FencedLease ----------------------------
(***************************************************************************)
(* What the job queue promises, without saying how.  A resource (a         *)
(* breeding job) is held by at most one lease at a time.  Leases are       *)
(* fencing tokens: each grant draws a token above every earlier one.  Only *)
(* the lease that holds a resource writes its results, a lease that was    *)
(* taken away never writes again, and a sealed resource neither changes    *)
(* nor is granted any more.                                                *)
(*                                                                         *)
(* BreedingJobs implements this specification (see FencedQueue there).     *)
(***************************************************************************)
EXTENDS Naturals

CONSTANTS Resources,   \* what is leased
          Slots        \* the results kept for each resource

NoLease == 0

VARIABLES holder,      \* the lease that holds each resource, or NoLease
          granted,     \* the newest lease granted so far
          result,      \* for each resource and slot, the lease that wrote it
          sealed       \* the resources that are finished for good

vars == <<holder, granted, result, sealed>>

TypeOK ==
  /\ granted \in Nat
  /\ holder \in [Resources -> Nat]
  /\ result \in [Resources -> [Slots -> Nat]]
  /\ sealed \subseteq Resources

Init ==
  /\ granted = 0
  /\ holder = [r \in Resources |-> NoLease]
  /\ result = [r \in Resources |-> [s \in Slots |-> NoLease]]
  /\ sealed = {}

\* A free resource is given to a new lease.
Grant(r) ==
  /\ r \notin sealed
  /\ holder[r] = NoLease
  /\ granted' = granted + 1
  /\ holder' = [holder EXCEPT ![r] = granted']
  /\ UNCHANGED <<result, sealed>>

\* The holder of r writes one of its results.
Write(r, s) ==
  /\ holder[r] # NoLease
  /\ result' = [result EXCEPT ![r][s] = holder[r]]
  /\ UNCHANGED <<holder, granted, sealed>>

\* Some leases end, given back by their holders or taken from them.
Free(S) ==
  /\ holder' = [r \in Resources |-> IF r \in S THEN NoLease ELSE holder[r]]
  /\ UNCHANGED <<granted, result, sealed>>

\* A resource is finished: its lease, if any, ends with it.
Seal(r) ==
  /\ r \notin sealed
  /\ sealed' = sealed \cup {r}
  /\ holder' = [holder EXCEPT ![r] = NoLease]
  /\ UNCHANGED <<granted, result>>

Next ==
  \/ \E r \in Resources : Grant(r) \/ Seal(r)
  \/ \E r \in Resources, s \in Slots : Write(r, s)
  \/ \E S \in SUBSET Resources : Free(S)

Spec == Init /\ [][Next]_vars

-----------------------------------------------------------------------------
\* No result is newer than the lease that holds its resource, two resources
\* are never under one lease, and a sealed resource has no holder.
Fenced ==
  /\ \A r \in Resources : holder[r] <= granted
  /\ \A r \in Resources, s \in Slots :
       /\ result[r][s] <= granted
       /\ holder[r] # NoLease => result[r][s] <= holder[r]
  /\ \A q, r \in Resources :
       q # r /\ holder[q] # NoLease => holder[q] # holder[r]
  /\ \A r \in sealed : holder[r] = NoLease

\* A result is never replaced by the result of an older lease.
Newer == \A r \in Resources, s \in Slots : result'[r][s] >= result[r][s]
ResultsOnlyGetNewer == [][Newer]_vars

\* Nothing about a sealed resource changes.
SealKept == \A r \in sealed : r \in sealed' /\ result'[r] = result[r]
SealedIsFinal == [][SealKept]_vars
=============================================================================
