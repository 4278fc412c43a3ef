------------------------- MODULE ConcurrencyManager -------------------------
(***************************************************************************)
(* ConcurrencyManager (src/src/media/fairness.py): the slots of the global *)
(* and per-user stream limits.  Callers take a slot, stream, and give it   *)
(* back.  The lock's critical sections contain no await, so each call is   *)
(* one step of the event loop.                                             *)
(*                                                                         *)
(* The dict user_id -> set of stream_ids is the relation it represents; an *)
(* empty set and a missing key count alike, and stream ids carry the user  *)
(* and the time, so that no two callers share one.                         *)
(***************************************************************************)
EXTENDS Naturals, FiniteSets

CONSTANTS Users,      \* user_ids
          Streams,    \* stream_ids
          MaxGlobal,  \* max_global_streams
          MaxPerUser  \* max_streams_per_user

ASSUME ConcurrencyAssumption == MaxGlobal \in Nat /\ MaxPerUser \in Nat

VARIABLES
  active,   \* active_streams
  callers   \* <<user, stream>> of the callers that were granted a slot and
            \* have not called release_stream_slot

slotVars == <<active, callers>>

ActiveOf(u)  == {a \in active : a[1] = u}
CallersOf(u) == {a \in callers : a[1] = u}

SlotsInit == active = {} /\ callers = {}

AtCapacityOffByOne(u) ==   \* mutant: ">" for ">="
  \/ Cardinality(active) > MaxGlobal
  \/ Cardinality(ActiveOf(u)) > MaxPerUser

(* The two checks that answer 429.                                         *)
AtCapacity(u) ==
  \/ Cardinality(active) >= MaxGlobal
  \/ Cardinality(ActiveOf(u)) >= MaxPerUser

(* acquire_stream_slot: granted.                                           *)
Acquire(u, s) ==
  /\ \A v \in Users : <<v, s>> \notin callers
  /\ ~AtCapacity(u)
  /\ active' = active \cup {<<u, s>>}
  /\ callers' = callers \cup {<<u, s>>}

ReleaseAll(u, s) ==   \* mutant: the user's key is dropped with other streams in it
  /\ <<u, s>> \in callers
  /\ active' = active \ ActiveOf(u)
  /\ callers' = callers \ {<<u, s>>}

(* release_stream_slot, of a stream that has its slot.                     *)
Release(u, s) ==
  /\ <<u, s>> \in callers
  /\ active' = active \ {<<u, s>>}
  /\ callers' = callers \ {<<u, s>>}

SlotsNext == \E u \in Users, s \in Streams : Acquire(u, s) \/ Release(u, s)

SlotsSpec == SlotsInit /\ [][SlotsNext]_slotVars

(* However callers interleave, those between acquire and release never     *)
(* exceed either limit: the number of streams counted is the number        *)
(* running.  (fairness.py: "Enforces global and per-user streaming         *)
(* concurrency limits".)                                                   *)
LimitsHold ==
  /\ Cardinality(callers) <= MaxGlobal
  /\ \A u \in Users : Cardinality(CallersOf(u)) <= MaxPerUser

SlotsTypeOK == active \subseteq Users \X Streams /\ callers \subseteq Users \X Streams

(* The manager forgets no slot and keeps none: it counts exactly the       *)
(* callers that hold one, so capacity is never lost or invented.           *)
SlotsConserved == active = callers
=============================================================================
