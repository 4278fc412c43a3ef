---------------------------- MODULE Deduplicator ----------------------------
(***************************************************************************)
(* InFlightDeduplicator (src/src/media/fairness.py).  A caller finds the   *)
(* future of its key in _in_flight and awaits it behind a shield, or puts  *)
(* one there and spawns the task that will resolve it.  A run is one       *)
(* future with its task.                                                   *)
(*                                                                         *)
(* No await suspends inside the lock, nor between set_result and the pop   *)
(* in the finally clause, so each of execute_or_join up to its await and   *)
(* the end of _run_task is one step of the event loop.  The waiters of a   *)
(* resolved future wake up in later steps.                                 *)
(***************************************************************************)
EXTENDS FiniteSets

CONSTANTS Keys, Callers,
          Runs   \* bound: futures that can be created

ASSUME DeduplicatorAssumption ==
  /\ "none" \notin Runs
  /\ Keys \cap {"new", "over", "none"} = {}
  /\ Runs \cap {"new", "answered", "gone"} = {}

VARIABLES
  inFlight,  \* _in_flight: Keys -> the key's run, or "none"
  future,    \* Runs -> "new", "pending", "result", "exception"
  task,      \* Runs -> "new", "spawned", "running", "ended", "cancelled"
  key,       \* Runs -> the key of the run, "none" before it starts
  call       \* Callers -> "new", the run awaited, "answered" or "gone"

dedupVars == <<inFlight, future, task, key, call>>

Live(r) == task[r] \in {"spawned", "running"}

DedupInit ==
  /\ inFlight = [k \in Keys |-> "none"]
  /\ future = [r \in Runs |-> "new"]
  /\ task = [r \in Runs |-> "new"]
  /\ key = [r \in Runs |-> "none"]
  /\ call = [c \in Callers |-> "new"]

(* execute_or_join, the key is in flight.                                  *)
JoinRun(c, k) ==
  /\ call[c] = "new" /\ inFlight[k] # "none"
  /\ call' = [call EXCEPT ![c] = inFlight[k]]
  /\ UNCHANGED <<inFlight, future, task, key>>

StartRunUnchecked(c, k, r) ==   \* mutant: "if key in self._in_flight" dropped
  /\ call[c] = "new"
  /\ task[r] = "new"
  /\ inFlight' = [inFlight EXCEPT ![k] = r]
  /\ future' = [future EXCEPT ![r] = "pending"]
  /\ task' = [task EXCEPT ![r] = "spawned"]
  /\ key' = [key EXCEPT ![r] = k]
  /\ call' = [call EXCEPT ![c] = r]

(* execute_or_join, it is not: a new future, a new task.                   *)
StartRun(c, k, r) ==
  /\ call[c] = "new" /\ inFlight[k] = "none"
  /\ task[r] = "new"
  /\ inFlight' = [inFlight EXCEPT ![k] = r]
  /\ future' = [future EXCEPT ![r] = "pending"]
  /\ task' = [task EXCEPT ![r] = "spawned"]
  /\ key' = [key EXCEPT ![r] = k]
  /\ call' = [call EXCEPT ![c] = r]

(* The task's first step: coro_func() is entered.                          *)
TaskStep(r) ==
  /\ task[r] = "spawned"
  /\ task' = [task EXCEPT ![r] = "running"]
  /\ UNCHANGED <<inFlight, future, key, call>>

TaskEndsNoPop(r, outcome) ==   \* mutant: the finally clause is gone
  /\ task[r] = "running"
  /\ task' = [task EXCEPT ![r] = "ended"]
  /\ future' = [future EXCEPT ![r] = outcome]
  /\ UNCHANGED <<inFlight, key, call>>

TaskEndsResultOnly(r, outcome) ==   \* mutant: "except Exception" is gone
  /\ task[r] = "running"
  /\ task' = [task EXCEPT ![r] = "ended"]
  /\ future' = IF outcome = "result" THEN [future EXCEPT ![r] = outcome] ELSE future
  /\ inFlight' = [inFlight EXCEPT ![key[r]] = "none"]
  /\ UNCHANGED <<key, call>>

(* coro_func returns or raises an Exception.                               *)
TaskEnds(r, outcome) ==
  /\ task[r] = "running"
  /\ task' = [task EXCEPT ![r] = "ended"]
  /\ future' = [future EXCEPT ![r] = outcome]
  /\ inFlight' = [inFlight EXCEPT ![key[r]] = "none"]
  /\ UNCHANGED <<key, call>>

(* coro_func raises CancelledError, which "except Exception" lets by: the  *)
(* key is popped and the future stays as it is.                            *)
TaskCancelled(r) ==
  /\ task[r] = "running"
  /\ task' = [task EXCEPT ![r] = "cancelled"]
  /\ inFlight' = [inFlight EXCEPT ![key[r]] = "none"]
  /\ UNCHANGED <<future, key, call>>

(* await asyncio.shield(future) returns or raises.                         *)
CallerWakes(c) ==
  /\ call[c] \in Runs /\ future[call[c]] \in {"result", "exception"}
  /\ call' = [call EXCEPT ![c] = "answered"]
  /\ UNCHANGED <<inFlight, future, task, key>>

(* The caller is cancelled; the shield keeps the run going.                *)
CallerCancelled(c) ==
  /\ call[c] \in Runs
  /\ call' = [call EXCEPT ![c] = "gone"]
  /\ UNCHANGED <<inFlight, future, task, key>>

RunEnds(r) == \/ \E outcome \in {"result", "exception"} : TaskEnds(r, outcome)
              \/ TaskCancelled(r)

DedupNext ==
  \/ \E c \in Callers, k \in Keys : JoinRun(c, k)
  \/ \E c \in Callers, k \in Keys, r \in Runs : StartRun(c, k, r)
  \/ \E r \in Runs : TaskStep(r)
  \/ \E r \in Runs : RunEnds(r)
  \/ \E c \in Callers : CallerWakes(c)
  \/ \E c \in Callers : CallerCancelled(c)

DedupSpec == DedupInit /\ [][DedupNext]_dedupVars

(* The event loop runs every ready task and callback, and the shared       *)
(* operation itself comes to an end.                                       *)
FairDedupSpec ==
  /\ DedupSpec
  /\ \A r \in Runs : WF_dedupVars(TaskStep(r)) /\ WF_dedupVars(RunEnds(r))
  /\ \A c \in Callers : WF_dedupVars(CallerWakes(c))

-----------------------------------------------------------------------------
DedupTypeOK ==
  /\ inFlight \in [Keys -> Runs \cup {"none"}]
  /\ future \in [Runs -> {"new", "pending", "result", "exception"}]
  /\ task \in [Runs -> {"new", "spawned", "running", "ended", "cancelled"}]
  /\ key \in [Runs -> Keys \cup {"none"}]
  /\ call \in [Callers -> Runs \cup {"new", "answered", "gone"}]

(* A run's entry, its future and its task agree: a key in flight is that   *)
(* of a live run whose future nobody has resolved, and every live run is   *)
(* in flight.  So no caller joins a run that is over and gets an old       *)
(* result, and no run that is still going can be started twice.            *)
EntryIsLiveRun ==
  /\ \A k \in Keys : inFlight[k] # "none" =>
       /\ Live(inFlight[k]) /\ key[inFlight[k]] = k
       /\ future[inFlight[k]] = "pending"
  /\ \A r \in Runs : Live(r) => inFlight[key[r]] = r

(* "Run expensive async task once, allowing all concurrent callers to      *)
(* share result" (fairness.py): the deduplicator behaves as SingleFlight.  *)
Flight == INSTANCE SingleFlight
  WITH run <- [r \in Runs |-> IF task[r] = "new" THEN "new"
                              ELSE IF Live(r) THEN key[r] ELSE "over"],
       call <- call

IsSingleFlight == Flight!Spec

(* Every caller that waits is answered, with a result or an exception,     *)
(* unless it leaves or the run it shares is cancelled.                     *)
CallersAnswered ==
  \A c \in Callers, r \in Runs :
    call[c] = r ~> call[c] # r \/ task[r] = "cancelled"
=============================================================================
