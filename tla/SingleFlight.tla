---------------------------- MODULE SingleFlight ----------------------------
(***************************************************************************)
(* What an in-flight deduplicator promises, whatever it is built from: an  *)
(* expensive operation has at most one run at a time per key, a caller     *)
(* that arrives during a run shares it, one that arrives outside a run     *)
(* starts one, and an answer is that of a run that is over.                *)
(***************************************************************************)
CONSTANTS Keys, Callers, Runs

VARIABLES
  run,   \* Runs -> "new", the key it is running for, or "over"
  call   \* Callers -> "new", the run it shares, "answered" or "gone"

flightVars == <<run, call>>

Init == /\ run = [r \in Runs |-> "new"]
        /\ call = [c \in Callers |-> "new"]

Start(c, k, r) ==
  /\ call[c] = "new"
  /\ \A s \in Runs : run[s] # k
  /\ run[r] = "new"
  /\ run' = [run EXCEPT ![r] = k]
  /\ call' = [call EXCEPT ![c] = r]

Join(c, k, r) ==
  /\ call[c] = "new"
  /\ run[r] = k
  /\ call' = [call EXCEPT ![c] = r]
  /\ UNCHANGED run

End(r) ==
  /\ run[r] \in Keys
  /\ run' = [run EXCEPT ![r] = "over"]
  /\ UNCHANGED call

Answer(c) ==
  /\ call[c] \in Runs /\ run[call[c]] = "over"
  /\ call' = [call EXCEPT ![c] = "answered"]
  /\ UNCHANGED run

Leave(c) ==
  /\ call[c] \in Runs
  /\ call' = [call EXCEPT ![c] = "gone"]
  /\ UNCHANGED run

Next ==
  \/ \E c \in Callers, k \in Keys, r \in Runs : Start(c, k, r) \/ Join(c, k, r)
  \/ \E r \in Runs : End(r)
  \/ \E c \in Callers : Answer(c) \/ Leave(c)

Spec == Init /\ [][Next]_flightVars
=============================================================================
