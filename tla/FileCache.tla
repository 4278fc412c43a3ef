------------------------------ MODULE FileCache ------------------------------
(* What a cache of files that are expensive to make promises, however it     *)
(* makes them: a request is answered with the file of its item, which is     *)
(* whole, or without one, or not at all; and a whole file is there for good. *)
(* Requests may be cancelled, and nothing is promised of their items then.   *)
CONSTANTS Items, Jobs,
          JobItem   \* Jobs -> the item a request is for

VARIABLES
  answer,   \* Jobs -> "waiting", "path", "none", "dead" or "cancelled"
  whole     \* the items whose file is there and complete

cacheVars == <<answer, whole>>

Init == /\ answer = [j \in Jobs |-> "waiting"]
        /\ whole = {}

Provide(j) ==
  /\ answer[j] = "waiting"
  /\ answer' = [answer EXCEPT ![j] = "path"]
  /\ whole' = whole \cup {JobItem[j]}

\* A request of the item was cancelled.
Spoiled(i) == \E j \in Jobs : JobItem[j] = i /\ answer[j] = "cancelled"

ProvideAnyhow(j) ==
  /\ answer[j] = "waiting" /\ Spoiled(JobItem[j])
  /\ answer' = [answer EXCEPT ![j] = "path"]
  /\ whole' = whole \ {JobItem[j]}

Cancel(j) ==
  /\ answer[j] = "waiting"
  /\ answer' = [answer EXCEPT ![j] = "cancelled"]
  /\ UNCHANGED whole

Decline(j) ==
  /\ answer[j] = "waiting"
  /\ answer' = [answer EXCEPT ![j] = "none"]
  /\ UNCHANGED whole

Die(lost) ==
  /\ \A j \in lost : answer[j] = "waiting"
  /\ answer' = [j \in Jobs |-> IF j \in lost THEN "dead" ELSE answer[j]]
  /\ UNCHANGED whole

Next == \/ \E j \in Jobs : Provide(j) \/ ProvideAnyhow(j) \/ Decline(j) \/ Cancel(j)
        \/ \E lost \in SUBSET Jobs : Die(lost)

Spec == Init /\ [][Next]_cacheVars
=============================================================================
