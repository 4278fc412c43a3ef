--------------------------- MODULE StreamEndpoint ---------------------------
(***************************************************************************)
(* GET /api/media/{id}/stream (src/src/media/app.py, stream_media): the    *)
(* handler acquires a slot, builds the response and releases the slot in   *)
(* its finally clause; the body is sent after it has returned, chunk by    *)
(* chunk, by the server.                                                   *)
(***************************************************************************)
EXTENDS ConcurrencyManager   \* its callers are the handlers of stream_media

VARIABLE request   \* Streams -> <<step of the request, its user>>

vars == <<slotVars, request>>

At(s, step, u) == request[s] = <<step, u>>
Go(s, step, u) == request' = [request EXCEPT ![s] = <<step, u>>]

Init == /\ SlotsInit
        /\ request \in [Streams -> {"new"} \X Users]

(* Up to the slot.  Between acquire and release nothing awaits (the lock   *)
(* is never contended), so no other handler is then half way.              *)
Enter(u, s) ==
  /\ At(s, "new", u) /\ callers = {}
  /\ IF AtCapacity(u)
     THEN Go(s, "over", u) /\ UNCHANGED <<active, callers>>   \* 429
     ELSE Go(s, "responding", u) /\ Acquire(u, s)

(* create_streaming_response returns a response, or raises 404 or 416; the *)
(* finally clause releases the slot either way.                            *)
Respond(u, s) ==
  /\ At(s, "responding", u)
  /\ Release(u, s)
  /\ \E step \in {"sending", "over"} : Go(s, step, u)

(* chunk_generator is exhausted, or the client goes away.                  *)
BodyEnds(u, s) ==
  /\ At(s, "sending", u)
  /\ Go(s, "over", u)
  /\ UNCHANGED <<active, callers>>

Next == \E s \in Streams, u \in Users :
          Enter(u, s) \/ Respond(u, s) \/ BodyEnds(u, s)

Spec == Init /\ [][Next]_vars

(* The limits are on streams: fairness.py releases a slot "on stream       *)
(* completion or disconnect", so no user should have more than             *)
(* max_streams_per_user bodies being sent.                                 *)
StreamsWithinLimits ==
  \A u \in Users : Cardinality({s \in Streams : At(s, "sending", u)}) <= MaxPerUser

(* What they bound instead are the handlers between acquire and release,   *)
(* of which there is never more than one: nobody is ever told to come back *)
(* later, however many bodies are being sent.                              *)
NobodyRefused ==
  [][\A s \in Streams, u \in Users : At(s, "new", u) => ~At(s, "over", u)']_vars
=============================================================================
