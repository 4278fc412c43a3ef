------------------------------ MODULE MCRequests ------------------------------
(* What a request for a media file goes through: the rate limiter, its tokens, *)
(* the stream slots and its byte range.  The four keep separate state, so that *)
(* one run explores them side by side: focus says which one moves.             *)
EXTENDS ConcurrencyManager, RateLimiter, Tokens, RangeRead

VARIABLE focus

vars == <<slotVars, rateVars, rangeVars, tokenVars, focus>>

Init ==
  /\ focus \in {"slots", "rate", "range", "tokens"}
  /\ SlotsInit /\ RateInit /\ RangeInit /\ TokensInit

Moves(part) == focus = part /\ UNCHANGED focus

Next ==
  \/ Moves("slots") /\ SlotsNext /\ UNCHANGED <<rateVars, rangeVars, tokenVars>>
  \/ Moves("rate") /\ RateNext /\ UNCHANGED <<slotVars, rangeVars, tokenVars>>
  \/ Moves("range") /\ RangeNext /\ UNCHANGED <<slotVars, rateVars, tokenVars>>
  \/ Moves("tokens") /\ TokensNext /\ UNCHANGED <<slotVars, rateVars, rangeVars>>

Spec == Init /\ [][Next]_vars

=============================================================================
