---------------------------- MODULE RateLimiter ----------------------------
(***************************************************************************)
(* SlidingWindowRateLimiter (src/src/media/fairness.py), which the HTTP    *)
(* middleware of app.py asks about every request under /api/.  Time is a   *)
(* number of ticks; several requests may fall into one.  The list of times *)
(* kept for a client is the set of its requests, each with its number.     *)
(***************************************************************************)
EXTENDS Naturals, FiniteSets

CONSTANTS Clients,      \* client IPs
          MaxRequests,  \* max_requests
          Window,       \* window_seconds, in ticks
          MaxTime       \* bound: the last tick

ASSUME RateAssumption == MaxRequests \in Nat /\ Window \in Nat \ {0} /\ MaxTime \in Nat

VARIABLES
  now,       \* time.time()
  requests,  \* Clients -> the requests kept for the client, [nr, at]
  accepted,  \* history: Clients -> all the requests let through
  refused    \* history: the last request refused, <<client, time>>, or <<>>

rateVars == <<now, requests, accepted, refused>>

RateInit ==
  /\ now = 0
  /\ requests = [c \in Clients |-> {}]
  /\ accepted = [c \in Clients |-> {}]
  /\ refused = <<>>

Tick == /\ now < MaxTime
        /\ now' = now + 1
        /\ UNCHANGED <<requests, accepted, refused>>

LiveWindowShort(c) ==   \* mutant: the window is one tick short
  {r \in requests[c] : r.at + Window > now + 1}

LiveWindowLong(c) ==    \* mutant: "t >= cutoff"
  {r \in requests[c] : r.at + Window >= now}

(* reqs: the kept times after the cutoff now - window_seconds.             *)
LiveWindow(c) == {r \in requests[c] : r.at + Window > now}

NextRequest(c) == [nr |-> Cardinality(accepted[c]) + 1, at |-> now]

(* check_rate_limit returns: the cleaned list, with this request, is kept. *)
Admit(c) ==
  /\ Cardinality(LiveWindow(c)) < MaxRequests
  /\ requests' = [requests EXCEPT ![c] = LiveWindow(c) \cup {NextRequest(c)}]
  /\ accepted' = [accepted EXCEPT ![c] = @ \cup {NextRequest(c)}]
  /\ UNCHANGED <<now, refused>>

(* check_rate_limit raises 429, before anything is stored.                 *)
Refuse(c) ==
  /\ Cardinality(LiveWindow(c)) >= MaxRequests
  /\ refused' = <<c, now>>
  /\ UNCHANGED <<now, requests, accepted>>

RateNext == Tick \/ \E c \in Clients : Admit(c) \/ Refuse(c)

RateSpec == RateInit /\ [][RateNext]_rateVars

-----------------------------------------------------------------------------
AcceptedIn(c, from, to) ==
  Cardinality({r \in accepted[c] : from <= r.at /\ r.at <= to})

(* Whatever the pattern of requests, no span of window_seconds, wherever   *)
(* it starts, contains more than max_requests accepted ones of a client    *)
(* (a fixed-window counter would let twice as many through).               *)
NoWindowOverfull ==
  \A c \in Clients, t \in 0..MaxTime :
    AcceptedIn(c, t, t + Window - 1) <= MaxRequests

(* A client is refused only if it really has max_requests accepted         *)
(* requests in the window that ends now: refusals do not extend the wait.  *)
RefusedOnlyWhenFull ==
  refused # <<>> =>
    LET c == refused[1]
        t == refused[2]
    IN  AcceptedIn(c, IF t >= Window THEN t - Window + 1 ELSE 0, t) >= MaxRequests
=============================================================================
