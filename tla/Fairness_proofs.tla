--------------------------- MODULE Fairness_proofs ---------------------------
(***************************************************************************)
(* The three classes of src/src/media/fairness.py, for any users, clients, *)
(* keys and limits: the stream slots and their use by stream_media, the    *)
(* rate limiter's sliding window and the deduplicator.                     *)
(***************************************************************************)
EXTENDS StreamEndpoint, RateLimiter, Deduplicator, FiniteSetTheorems, TLAPS

-----------------------------------------------------------------------------
(* ConcurrencyManager: the slots counted are the callers' own, and so the  *)
(* limits hold for the streams that run.                                   *)

(* Counting callers means something only if there are finitely many.       *)
SlotsInv == /\ SlotsTypeOK
            /\ SlotsConserved
            /\ IsFiniteSet(callers)
            /\ LimitsHold

LEMMA AddBelow ==
  ASSUME NEW S, IsFiniteSet(S), NEW x, NEW n \in Nat, Cardinality(S) < n
  PROVE  Cardinality(S \cup {x}) <= n
<1>1. Cardinality(S) \in Nat
  BY FS_CardinalityType
<1>2. Cardinality(S \cup {x}) \in {Cardinality(S), Cardinality(S) + 1}
  BY FS_AddElement
<1> QED BY <1>1, <1>2

LEMMA InitSlots == SlotsInit => SlotsInv
<1> SUFFICES ASSUME SlotsInit PROVE SlotsInv
  OBVIOUS
<1>1. /\ IsFiniteSet({}) /\ Cardinality({}) = 0
      /\ \A u \in Users : CallersOf(u) = {}
  BY FS_EmptySet DEF SlotsInit, CallersOf
<1> QED
  BY <1>1, ConcurrencyAssumption
  DEF SlotsInit, SlotsInv, SlotsTypeOK, SlotsConserved, LimitsHold

LEMMA NextSlots == SlotsInv /\ [SlotsNext]_slotVars => SlotsInv'
<1> SUFFICES ASSUME SlotsInv, [SlotsNext]_slotVars PROVE SlotsInv'
  OBVIOUS
<1> USE ConcurrencyAssumption
<1>1. ASSUME NEW u \in Users, NEW s \in Streams, Acquire(u, s) PROVE SlotsInv'
  <2>1. SlotsTypeOK' /\ SlotsConserved'
    BY <1>1 DEF Acquire, SlotsInv, SlotsTypeOK, SlotsConserved
  <2>2. IsFiniteSet(callers')
    BY <1>1, FS_AddElement DEF Acquire, SlotsInv
  <2>3. IsFiniteSet(CallersOf(u))
    BY FS_Subset DEF SlotsInv, CallersOf
  <2>4. Cardinality(callers) < MaxGlobal /\ Cardinality(CallersOf(u)) < MaxPerUser
    <3>1. Cardinality(callers) \in Nat /\ Cardinality(CallersOf(u)) \in Nat
      BY <2>3, FS_CardinalityType DEF SlotsInv
    <3>2. ActiveOf(u) = CallersOf(u)
      BY DEF ActiveOf, CallersOf, SlotsInv, SlotsConserved
    <3> QED BY <1>1, <3>1, <3>2 DEF Acquire, AtCapacity, SlotsInv, SlotsConserved
  <2>5. Cardinality(callers') <= MaxGlobal
    <3>1. callers' = callers \cup {<<u, s>>}
      BY <1>1 DEF Acquire
    <3> QED BY <2>4, <3>1, AddBelow DEF SlotsInv
  <2>6. ASSUME NEW v \in Users
        PROVE  Cardinality(CallersOf(v)') <= MaxPerUser
    <3>1. CASE v = u
      <4>1. CallersOf(v)' = CallersOf(u) \cup {<<u, s>>}
        BY <1>1, <3>1 DEF Acquire, CallersOf
      <4> QED BY <2>3, <2>4, <4>1, AddBelow
    <3>2. CASE v # u
      <4>1. CallersOf(v)' = CallersOf(v)
        BY <1>1, <3>2 DEF Acquire, CallersOf
      <4> QED BY <4>1 DEF SlotsInv, LimitsHold
    <3> QED BY <3>1, <3>2
  <2> QED BY <2>1, <2>2, <2>5, <2>6 DEF SlotsInv, LimitsHold
<1>2. ASSUME NEW u \in Users, NEW s \in Streams, Release(u, s) PROVE SlotsInv'
  <2>1. SlotsTypeOK' /\ SlotsConserved'
    BY <1>2 DEF Release, SlotsInv, SlotsTypeOK, SlotsConserved
  <2>2. callers' \subseteq callers
    BY <1>2 DEF Release
  <2>3. IsFiniteSet(callers') /\ Cardinality(callers') <= Cardinality(callers)
    BY <2>2, FS_Subset DEF SlotsInv
  <2>4. ASSUME NEW v \in Users
        PROVE  /\ Cardinality(CallersOf(v)') <= Cardinality(CallersOf(v))
               /\ Cardinality(CallersOf(v)) \in Nat /\ Cardinality(CallersOf(v)') \in Nat
    <3>1. IsFiniteSet(CallersOf(v))
      BY FS_Subset DEF SlotsInv, CallersOf
    <3>2. CallersOf(v)' \in SUBSET CallersOf(v)
      BY <2>2 DEF CallersOf
    <3> QED BY <3>1, <3>2, FS_Subset, FS_CardinalityType
  <2>5. Cardinality(callers) \in Nat /\ Cardinality(callers') \in Nat
    BY <2>3, FS_CardinalityType DEF SlotsInv
  <2>6. Cardinality(callers') <= MaxGlobal
    BY <2>3, <2>5 DEF SlotsInv, LimitsHold
  <2>7. ASSUME NEW v \in Users
        PROVE  Cardinality(CallersOf(v)') <= MaxPerUser
    <3>1. Cardinality(CallersOf(v)) <= MaxPerUser
      BY DEF SlotsInv, LimitsHold
    <3> QED BY <2>4, <3>1
  <2> QED BY <2>1, <2>3, <2>6, <2>7 DEF SlotsInv, LimitsHold
<1>3. CASE UNCHANGED slotVars
  BY <1>3 DEF slotVars, SlotsInv, SlotsTypeOK, SlotsConserved, LimitsHold, CallersOf
<1> QED
  BY <1>1, <1>2, <1>3 DEF SlotsNext

LEMMA SlotsInvariant == SlotsSpec => []SlotsInv
BY InitSlots, NextSlots, PTL DEF SlotsSpec

(* No interleaving of callers gets more streams than the limits allow.     *)
THEOREM SlotsCorrect == SlotsSpec => []LimitsHold
<1>1. SlotsInv => LimitsHold
  BY DEF SlotsInv
<1> QED BY <1>1, SlotsInvariant, PTL

(* No slot is lost or invented, over any number of grants and releases:    *)
(* those counted as taken are exactly those of running callers.            *)
THEOREM SlotsNeverLost == SlotsSpec => []SlotsConserved
<1>1. SlotsInv => SlotsConserved
  BY DEF SlotsInv
<1> QED BY <1>1, SlotsInvariant, PTL

-----------------------------------------------------------------------------
(* StreamEndpoint: stream_media as a caller of the manager.                *)

LEMMA EndpointStep == [Next]_vars => [SlotsNext]_slotVars
<1> SUFFICES ASSUME [Next]_vars PROVE [SlotsNext]_slotVars
  OBVIOUS
<1>1. ASSUME NEW s \in Streams, NEW u \in Users,
             Enter(u, s) \/ Respond(u, s) \/ BodyEnds(u, s)
      PROVE  Acquire(u, s) \/ Release(u, s) \/ UNCHANGED slotVars
  BY <1>1 DEF Enter, Respond, BodyEnds, slotVars
<1>2. CASE UNCHANGED vars
  BY <1>2 DEF vars, slotVars
<1> QED BY <1>1, <1>2 DEF Next, SlotsNext

(* The handler keeps to the manager's protocol: it takes a slot once and   *)
(* gives back the one it took, whichever way it returns.                   *)
THEOREM EndpointUsesSlots == Spec => SlotsSpec
<1>1. Init => SlotsInit
  BY DEF Init
<1> QED BY <1>1, EndpointStep, PTL DEF Spec, SlotsSpec

Requests == [Streams -> {"new", "responding", "sending", "over"} \X Users]

LEMMA EndpointTyped == Spec => [](request \in Requests)
<1>1. Init => request \in Requests
  BY DEF Init, Requests
<1>2. request \in Requests /\ [Next]_vars => (request \in Requests)'
  BY DEF Requests, Next, Enter, Respond, BodyEnds, Go, vars
<1> QED BY <1>1, <1>2, PTL DEF Spec

(* Whenever a handler may enter, no slot is taken.                         *)
LEMMA RoomForNext ==
  ASSUME SlotsInv, MaxGlobal > 0, MaxPerUser > 0, callers = {}, NEW u \in Users
  PROVE  ~AtCapacity(u)
<1>1. active = {} /\ ActiveOf(u) = {} /\ Cardinality({}) = 0
  BY FS_EmptySet DEF SlotsInv, SlotsConserved, ActiveOf
<1> QED BY <1>1, ConcurrencyAssumption DEF AtCapacity

Accommodated ==
  \A s \in Streams, u \in Users : At(s, "new", u) => ~At(s, "over", u)'

LEMMA NoStepRefuses ==
  ASSUME SlotsInv, request \in Requests, MaxGlobal > 0, MaxPerUser > 0, [Next]_vars
  PROVE  Accommodated
<1>1. ASSUME NEW t \in Streams, NEW v \in Users, At(t, "new", v), At(t, "over", v)',
             NEW s \in Streams, NEW u \in Users,
             Enter(u, s) \/ Respond(u, s) \/ BodyEnds(u, s)
      PROVE  FALSE
  <2>1. CASE s = t
    BY <1>1, <2>1, RoomForNext DEF Enter, Respond, BodyEnds, At, Go, Requests
  <2>2. CASE s # t
    BY <1>1, <2>2 DEF Enter, Respond, BodyEnds, At, Go, Requests
  <2> QED BY <2>1, <2>2
<1>2. CASE UNCHANGED vars
  BY <1>2 DEF vars, Accommodated, At
<1> QED BY <1>1, <1>2 DEF Accommodated, Next

(* For any limits but zero, stream_media answers nobody 429.               *)
THEOREM LimitsNeverBite ==
  ASSUME MaxGlobal > 0, MaxPerUser > 0
  PROVE  Spec => NobodyRefused
<1>1. SlotsInv /\ request \in Requests /\ [Next]_vars => [Accommodated]_vars
  BY NoStepRefuses
<1>2. Spec => [][Accommodated]_vars
  BY <1>1, EndpointUsesSlots, SlotsInvariant, EndpointTyped, PTL DEF Spec
<1> QED BY <1>2 DEF NobodyRefused, Accommodated

-----------------------------------------------------------------------------
(* RateLimiter: whatever is accepted and recent is among the requests kept *)
(* for the client, so that counting these bounds every span of the window. *)

Span(c, from, to) == {r \in accepted[c] : from <= r.at /\ r.at <= to}

Request == [nr : Nat, at : Nat]

RateTypeOK ==
  /\ now \in Nat
  /\ requests \in [Clients -> SUBSET Request]
  /\ accepted \in [Clients -> SUBSET Request]
  /\ refused = <<>> \/ refused \in Clients \X Nat

(* The times kept are those of accepted requests, of the past, and no      *)
(* recent one is missing.                                                  *)
KeepsRecent(c) ==
  /\ IsFiniteSet(accepted[c])
  /\ requests[c] \subseteq accepted[c]
  /\ \A r \in accepted[c] : r.at <= now /\ r.nr <= Cardinality(accepted[c])
  /\ \A r \in accepted[c] : r.at + Window > now => r \in requests[c]

SpansBounded(c) ==
  \A t \in Nat : Cardinality(Span(c, t, t + Window - 1)) <= MaxRequests

RateInv == /\ RateTypeOK
           /\ \A c \in Clients : KeepsRecent(c) /\ SpansBounded(c)
           /\ refused # <<>> => refused[2] <= now
           /\ RefusedOnlyWhenFull

(* Two requests of one tick are still two: each has a number of its own.   *)
LEMMA NextRequestIsNew ==
  ASSUME RateInv, NEW c \in Clients
  PROVE  NextRequest(c) \in Request /\ NextRequest(c) \notin accepted[c]
<1>1. Cardinality(accepted[c]) \in Nat
  BY FS_CardinalityType DEF RateInv, KeepsRecent
<1> QED BY <1>1 DEF RateInv, RateTypeOK, KeepsRecent, NextRequest, Request

LEMMA FiniteSpan ==
  ASSUME NEW c, IsFiniteSet(accepted[c]), NEW from, NEW to
  PROVE  /\ IsFiniteSet(Span(c, from, to))
         /\ Cardinality(Span(c, from, to)) \in Nat
BY FS_Subset, FS_CardinalityType DEF Span

LEMMA InitRate == RateInit => RateInv
<1> SUFFICES ASSUME RateInit PROVE RateInv
  OBVIOUS
<1> USE RateAssumption DEF RateInit
<1>1. RateTypeOK
  BY DEF RateTypeOK
<1>2. \A c \in Clients : KeepsRecent(c)
  BY FS_EmptySet DEF KeepsRecent
<1>3. ASSUME NEW c \in Clients, NEW t \in Nat
      PROVE  Cardinality(Span(c, t, t + Window - 1)) <= MaxRequests
  <2>1. accepted[c] = {}
    OBVIOUS
  <2>2. Span(c, t, t + Window - 1) = {}
    BY <2>1 DEF Span
  <2>3. Cardinality(Span(c, t, t + Window - 1)) = 0
    BY <2>2, FS_EmptySet, Zenon
  <2> QED BY <2>3
<1> QED BY <1>1, <1>2, <1>3 DEF RateInv, SpansBounded, RefusedOnlyWhenFull

(* A refusal once right stays right, because no accepted request goes away. *)
LEMMA RefusalStaysRight ==
  ASSUME RateInv, RateTypeOK', refused' = refused,
         \A c \in Clients : accepted[c] \subseteq accepted'[c] /\ IsFiniteSet(accepted'[c])
  PROVE  RefusedOnlyWhenFull'
<1> SUFFICES ASSUME refused # <<>>
             PROVE  RefusedOnlyWhenFull'
  BY DEF RefusedOnlyWhenFull
<1> DEFINE c == refused[1]
           t == refused[2]
           from == IF t >= Window THEN t - Window + 1 ELSE 0
<1>1. c \in Clients
  BY DEF RateInv, RateTypeOK
<1>2. Cardinality(Span(c, from, t)) >= MaxRequests
  BY DEF RateInv, RefusedOnlyWhenFull, AcceptedIn, Span
<1>3. /\ Span(c, from, t) \subseteq Span(c, from, t)'
      /\ IsFiniteSet(Span(c, from, t)')
  BY <1>1, FS_Subset DEF Span
<1>4. /\ Cardinality(Span(c, from, t)) <= Cardinality(Span(c, from, t)')
      /\ Cardinality(Span(c, from, t)) \in Nat
      /\ Cardinality(Span(c, from, t)') \in Nat
  BY <1>3, FS_Subset, FS_CardinalityType
<1>5. Cardinality(Span(c, from, t)') >= MaxRequests
  BY <1>2, <1>4, RateAssumption
<1> QED BY <1>5 DEF RefusedOnlyWhenFull, AcceptedIn, Span

LEMMA NextRate == RateInv /\ [RateNext]_rateVars => RateInv'
<1> SUFFICES ASSUME RateInv, [RateNext]_rateVars PROVE RateInv'
  OBVIOUS
<1> USE RateAssumption
<1>1. CASE Tick
  <2>1. /\ now' = now + 1 /\ requests' = requests
        /\ accepted' = accepted /\ refused' = refused
    BY <1>1 DEF Tick
  <2>2. RateTypeOK'
    BY <2>1 DEF RateInv, RateTypeOK
  <2>3. ASSUME NEW c \in Clients PROVE KeepsRecent(c)' /\ SpansBounded(c)'
    <3>1. \A r \in accepted[c] : r.at \in Nat
      BY DEF RateInv, RateTypeOK, Request
    <3>2. KeepsRecent(c)'
      BY <2>1, <3>1 DEF RateInv, RateTypeOK, KeepsRecent
    <3>3. SpansBounded(c)'
      BY <2>1 DEF RateInv, SpansBounded, Span
    <3> QED BY <3>2, <3>3
  <2>4. refused' # <<>> => refused'[2] <= now'
    BY <2>1 DEF RateInv, RateTypeOK
  <2>5. RefusedOnlyWhenFull'
    BY <2>1 DEF RateInv, RefusedOnlyWhenFull, AcceptedIn
  <2> QED BY <2>2, <2>3, <2>4, <2>5 DEF RateInv
<1>2. ASSUME NEW c \in Clients, Admit(c) PROVE RateInv'
  <2> DEFINE q == NextRequest(c)
             L == LiveWindow(c)
  <2>1. /\ q \in Request /\ q \notin accepted[c]
        /\ q.at = now /\ q.nr = Cardinality(accepted[c]) + 1
    BY NextRequestIsNew DEF NextRequest
  <2>2. /\ now' = now /\ refused' = refused
        /\ requests' = [requests EXCEPT ![c] = L \cup {q}]
        /\ accepted' = [accepted EXCEPT ![c] = accepted[c] \cup {q}]
    BY <1>2 DEF Admit
  <2>3. Cardinality(L) < MaxRequests
    BY <1>2 DEF Admit
  <2>4. L \subseteq requests[c] /\ L \subseteq Request
        /\ \A r \in requests[c] : r.at + Window > now => r \in L
    BY DEF LiveWindow, RateInv, RateTypeOK
  <2> HIDE DEF q, L
  <2>5. RateTypeOK'
    BY <2>1, <2>2, <2>4 DEF RateInv, RateTypeOK
  <2>6. /\ accepted'[c] = accepted[c] \cup {q}
        /\ requests'[c] = L \cup {q}
        /\ \A d \in Clients \ {c} : accepted'[d] = accepted[d] /\ requests'[d] = requests[d]
    BY <2>2 DEF RateInv, RateTypeOK
  <2>7. /\ IsFiniteSet(accepted'[c])
        /\ Cardinality(accepted'[c]) = Cardinality(accepted[c]) + 1
        /\ Cardinality(accepted[c]) \in Nat
    BY <2>1, <2>6, FS_AddElement, FS_CardinalityType DEF RateInv, KeepsRecent
  <2>8. KeepsRecent(c)'
    <3>1. requests'[c] \subseteq accepted'[c]
      BY <2>4, <2>6 DEF RateInv, KeepsRecent
    <3>2. ASSUME NEW r \in accepted'[c]
          PROVE  /\ r.at <= now' /\ r.nr <= Cardinality(accepted'[c])
                 /\ r.at + Window > now' => r \in requests'[c]
      <4>1. CASE r = q
        BY <2>1, <2>2, <2>6, <2>7, <4>1 DEF RateInv, RateTypeOK
      <4>2. CASE r \in accepted[c]
        <5>1. r.at \in Nat /\ r.nr \in Nat
          BY <4>2 DEF RateInv, RateTypeOK, Request
        <5>2. /\ r.at <= now /\ r.nr <= Cardinality(accepted[c])
              /\ r.at + Window > now => r \in requests[c]
          BY <4>2 DEF RateInv, KeepsRecent
        <5> QED BY <2>2, <2>4, <2>6, <2>7, <5>1, <5>2
      <4> QED BY <2>6, <3>2, <4>1, <4>2
    <3> QED BY <2>7, <3>1, <3>2 DEF KeepsRecent
  <2>9. SpansBounded(c)'
    <3> SUFFICES ASSUME NEW t \in Nat
                 PROVE  Cardinality(Span(c, t, t + Window - 1)') <= MaxRequests
      BY <2>2 DEF SpansBounded
    <3> DEFINE old == Span(c, t, t + Window - 1)
    <3>1. IsFiniteSet(old) /\ Cardinality(old) \in Nat
      <4>1. IsFiniteSet(accepted[c])
        BY DEF RateInv, KeepsRecent
      <4> QED BY <4>1, FiniteSpan
    <3>2. CASE t <= now /\ now <= t + Window - 1
      <4>1. Span(c, t, t + Window - 1)' = old \cup {q}
        BY <2>1, <2>6, <3>2 DEF Span
      <4>2. old \subseteq L
        <5> SUFFICES ASSUME NEW r \in old PROVE r \in L
          OBVIOUS
        <5>1. r \in accepted[c] /\ r.at \in Nat /\ t <= r.at
          BY DEF Span, RateInv, RateTypeOK, Request
        <5>2. r.at + Window > now
          BY <3>2, <5>1 DEF RateInv, RateTypeOK
        <5> QED BY <2>4, <5>1, <5>2 DEF RateInv, KeepsRecent
      <4>3. IsFiniteSet(L) /\ Cardinality(L) \in Nat
        BY <2>4, FS_Subset, FS_CardinalityType DEF RateInv, KeepsRecent
      <4>4. Cardinality(old) <= Cardinality(L)
        BY <4>2, <4>3, FS_Subset
      <4>5. Cardinality(old \cup {q}) <= MaxRequests
        <5> HIDE DEF old
        <5>1. Cardinality(old) < MaxRequests
          BY <2>3, <3>1, <4>3, <4>4
        <5> QED BY <3>1, <5>1, AddBelow
      <4> QED BY <4>1, <4>5
    <3>3. CASE ~(t <= now /\ now <= t + Window - 1)
      <4>1. Span(c, t, t + Window - 1)' = old
        BY <2>1, <2>6, <3>3 DEF Span
      <4> QED BY <4>1 DEF RateInv, SpansBounded
    <3> QED BY <3>2, <3>3
  <2>10. ASSUME NEW d \in Clients \ {c} PROVE KeepsRecent(d)' /\ SpansBounded(d)'
    BY <2>2, <2>6 DEF RateInv, KeepsRecent, SpansBounded, Span
  <2>11. \A d \in Clients : accepted[d] \subseteq accepted'[d] /\ IsFiniteSet(accepted'[d])
    BY <2>6, <2>7 DEF RateInv, KeepsRecent
  <2>12. RefusedOnlyWhenFull'
    BY <2>2, <2>5, <2>11, RefusalStaysRight
  <2>13. refused' # <<>> => refused'[2] <= now'
    BY <2>2 DEF RateInv
  <2> QED BY <2>5, <2>8, <2>9, <2>10, <2>12, <2>13 DEF RateInv
<1>3. ASSUME NEW c \in Clients, Refuse(c) PROVE RateInv'
  <2>1. /\ now' = now /\ requests' = requests
        /\ accepted' = accepted /\ refused' = <<c, now>>
    BY <1>3 DEF Refuse
  <2>2. RateTypeOK'
    BY <2>1 DEF RateInv, RateTypeOK
  <2>3. ASSUME NEW d \in Clients PROVE KeepsRecent(d)' /\ SpansBounded(d)'
    BY <2>1 DEF RateInv, KeepsRecent, SpansBounded, Span
  <2>4. refused'[1] = c /\ refused'[2] = now /\ refused'[2] <= now'
    BY <2>1 DEF RateInv, RateTypeOK
  <2>5. RefusedOnlyWhenFull'
    <3> DEFINE from == IF now >= Window THEN now - Window + 1 ELSE 0
    <3>1. LiveWindow(c) \subseteq Span(c, from, now)
      <4> SUFFICES ASSUME NEW r \in LiveWindow(c) PROVE r \in Span(c, from, now)
        OBVIOUS
      <4>1. r \in accepted[c] /\ r.at \in Nat /\ r.at <= now /\ r.at + Window > now
        BY DEF LiveWindow, RateInv, RateTypeOK, KeepsRecent, Request
      <4> QED BY <4>1 DEF Span, RateInv, RateTypeOK
    <3>2. IsFiniteSet(Span(c, from, now)) /\ Cardinality(Span(c, from, now)) \in Nat
      BY FiniteSpan DEF RateInv, KeepsRecent
    <3>3. /\ Cardinality(LiveWindow(c)) <= Cardinality(Span(c, from, now))
          /\ Cardinality(LiveWindow(c)) \in Nat
      BY <3>1, <3>2, FS_Subset, FS_CardinalityType
    <3>4. Cardinality(LiveWindow(c)) >= MaxRequests
      BY <1>3 DEF Refuse
    <3>5. Cardinality(Span(c, from, now)) >= MaxRequests
      BY <3>2, <3>3, <3>4
    <3> QED BY <2>1, <2>4, <3>5 DEF RefusedOnlyWhenFull, AcceptedIn, Span
  <2> QED BY <2>2, <2>3, <2>4, <2>5 DEF RateInv
<1>4. CASE UNCHANGED rateVars
  BY <1>4 DEF rateVars, RateInv, RateTypeOK, KeepsRecent, SpansBounded, Span,
              RefusedOnlyWhenFull, AcceptedIn
<1> QED BY <1>1, <1>2, <1>3, <1>4 DEF RateNext

LEMMA RateInvariant == RateSpec => []RateInv
BY InitRate, NextRate, PTL DEF RateSpec

(* However a client spaces its requests, and wherever the window starts,   *)
(* no more than max_requests of them are let through inside it.            *)
THEOREM WindowsNeverOverfull == RateSpec => []NoWindowOverfull
<1>1. RateInv => NoWindowOverfull
  BY RateAssumption DEF RateInv, SpansBounded, NoWindowOverfull, AcceptedIn, Span
<1> QED BY <1>1, RateInvariant, PTL

(* A 429 answer is always owed: the client has used its window up.         *)
THEOREM RefusalsAreOwed == RateSpec => []RefusedOnlyWhenFull
<1>1. RateInv => RefusedOnlyWhenFull
  BY DEF RateInv
<1> QED BY <1>1, RateInvariant, PTL

-----------------------------------------------------------------------------
(* InFlightDeduplicator: the entries of _in_flight are the live runs, and  *)
(* so its callers share single flights.                                    *)

(* A future is resolved only by the task that was spawned for it, and a    *)
(* spawned task has a key.                                                 *)
FreshRuns ==
  \A r \in Runs : /\ task[r] = "new" => future[r] = "new"
                  /\ task[r] # "new" => key[r] \in Keys

DedupInv == DedupTypeOK /\ EntryIsLiveRun /\ FreshRuns

LEMMA DedupInitInv == DedupInit => DedupInv
  BY DeduplicatorAssumption
  DEF DedupInit, DedupInv, DedupTypeOK, EntryIsLiveRun, FreshRuns, Live

(* No step of a caller or of a task breaks the agreement of the entries,   *)
(* the futures and the tasks.                                              *)
LEMMA DedupStepInv == DedupInv /\ [DedupNext]_dedupVars => DedupInv'
<1> SUFFICES ASSUME DedupInv, [DedupNext]_dedupVars PROVE DedupInv'
  OBVIOUS
<1> USE DeduplicatorAssumption
<1>1. ASSUME NEW c \in Callers, NEW k \in Keys, JoinRun(c, k) PROVE DedupInv'
  BY <1>1 DEF JoinRun, DedupInv, DedupTypeOK, EntryIsLiveRun, FreshRuns, Live
<1>2. ASSUME NEW c \in Callers, NEW k \in Keys, NEW r \in Runs, StartRun(c, k, r)
      PROVE DedupInv'
  <2>1. DedupTypeOK'
    BY <1>2 DEF StartRun, DedupInv, DedupTypeOK
  <2>2. /\ inFlight'[k] = r /\ \A l \in Keys \ {k} : inFlight'[l] = inFlight[l]
        /\ task'[r] = "spawned" /\ future'[r] = "pending" /\ key'[r] = k
        /\ \A s \in Runs \ {r} : /\ task'[s] = task[s] /\ future'[s] = future[s]
                                 /\ key'[s] = key[s]
    BY <1>2 DEF StartRun, DedupInv, DedupTypeOK
  <2>3. \A l \in Keys : inFlight[l] # r
    BY <1>2 DEF StartRun, DedupInv, DedupTypeOK, EntryIsLiveRun, Live
  <2>4. \A s \in Runs : Live(s) => key[s] # k
    BY <1>2 DEF StartRun, DedupInv, DedupTypeOK, EntryIsLiveRun
  <2>5. EntryIsLiveRun'
    BY <1>2, <2>2, <2>3, <2>4
    DEF StartRun, DedupInv, DedupTypeOK, EntryIsLiveRun, FreshRuns, Live
  <2>6. FreshRuns'
    BY <2>2 DEF DedupInv, FreshRuns
  <2> QED
    BY <2>1, <2>5, <2>6 DEF DedupInv
<1>3. ASSUME NEW r \in Runs, TaskStep(r) PROVE DedupInv'
  BY <1>3 DEF TaskStep, DedupInv, DedupTypeOK, EntryIsLiveRun, FreshRuns, Live
<1>4. ASSUME NEW r \in Runs, RunEnds(r) PROVE DedupInv'
  <2>1. /\ task[r] = "running" /\ key[r] \in Keys /\ inFlight[key[r]] = r
        /\ task' \in [Runs -> {"new", "spawned", "running", "ended", "cancelled"}]
        /\ task'[r] \in {"ended", "cancelled"}
        /\ \A s \in Runs \ {r} : task'[s] = task[s] /\ future'[s] = future[s]
        /\ future' \in [Runs -> {"new", "pending", "result", "exception"}]
        /\ inFlight' = [inFlight EXCEPT ![key[r]] = "none"]
        /\ key' = key /\ call' = call
    BY <1>4 DEF RunEnds, TaskEnds, TaskCancelled, DedupInv, DedupTypeOK,
                EntryIsLiveRun, FreshRuns, Live
  <2>2. DedupTypeOK'
    BY <2>1 DEF DedupInv, DedupTypeOK
  <2>3. EntryIsLiveRun'
    BY <2>1 DEF DedupInv, DedupTypeOK, EntryIsLiveRun, FreshRuns, Live
  <2>4. FreshRuns'
    BY <2>1 DEF DedupInv, FreshRuns
  <2> QED
    BY <2>2, <2>3, <2>4 DEF DedupInv
<1>5. ASSUME NEW c \in Callers, CallerWakes(c) PROVE DedupInv'
  BY <1>5 DEF CallerWakes, DedupInv, DedupTypeOK, EntryIsLiveRun, FreshRuns, Live
<1>6. ASSUME NEW c \in Callers, CallerCancelled(c) PROVE DedupInv'
  BY <1>6 DEF CallerCancelled, DedupInv, DedupTypeOK, EntryIsLiveRun, FreshRuns, Live
<1>7. CASE UNCHANGED dedupVars
  BY <1>7 DEF dedupVars, DedupInv, DedupTypeOK, EntryIsLiveRun, FreshRuns, Live
<1> QED
  BY <1>1, <1>2, <1>3, <1>4, <1>5, <1>6, <1>7 DEF DedupNext

LEMMA DedupInvariant == DedupSpec => []DedupInv
  BY DedupInitInv, DedupStepInv, PTL DEF DedupSpec

(* execute_or_join, _run_task: a caller never joins a run that is over,    *)
(* and a run that is going on is never started a second time.              *)
THEOREM EntriesAreLive == DedupSpec => []EntryIsLiveRun
  BY DedupInvariant, PTL DEF DedupInv

-----------------------------------------------------------------------------
(* What SingleFlight sees of a run.                                        *)
Seen(r) == IF task[r] = "new" THEN "new" ELSE IF Live(r) THEN key[r] ELSE "over"

SeenRun == [r \in Runs |-> Seen(r)]

LEMMA FlightInit == DedupInit => Flight!Init
  BY DEF DedupInit, Flight!Init

(* The refinement mapping takes each step to one of SingleFlight's, or to  *)
(* none: that a task has begun to run is not seen.                         *)
LEMMA FlightStep ==
  DedupInv /\ DedupInv' /\ [DedupNext]_dedupVars => [Flight!Next]_Flight!flightVars
<1> SUFFICES ASSUME DedupInv, DedupInv', [DedupNext]_dedupVars
             PROVE [Flight!Next]_Flight!flightVars
  OBVIOUS
<1> USE DeduplicatorAssumption
<1> DEFINE Step == [Flight!Next]_Flight!flightVars
<1>0. /\ \A r \in Runs : SeenRun[r] = Seen(r)
      /\ \A r \in Runs : Seen(r) = "new" <=> task[r] = "new"
      /\ \A r \in Runs : Live(r) => Seen(r) = key[r] /\ key[r] \in Keys
      /\ \A r \in Runs, k \in Keys : Seen(r) = k <=> Live(r) /\ key[r] = k
    BY DEF SeenRun, Seen, Live, DedupInv, DedupTypeOK, FreshRuns
<1>1. ASSUME NEW c \in Callers, NEW k \in Keys, JoinRun(c, k) PROVE Step
  <2>1. inFlight[k] \in Runs /\ SeenRun[inFlight[k]] = k
    BY <1>0, <1>1 DEF JoinRun, DedupInv, DedupTypeOK, EntryIsLiveRun
  <2>2. SeenRun' = SeenRun
    BY <1>1 DEF JoinRun, SeenRun, Seen, Live
  <2>3. Flight!Join(c, k, inFlight[k])
    BY <1>1, <2>1, <2>2 DEF JoinRun, Flight!Join, SeenRun, Seen
  <2> QED
    BY <2>1, <2>3 DEF Flight!Next
<1>2. ASSUME NEW c \in Callers, NEW k \in Keys, NEW r \in Runs, StartRun(c, k, r)
      PROVE Step
  <2>1. \A s \in Runs : SeenRun[s] # k
    BY <1>0, <1>2 DEF StartRun, DedupInv, DedupTypeOK, EntryIsLiveRun
  <2>2. SeenRun[r] = "new"
    BY <1>0, <1>2 DEF StartRun
  <2>3. SeenRun' = [SeenRun EXCEPT ![r] = k]
    BY <1>2 DEF StartRun, SeenRun, Seen, Live, DedupInv, DedupTypeOK
  <2>4. Flight!Start(c, k, r)
    BY <1>2, <2>1, <2>2, <2>3 DEF StartRun, Flight!Start, SeenRun, Seen
  <2> QED
    BY <2>4 DEF Flight!Next
<1>3. ASSUME NEW r \in Runs, TaskStep(r) PROVE Step
  <2>1. SeenRun' = SeenRun
    BY <1>3 DEF TaskStep, SeenRun, Seen, Live, DedupInv, DedupTypeOK
  <2> QED
    BY <1>3, <2>1 DEF TaskStep, Flight!flightVars, SeenRun, Seen
<1>4. ASSUME NEW r \in Runs, RunEnds(r) PROVE Step
  <2>1. SeenRun[r] \in Keys
    BY <1>0, <1>4 DEF RunEnds, TaskEnds, TaskCancelled, Live
  <2>2. SeenRun' = [SeenRun EXCEPT ![r] = "over"]
    <3>1. /\ task'[r] \in {"ended", "cancelled"} /\ key' = key
          /\ \A s \in Runs \ {r} : task'[s] = task[s]
      BY <1>4 DEF RunEnds, TaskEnds, TaskCancelled, DedupInv, DedupTypeOK
    <3>2. Seen(r)' = "over" /\ \A s \in Runs \ {r} : Seen(s)' = Seen(s)
      BY <3>1 DEF Seen, Live
    <3> QED
      BY <3>2 DEF SeenRun
  <2>3. call' = call
    BY <1>4 DEF RunEnds, TaskEnds, TaskCancelled
  <2>4. Flight!End(r)
    BY <2>1, <2>2, <2>3 DEF Flight!End, SeenRun, Seen
  <2> QED
    BY <2>4 DEF Flight!Next
<1>5. ASSUME NEW c \in Callers, CallerWakes(c) PROVE Step
  <2>1. SeenRun[call[c]] = "over"
    BY <1>5 DEF CallerWakes, SeenRun, Seen, DedupInv, DedupTypeOK,
                EntryIsLiveRun, FreshRuns
  <2>2. SeenRun' = SeenRun
    BY <1>5 DEF CallerWakes, SeenRun, Seen, Live
  <2>3. Flight!Answer(c)
    BY <1>5, <2>1, <2>2 DEF CallerWakes, Flight!Answer, SeenRun, Seen
  <2> QED
    BY <2>3 DEF Flight!Next
<1>6. ASSUME NEW c \in Callers, CallerCancelled(c) PROVE Step
  <2>1. SeenRun' = SeenRun
    BY <1>6 DEF CallerCancelled, SeenRun, Seen, Live
  <2>2. Flight!Leave(c)
    BY <1>6, <2>1 DEF CallerCancelled, Flight!Leave, SeenRun, Seen
  <2> QED
    BY <2>2 DEF Flight!Next
<1>7. CASE UNCHANGED dedupVars
  BY <1>7 DEF dedupVars, Flight!flightVars, Live
<1> QED
  BY <1>1, <1>2, <1>3, <1>4, <1>5, <1>6, <1>7 DEF DedupNext

(* fairness.py's InFlightDeduplicator implements SingleFlight: one run of  *)
(* a key at a time, shared by every caller that comes while it lasts.      *)
THEOREM DeduplicatorImplementsSingleFlight == DedupSpec => IsSingleFlight
  BY FlightInit, FlightStep, DedupInvariant, PTL
  DEF DedupSpec, IsSingleFlight, Flight!Spec

=============================================================================
