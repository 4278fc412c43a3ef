-------------------------- MODULE Deployment_proofs --------------------------
(* For any choice of services: what is still to be done of a command, and what *)
(* it has done already, always add up to what it promises.                     *)
EXTENDS Deployment, SequenceTheorems, TLAPS

-----------------------------------------------------------------------------
(* The steps of a command, as a sequence.                                      *)

Occurs(x, s) == \E i \in DOMAIN s : s[i] = x

\* Every x in s has a y after it, every y in s has an x before it.
Follows(s, x, y) == \A i \in DOMAIN s : s[i] = x => \E j \in DOMAIN s : i < j /\ s[j] = y
Precedes(s, x, y) == \A i \in DOMAIN s : s[i] = y => \E j \in DOMAIN s : j < i /\ s[j] = x

LEMMA OccursConcat ==
  ASSUME NEW S, NEW s \in Seq(S), NEW t \in Seq(S), NEW x
  PROVE  Occurs(x, s \o t) <=> Occurs(x, s) \/ Occurs(x, t)
<1>1. ASSUME Occurs(x, s) PROVE Occurs(x, s \o t)
  BY <1>1 DEF Occurs
<1>2. ASSUME Occurs(x, t) PROVE Occurs(x, s \o t)
  <2>1. PICK i \in DOMAIN t : t[i] = x
    BY <1>2 DEF Occurs
  <2>2. (s \o t)[Len(s) + i] = x /\ Len(s) + i \in DOMAIN (s \o t)
    BY <2>1
  <2> QED BY <2>2 DEF Occurs
<1>3. ASSUME Occurs(x, s \o t) PROVE Occurs(x, s) \/ Occurs(x, t)
  <2>1. PICK i \in DOMAIN (s \o t) : (s \o t)[i] = x
    BY <1>3 DEF Occurs
  <2>2. CASE i <= Len(s)
    BY <2>1, <2>2 DEF Occurs
  <2>3. CASE i > Len(s)
    <3>1. i - Len(s) \in DOMAIN t /\ t[i - Len(s)] = x
      BY <2>1, <2>3
    <3> QED BY <3>1 DEF Occurs
  <2> QED BY <2>1, <2>2, <2>3
<1> QED BY <1>1, <1>2, <1>3

LEMMA FollowsInRest ==
  ASSUME NEW S, NEW s \in Seq(S), NEW t \in Seq(S), NEW x, NEW y,
         Occurs(y, t), ~Occurs(x, t)
  PROVE  Follows(s \o t, x, y)
<1> SUFFICES ASSUME NEW i \in DOMAIN (s \o t), (s \o t)[i] = x
             PROVE  \E j \in DOMAIN (s \o t) : i < j /\ (s \o t)[j] = y
  BY DEF Follows
<1>1. PICK k \in DOMAIN t : t[k] = y
  BY DEF Occurs
<1>2. i <= Len(s)
  <2> SUFFICES ASSUME i > Len(s) PROVE FALSE
    OBVIOUS
  <2>1. i - Len(s) \in DOMAIN t /\ t[i - Len(s)] = x
    OBVIOUS
  <2> QED BY <2>1 DEF Occurs
<1>3. Len(s) + k \in DOMAIN (s \o t) /\ (s \o t)[Len(s) + k] = y /\ i < Len(s) + k
  BY <1>1, <1>2
<1> QED BY <1>3

LEMMA FollowsBehind ==
  ASSUME NEW S, NEW s \in Seq(S), NEW t \in Seq(S), NEW x, NEW y,
         ~Occurs(x, s), Follows(t, x, y)
  PROVE  Follows(s \o t, x, y)
<1> SUFFICES ASSUME NEW i \in DOMAIN (s \o t), (s \o t)[i] = x
             PROVE  \E j \in DOMAIN (s \o t) : i < j /\ (s \o t)[j] = y
  BY DEF Follows
<1>1. i > Len(s)
  BY DEF Occurs
<1>2. i - Len(s) \in DOMAIN t /\ t[i - Len(s)] = x
  BY <1>1
<1>3. PICK j \in DOMAIN t : i - Len(s) < j /\ t[j] = y
  BY <1>2 DEF Follows
<1>4. Len(s) + j \in DOMAIN (s \o t) /\ (s \o t)[Len(s) + j] = y /\ i < Len(s) + j
  BY <1>3
<1> QED BY <1>4

LEMMA PrecedesFromStart ==
  ASSUME NEW S, NEW s \in Seq(S), NEW t \in Seq(S), NEW x, NEW y,
         Occurs(x, s), ~Occurs(y, s)
  PROVE  Precedes(s \o t, x, y)
<1> SUFFICES ASSUME NEW i \in DOMAIN (s \o t), (s \o t)[i] = y
             PROVE  \E j \in DOMAIN (s \o t) : j < i /\ (s \o t)[j] = x
  BY DEF Precedes
<1>1. i > Len(s)
  BY DEF Occurs
<1>2. PICK k \in DOMAIN s : s[k] = x
  BY DEF Occurs
<1>3. k \in DOMAIN (s \o t) /\ (s \o t)[k] = x /\ k < i
  BY <1>1, <1>2
<1> QED BY <1>3

\* What is left of s once its first step is done.
LEMMA OccursTail ==
  ASSUME NEW S, NEW s \in Seq(S), s # <<>>, NEW x
  PROVE  Occurs(x, s) <=> x = Head(s) \/ Occurs(x, Tail(s))
<1>1. ASSUME Occurs(x, s), x # Head(s) PROVE Occurs(x, Tail(s))
  <2>1. PICK i \in DOMAIN s : s[i] = x
    BY <1>1 DEF Occurs
  <2>2. i # 1
    BY <1>1, <2>1
  <2>3. i - 1 \in DOMAIN Tail(s) /\ Tail(s)[i - 1] = x
    BY <2>1, <2>2
  <2> QED BY <2>3 DEF Occurs
<1>2. ASSUME Occurs(x, Tail(s)) PROVE Occurs(x, s)
  <2>1. PICK i \in DOMAIN Tail(s) : Tail(s)[i] = x
    BY <1>2 DEF Occurs
  <2>2. i + 1 \in DOMAIN s /\ s[i + 1] = x
    BY <2>1
  <2> QED BY <2>2 DEF Occurs
<1>3. Occurs(Head(s), s)
  <2>1. 1 \in DOMAIN s /\ s[1] = Head(s)
    OBVIOUS
  <2> QED BY <2>1 DEF Occurs
<1> QED BY <1>1, <1>2, <1>3

LEMMA FollowsTail ==
  ASSUME NEW S, NEW s \in Seq(S), s # <<>>, NEW x, NEW y, Follows(s, x, y)
  PROVE  Follows(Tail(s), x, y)
<1> SUFFICES ASSUME NEW i \in DOMAIN Tail(s), Tail(s)[i] = x
             PROVE  \E j \in DOMAIN Tail(s) : i < j /\ Tail(s)[j] = y
  BY DEF Follows
<1>1. i + 1 \in DOMAIN s /\ s[i + 1] = x
  OBVIOUS
<1>2. PICK j \in DOMAIN s : i + 1 < j /\ s[j] = y
  BY <1>1 DEF Follows
<1>3. j - 1 \in DOMAIN Tail(s) /\ Tail(s)[j - 1] = y /\ i < j - 1
  BY <1>2
<1> QED BY <1>3

LEMMA PrecedesTail ==
  ASSUME NEW S, NEW s \in Seq(S), s # <<>>, NEW x, NEW y, Precedes(s, x, y)
  PROVE  Head(s) # y /\ (Head(s) # x => Precedes(Tail(s), x, y))
<1>1. Head(s) # y
  BY DEF Precedes
<1>2. ASSUME Head(s) # x, NEW i \in DOMAIN Tail(s), Tail(s)[i] = y
      PROVE  \E j \in DOMAIN Tail(s) : j < i /\ Tail(s)[j] = x
  <2>1. i + 1 \in DOMAIN s /\ s[i + 1] = y
    BY <1>2
  <2>2. PICK j \in DOMAIN s : j < i + 1 /\ s[j] = x
    BY <2>1 DEF Precedes
  <2>3. j # 1
    BY <1>2, <2>2
  <2>4. j - 1 \in DOMAIN Tail(s) /\ Tail(s)[j - 1] = x /\ j - 1 < i
    BY <2>2, <2>3
  <2> QED BY <2>4
<1> QED BY <1>1, <1>2 DEF Precedes

-----------------------------------------------------------------------------
(* The steps of the commands.                                                  *)

ServiceOps == {"run", "start", "launch", "stop", "restart", "remove"}
HostOps == {"storage", "pod", "keep_pod", "pod_start", "pod_stop", "pod_restart",
            "diagnose", "purge"}
Ops == [op : ServiceOps, svc : AllServices] \cup [op : HostOps, svc : {"-"}]
On(op, s) == [op |-> op, svc |-> s]

Orders == {SERVICES, InstallOrder, CheckOrder, Reversed(SERVICES)}

LEMMA OrdersListAll ==
  ASSUME NEW order \in Orders
  PROVE  /\ \A i \in 1..5 : order[i] \in AllServices
         /\ \A s \in AllServices : \E i \in 1..5 : order[i] = s
BY DEF Orders, SERVICES, InstallOrder, CheckOrder, Reversed, AllServices

LEMMA OneStep ==
  ASSUME NEW op, NEW svc,
         \/ op \in ServiceOps /\ svc \in AllServices
         \/ op \in HostOps /\ svc = "-"
  PROVE  <<On(op, svc)>> \in Seq(Ops) /\ \A x : Occurs(x, <<On(op, svc)>>) <=> x = On(op, svc)
<1>1. On(op, svc) \in Ops
  BY DEF On, Ops
<1> HIDE DEF On
<1> QED BY <1>1 DEF Occurs

\* Each(op, order, chosen) holds the step for each of the chosen services and
\* nothing else.
LEMMA EachHolds ==
  ASSUME NEW op \in ServiceOps, NEW order \in Orders, NEW chosen \in SUBSET AllServices
  PROVE  /\ Each(op, order, chosen) \in Seq(Ops)
         /\ \A x : Occurs(x, Each(op, order, chosen)) <=> \E s \in chosen : x = On(op, s)
<1> DEFINE One(s) == IF s \in chosen THEN <<On(op, s)>> ELSE <<>>
           a == One(order[1])
           b == One(order[2])
           c == One(order[3])
           d == One(order[4])
           e == One(order[5])
<1>1. ASSUME NEW s \in AllServices
      PROVE  /\ One(s) \in Seq(Ops)
             /\ \A x : Occurs(x, One(s)) <=> s \in chosen /\ x = On(op, s)
  <2>1. CASE s \in chosen
    BY <2>1, OneStep
  <2>2. CASE s \notin chosen
    BY <2>2 DEF Occurs
  <2> QED BY <2>1, <2>2
<1>2. \A i \in 1..5 : order[i] \in AllServices
  BY OrdersListAll
<1>3. Each(op, order, chosen) = a \o b \o c \o d \o e
  BY DEF Each, On
<1> HIDE DEF One
<1>4. /\ a \in Seq(Ops) /\ b \in Seq(Ops) /\ c \in Seq(Ops)
      /\ d \in Seq(Ops) /\ e \in Seq(Ops)
  BY <1>1, <1>2
<1>5. ASSUME NEW x
      PROVE  /\ Occurs(x, a) <=> order[1] \in chosen /\ x = On(op, order[1])
             /\ Occurs(x, b) <=> order[2] \in chosen /\ x = On(op, order[2])
             /\ Occurs(x, c) <=> order[3] \in chosen /\ x = On(op, order[3])
             /\ Occurs(x, d) <=> order[4] \in chosen /\ x = On(op, order[4])
             /\ Occurs(x, e) <=> order[5] \in chosen /\ x = On(op, order[5])
  BY <1>1, <1>2
<1> HIDE DEF a, b, c, d, e
<1> DEFINE ab == a \o b
           abc == ab \o c
           abcd == abc \o d
<1>6. ab \in Seq(Ops) /\ \A x : Occurs(x, ab) <=> Occurs(x, a) \/ Occurs(x, b)
  BY <1>4, OccursConcat
<1> HIDE DEF ab
<1>7. abc \in Seq(Ops) /\ \A x : Occurs(x, abc) <=> Occurs(x, ab) \/ Occurs(x, c)
  BY <1>4, <1>6, OccursConcat
<1> HIDE DEF abc
<1>8. abcd \in Seq(Ops) /\ \A x : Occurs(x, abcd) <=> Occurs(x, abc) \/ Occurs(x, d)
  BY <1>4, <1>7, OccursConcat
<1> HIDE DEF abcd
<1>9. /\ abcd \o e \in Seq(Ops)
      /\ \A x : Occurs(x, abcd \o e) <=> Occurs(x, abcd) \/ Occurs(x, e)
  BY <1>4, <1>8, OccursConcat
<1>10. Each(op, order, chosen) = abcd \o e
  BY <1>3 DEF ab, abc, abcd
<1>11. \A s \in chosen : \/ s = order[1] \/ s = order[2] \/ s = order[3]
                         \/ s = order[4] \/ s = order[5]
  <2>1. \A s \in chosen : \E i \in 1..5 : order[i] = s
    BY OrdersListAll
  <2> QED BY <2>1
<1>12. ASSUME NEW x
       PROVE  Occurs(x, Each(op, order, chosen)) <=> \E s \in chosen : x = On(op, s)
  BY <1>5, <1>6, <1>7, <1>8, <1>9, <1>10, <1>11
<1> QED BY <1>9, <1>10, <1>12

LEMMA WantedServices == Wanted \subseteq Services /\ Services \subseteq AllServices
BY ServicesAssumption DEF Wanted

LEMMA InstallHolds ==
  /\ InstallSteps \in Seq(Ops)
  /\ \A x : Occurs(x, InstallSteps) <=>
       x = Step("storage") \/ x = Step("pod") \/ \E s \in Wanted : x = On("run", s)
  /\ \A s \in Wanted : Follows(InstallSteps, Step("pod"), On("run", s))
<1> DEFINE front == <<Step("storage"), Step("pod")>>
           runs == Each("run", InstallOrder, Wanted)
<1>1. /\ runs \in Seq(Ops)
      /\ \A x : Occurs(x, runs) <=> \E s \in Wanted : x = On("run", s)
  BY EachHolds, WantedServices DEF ServiceOps, Orders
<1>2. /\ Step("storage") \in Ops /\ Step("pod") \in Ops
      /\ \A s : Step("pod") # On("run", s)
  BY DEF Step, On, Ops, HostOps
<1>3. InstallSteps = front \o runs
  BY DEF InstallSteps
<1> HIDE DEF runs
<1>4. front \in Seq(Ops)
  BY <1>2
<1>5. \A x : Occurs(x, front) <=> x = Step("storage") \/ x = Step("pod")
  <2>1. DOMAIN front = {1, 2} /\ front[1] = Step("storage") /\ front[2] = Step("pod")
    OBVIOUS
  <2> HIDE DEF front
  <2> QED BY <2>1 DEF Occurs
<1> HIDE DEF front
<1>6. \A x : Occurs(x, front \o runs) <=> Occurs(x, front) \/ Occurs(x, runs)
  BY <1>1, <1>4, OccursConcat
<1>7. ASSUME NEW s \in Wanted PROVE Follows(front \o runs, Step("pod"), On("run", s))
  <2>1. Occurs(On("run", s), runs) /\ ~Occurs(Step("pod"), runs)
    BY <1>1, <1>2
  <2> QED BY <1>1, <1>4, <2>1, FollowsInRest
<1>8. front \o runs \in Seq(Ops)
  BY <1>1, <1>4
<1> QED BY <1>1, <1>3, <1>5, <1>6, <1>7, <1>8

LEMMA SetupHolds ==
  /\ SetupSteps \in Seq(Ops)
  /\ \A x : Occurs(x, SetupSteps) <=>
       x = Step("storage") \/ x = Step("pod") \/ \E s \in Wanted : x = On("run", s)
  /\ \A s \in Wanted : Follows(SetupSteps, Step("pod"), On("run", s))
<1> DEFINE front == <<Step("storage")>>
<1>1. front \in Seq(Ops)
  BY DEF Step, Ops, HostOps
<1>2. \A x : Occurs(x, front) <=> x = Step("storage")
  BY DEF Occurs
<1>3. SetupSteps = front \o InstallSteps
  BY DEF SetupSteps
<1>4. Step("storage") # Step("pod")
  BY DEF Step
<1> HIDE DEF front
<1>5. \A x : Occurs(x, front \o InstallSteps) <=> Occurs(x, front) \/ Occurs(x, InstallSteps)
  BY <1>1, InstallHolds, OccursConcat
<1>6. ASSUME NEW s \in Wanted
      PROVE  Follows(front \o InstallSteps, Step("pod"), On("run", s))
  <2>1. ~Occurs(Step("pod"), front)
    BY <1>2, <1>4
  <2> QED BY <1>1, <2>1, InstallHolds, FollowsBehind
<1>7. front \o InstallSteps \in Seq(Ops)
  BY <1>1, InstallHolds
<1> QED BY <1>2, <1>3, <1>5, <1>6, <1>7, InstallHolds

\* nextcloud is told to stop before its database.
LEMMA StopHolds ==
  /\ StopSteps \in Seq(Ops)
  /\ \A x : Occurs(x, StopSteps) <=> \E s \in Services : x = On("stop", s)
  /\ Precedes(StopSteps, On("stop", "nextcloud"), On("stop", "postgres"))
<1>1. /\ StopSteps \in Seq(Ops)
      /\ \A x : Occurs(x, StopSteps) <=> \E s \in Services : x = On("stop", s)
  BY EachHolds, WantedServices DEF StopSteps, ServiceOps, Orders
<1>2. Precedes(StopSteps, On("stop", "nextcloud"), On("stop", "postgres"))
  <2> DEFINE One(s) == IF s \in Services THEN <<On("stop", s)>> ELSE <<>>
             a == One("media")
             b == One("nextcloud")
             c == One("headscale")
             d == One("redis")
             e == One("postgres")
             ab == a \o b
             abc == ab \o c
             abcd == abc \o d
  <2>1. StopSteps = abcd \o e
    BY DEF StopSteps, Each, Reversed, SERVICES, On
  <2>2. ASSUME NEW s \in AllServices
        PROVE  /\ One(s) \in Seq(Ops)
               /\ \A x : Occurs(x, One(s)) => x = On("stop", s)
    <3>1. CASE s \in Services
      BY <3>1, OneStep DEF ServiceOps
    <3>2. CASE s \notin Services
      BY <3>2 DEF Occurs
    <3> QED BY <3>1, <3>2
  <2>3. Occurs(On("stop", "nextcloud"), b)
    BY ServicesAssumption DEF Occurs
  <2>4. \A s \in AllServices \ {"postgres"} : On("stop", s) # On("stop", "postgres")
    BY DEF On
  <2> HIDE DEF One
  <2>5. /\ a \in Seq(Ops) /\ b \in Seq(Ops) /\ c \in Seq(Ops) /\ d \in Seq(Ops) /\ e \in Seq(Ops)
        /\ ~Occurs(On("stop", "postgres"), a) /\ ~Occurs(On("stop", "postgres"), b)
        /\ ~Occurs(On("stop", "postgres"), c) /\ ~Occurs(On("stop", "postgres"), d)
    BY <2>2, <2>4 DEF AllServices
  <2> HIDE DEF a, b, c, d, e
  <2>6. ab \in Seq(Ops) /\ \A x : Occurs(x, ab) <=> Occurs(x, a) \/ Occurs(x, b)
    BY <2>5, OccursConcat
  <2> HIDE DEF ab
  <2>7. abc \in Seq(Ops) /\ \A x : Occurs(x, abc) <=> Occurs(x, ab) \/ Occurs(x, c)
    BY <2>5, <2>6, OccursConcat
  <2> HIDE DEF abc
  <2>8. abcd \in Seq(Ops) /\ \A x : Occurs(x, abcd) <=> Occurs(x, abc) \/ Occurs(x, d)
    BY <2>5, <2>7, OccursConcat
  <2> HIDE DEF abcd
  <2>9. /\ Occurs(On("stop", "nextcloud"), abcd)
        /\ ~Occurs(On("stop", "postgres"), abcd)
    BY <2>3, <2>5, <2>6, <2>7, <2>8
  <2>10. Precedes(abcd \o e, On("stop", "nextcloud"), On("stop", "postgres"))
    BY <2>5, <2>8, <2>9, PrecedesFromStart
  <2> QED BY <2>1, <2>10
<1> QED BY <1>1, <1>2

\* What the steps of a command may be.
OpsOf(cmd) ==
  IF cmd \in {"install", "setup", "start_install"} THEN {"storage", "pod", "run"}
  ELSE IF cmd \in {"start", "restart", "stop"} THEN {cmd}
  ELSE IF cmd = "doctor" THEN {"diagnose", "launch"}
  ELSE ServiceOps \cup HostOps

Fits(cmd, s) == s \in Seq(Ops) /\ \A x : Occurs(x, s) => x.op \in OpsOf(cmd)

LEMMA CommandsFit == \A cmd \in DOMAIN Commands : Fits(cmd, Commands[cmd])
<1> SUFFICES ASSUME NEW cmd \in DOMAIN Commands PROVE Fits(cmd, Commands[cmd])
  OBVIOUS
<1> DEFINE single(op) == <<On(op, "-")>>
<1>1. \A op \in HostOps : single(op) \in Seq(Ops) /\ \A x : Occurs(x, single(op)) <=> x = On(op, "-")
  BY OneStep
<1>2. \A op : <<Step(op)>> = single(op)
  BY DEF Step, On
<1>3. \A op \in ServiceOps, order \in Orders, chosen \in SUBSET Services :
        /\ Each(op, order, chosen) \in Seq(Ops)
        /\ \A x : Occurs(x, Each(op, order, chosen)) => x.op = op
  <2>1. \A op, s : On(op, s).op = op
    BY DEF On
  <2> QED BY <2>1, EachHolds, WantedServices
<1>4. /\ Step("storage").op = "storage" /\ Step("pod").op = "pod"
      /\ \A op, s : On(op, s).op = op
  BY DEF Step, On
<1>5. ASSUME NEW s \in Seq(Ops), NEW x, Occurs(x, s) PROVE x.op \in ServiceOps \cup HostOps
  <2>1. PICK i \in DOMAIN s : s[i] = x
    BY <1>5 DEF Occurs
  <2>2. x \in Ops
    BY <2>1
  <2> QED BY <2>2 DEF Ops
<1>6. Wanted \in SUBSET Services /\ BackendServices \in SUBSET Services
  BY WantedServices DEF BackendServices
<1>7. CASE cmd \in {"install", "setup"}
  <2>1. Commands[cmd] \in {InstallSteps, SetupSteps}
    BY <1>7 DEF Commands
  <2> QED BY <1>4, <1>7, <2>1, InstallHolds, SetupHolds DEF Fits, OpsOf
<1>8. CASE cmd \in {"start", "restart", "stop"}
  <2>1. /\ cmd = "start" => Commands[cmd] = StartSteps
        /\ cmd = "restart" => Commands[cmd] = RestartSteps
        /\ cmd = "stop" => Commands[cmd] = StopSteps
    BY <1>8 DEF Commands
  <2>2. /\ SERVICES \in Orders /\ Reversed(SERVICES) \in Orders
        /\ cmd \in ServiceOps /\ OpsOf(cmd) = {cmd}
    BY <1>8 DEF Orders, ServiceOps, OpsOf
  <2> QED BY <1>3, <1>6, <1>8, <2>1, <2>2 DEF Fits, StartSteps, RestartSteps, StopSteps
<1>9. CASE cmd = "doctor"
  <2>1. Commands[cmd] = single("diagnose")
    BY <1>2, <1>9 DEF Commands
  <2> QED BY <1>1, <1>4, <1>9, <2>1 DEF Fits, OpsOf, HostOps
<1>10. CASE cmd \in {"uninstall", "purge", "backend_setup", "backend_start",
                     "backend_stop", "backend_restart"}
  <2>1. UninstallSteps \in Seq(Ops)
    BY <1>3 DEF UninstallSteps, ServiceOps, Orders
  <2>2. PurgeSteps \in Seq(Ops)
    BY <1>1, <1>2, <2>1 DEF PurgeSteps, HostOps
  <2>3. /\ Each("launch", SERVICES, BackendServices) \in Seq(Ops)
        /\ Each("stop", Reversed(SERVICES), BackendServices) \in Seq(Ops)
        /\ Each("restart", SERVICES, BackendServices) \in Seq(Ops)
    BY <1>3, <1>6 DEF ServiceOps, Orders
  <2>4. /\ <<Step("keep_pod")>> \in Seq(Ops) /\ <<Step("pod_start")>> \in Seq(Ops)
        /\ <<Step("pod_stop")>> \in Seq(Ops) /\ <<Step("pod_restart")>> \in Seq(Ops)
    BY <1>1, <1>2 DEF HostOps
  <2>5. BackendStart \in Seq(Ops) /\ BackendStop \in Seq(Ops) /\ BackendRestart \in Seq(Ops)
    BY <2>3, <2>4 DEF BackendStart, BackendStop, BackendRestart
  <2>6. Commands[cmd] \in {UninstallSteps, PurgeSteps, <<Step("keep_pod")>>, BackendStart,
                           BackendStop, BackendRestart}
    BY <1>10 DEF Commands
  <2>7. Commands[cmd] \in Seq(Ops)
    BY <2>1, <2>2, <2>4, <2>5, <2>6
  <2>8. OpsOf(cmd) = ServiceOps \cup HostOps
    BY <1>10 DEF OpsOf
  <2> QED BY <1>5, <2>7, <2>8 DEF Fits
<1> QED BY <1>7, <1>8, <1>9, <1>10 DEF Commands

-----------------------------------------------------------------------------
(* The invariant.  A command whose engine calls have all succeeded so far, and *)
(* during which no container has died, owes nothing but its pending steps.     *)

CommandNames ==
  {"install", "setup", "start_install", "start", "stop", "restart", "doctor", "uninstall",
   "purge", "backend_setup", "backend_start", "backend_stop", "backend_restart"}

DeploymentTypeOK ==
  /\ engine \in {"podman", "docker"}
  /\ media \in BOOLEAN
  /\ pod \in {"none", "install", "backend"}
  /\ cont \in [Services -> {"absent", "exited", "running"}]
  /\ run \in [cmd : CommandNames \cup {"none"}, todo : Seq(Ops), rc : {0, 1},
              ok : BOOLEAN, calm : BOOLEAN]

Pending(x) == Occurs(x, run.todo)

\* Each enabled service is running, or its step is still to come.
Promised(op) == \A s \in Wanted : cont[s] = "running" \/ Pending(On(op, s))

\* install, setup, a start that became an install: what a new pod takes away is launched after it.
InstallOwes ==
  run.cmd \in {"install", "setup", "start_install"} /\ run.ok /\ run.calm =>
    /\ Promised("run")
    /\ \A s \in Wanted : Follows(run.todo, Step("pod"), On("run", s))
    /\ engine = "podman" => pod = "install" \/ Pending(Step("pod"))

\* start, restart: a failed call is reported.
StartOwes ==
  \A op \in {"start", "restart"} : run.cmd = op =>
    /\ run.ok <=> run.rc = 0
    /\ run.ok /\ run.calm => Promised(op)

DoctorOwes ==
  run.cmd = "doctor" /\ run.calm /\ ~Pending(Step("diagnose")) =>
    /\ run.ok => Promised("launch")
    /\ run.rc = 0 => AllWantedRunning

StopOwes ==
  run.cmd = "stop" /\ run.ok /\ run.calm =>
    \/ cont["nextcloud"] # "running"
    \/ Precedes(run.todo, On("stop", "nextcloud"), On("stop", "postgres"))

DeploymentInv ==
  /\ DeploymentTypeOK
  /\ Fits(run.cmd, run.todo)
  /\ InstallOwes /\ StartOwes /\ DoctorOwes /\ StopOwes

LEMMA InitDeployment == DeploymentInit => DeploymentInv
<1> SUFFICES ASSUME DeploymentInit PROVE DeploymentInv
  OBVIOUS
<1>1. run = [cmd |-> "none", todo |-> <<>>, rc |-> 0, ok |-> TRUE, calm |-> TRUE]
  BY DEF DeploymentInit, NoRun
<1>2. DeploymentTypeOK
  BY <1>1 DEF DeploymentInit, DeploymentTypeOK
<1>3. Fits(run.cmd, run.todo)
  BY <1>1 DEF Fits, Occurs
<1> QED BY <1>1, <1>2, <1>3 DEF DeploymentInv, InstallOwes, StartOwes, DoctorOwes, StopOwes

\* The step at hand is one the command has.
LEMMA HeadFits ==
  ASSUME DeploymentInv, run.todo # <<>>
  PROVE  /\ Head(run.todo) \in Ops /\ Head(run.todo).op \in OpsOf(run.cmd)
         /\ Head(run.todo).op \in HostOps => Head(run.todo) = Step(Head(run.todo).op)
         /\ Head(run.todo).op \in ServiceOps => Head(run.todo) = On(Head(run.todo).op, Target)
<1>1. run.todo \in Seq(Ops)
  BY DEF DeploymentInv, DeploymentTypeOK
<1>2. Occurs(Head(run.todo), run.todo)
  BY <1>1, OccursTail
<1>3. Head(run.todo) \in Ops /\ Head(run.todo).op \in OpsOf(run.cmd)
  BY <1>1, <1>2 DEF DeploymentInv, Fits
<1> QED BY <1>3 DEF Ops, HostOps, ServiceOps, Step, On, Target

\* A step that is done, well or badly, leaves the others as they were.
LEMMA AfterStep ==
  ASSUME DeploymentInv, run.todo # <<>>, NEW good \in BOOLEAN, Done(good)
  PROVE  /\ run' = [cmd |-> run.cmd, todo |-> Tail(run.todo), rc |-> run'.rc,
                    ok |-> run.ok /\ good, calm |-> run.calm]
         /\ run'.rc = IF good \/ run.cmd \notin Reporting THEN run.rc ELSE 1
         /\ run'.rc \in {0, 1} /\ run'.todo \in Seq(Ops)
         /\ Fits(run'.cmd, run'.todo)
         /\ \A x : Pending(x) <=> x = Head(run.todo) \/ Occurs(x, run'.todo)
<1>1. /\ run \in [cmd : CommandNames \cup {"none"}, todo : Seq(Ops), rc : {0, 1},
                  ok : BOOLEAN, calm : BOOLEAN]
      /\ run.todo \in Seq(Ops) /\ run.rc \in {0, 1}
  BY DEF DeploymentInv, DeploymentTypeOK
<1>2. run' = [cmd |-> run.cmd, todo |-> Tail(run.todo),
              rc |-> IF good \/ run.cmd \notin Reporting THEN run.rc ELSE 1,
              ok |-> run.ok /\ good, calm |-> run.calm]
  BY <1>1 DEF Done
<1>3. /\ run'.rc = IF good \/ run.cmd \notin Reporting THEN run.rc ELSE 1
      /\ run'.todo = Tail(run.todo) /\ run'.cmd = run.cmd
  BY <1>2
<1>4. Tail(run.todo) \in Seq(Ops)
  BY <1>1
<1>5. \A x : Occurs(x, run.todo) <=> x = Head(run.todo) \/ Occurs(x, Tail(run.todo))
  BY <1>1, OccursTail
<1>6. Fits(run.cmd, Tail(run.todo))
  BY <1>4, <1>5 DEF DeploymentInv, Fits
<1> QED BY <1>1, <1>2, <1>3, <1>4, <1>5, <1>6 DEF Pending

\* A call that fails costs a command its promises, except that doctor's exit
\* status keeps telling of the services it saw running.
LEMMA FailedStep ==
  ASSUME DeploymentInv, run.todo # <<>>, Done(FALSE),
         engine' = engine, media' = media, pod' \in {"none", "install", "backend"},
         cont' \in [Services -> {"absent", "exited", "running"}],
         run.cmd = "doctor" => cont' = cont /\ Head(run.todo).op # "diagnose"
  PROVE  DeploymentInv'
<1>1. /\ run' = [cmd |-> run.cmd, todo |-> Tail(run.todo), rc |-> run'.rc,
                 ok |-> FALSE, calm |-> run.calm]
      /\ run'.rc = IF run.cmd \notin Reporting THEN run.rc ELSE 1
      /\ run'.rc \in {0, 1} /\ run'.todo \in Seq(Ops)
      /\ Fits(run'.cmd, run'.todo)
      /\ \A x : Pending(x) <=> x = Head(run.todo) \/ Occurs(x, run'.todo)
  BY AfterStep
<1>2. run'.cmd = run.cmd /\ run'.ok = FALSE /\ run'.calm = run.calm
  BY <1>1
<1>3. DeploymentTypeOK'
  <2>1. run.cmd \in CommandNames \cup {"none"} /\ run.calm \in BOOLEAN
    BY DEF DeploymentInv, DeploymentTypeOK
  <2>2. run' \in [cmd : CommandNames \cup {"none"}, todo : Seq(Ops), rc : {0, 1},
                  ok : BOOLEAN, calm : BOOLEAN]
    <3>1. Tail(run.todo) \in Seq(Ops)
      BY DEF DeploymentInv, DeploymentTypeOK
    <3>2. ASSUME NEW rc \in {0, 1}
          PROVE  [cmd |-> run.cmd, todo |-> Tail(run.todo), rc |-> rc, ok |-> FALSE,
                  calm |-> run.calm]
                 \in [cmd : CommandNames \cup {"none"}, todo : Seq(Ops), rc : {0, 1},
                      ok : BOOLEAN, calm : BOOLEAN]
      BY <2>1, <3>1
    <3> QED BY <1>1, <3>2
  <2> QED BY <2>2 DEF DeploymentInv, DeploymentTypeOK
<1>4. InstallOwes' /\ StopOwes'
  BY <1>2 DEF InstallOwes, StopOwes
<1>5. StartOwes'
  BY <1>1, <1>2 DEF StartOwes, Reporting
<1>6. DoctorOwes'
  <2> SUFFICES ASSUME run.cmd = "doctor", run.calm, ~Occurs(Step("diagnose"), run'.todo)
               PROVE  run'.rc = 0 => AllWantedRunning'
    BY <1>2 DEF DoctorOwes, Pending
  <2>1. ~Pending(Step("diagnose"))
    BY <1>1 DEF Step
  <2>2. run'.rc = run.rc
    BY <1>1 DEF Reporting
  <2> QED BY <2>1, <2>2 DEF DeploymentInv, DoctorOwes, AllWantedRunning, Wanted
<1> QED BY <1>1, <1>2, <1>3, <1>4, <1>5, <1>6 DEF DeploymentInv

\* A call that succeeds, and what it has to do for a command's promises.
LEMMA GoodStep ==
  ASSUME DeploymentInv, run.todo # <<>>, Done(TRUE),
         engine' = engine, media' = media, pod' \in {"none", "install", "backend"},
         cont' \in [Services -> {"absent", "exited", "running"}],
         run.cmd \in {"install", "setup", "start_install"} /\ Head(run.todo).op # "pod" =>
           /\ pod' = pod
           /\ \A s \in Services : cont[s] = "running" => cont'[s] = "running",
         Head(run.todo) = Step("pod") => pod' = "install" \/ engine # "podman",
         run.cmd \in {"start", "restart", "doctor"} =>
           \A s \in Services : cont[s] = "running" => cont'[s] = "running",
         \A s \in Services, op \in {"run", "start", "restart", "launch"} :
           Head(run.todo) = On(op, s) => cont'[s] = "running",
         run.cmd = "stop" => 
           /\ cont["nextcloud"] # "running" => cont'["nextcloud"] # "running"
           /\ Head(run.todo) = On("stop", "nextcloud") => cont'["nextcloud"] # "running",
         Head(run.todo).op # "diagnose"
  PROVE  DeploymentInv'
<1>1. /\ run' = [cmd |-> run.cmd, todo |-> Tail(run.todo), rc |-> run'.rc,
                 ok |-> run.ok, calm |-> run.calm]
      /\ run'.rc = run.rc
      /\ run'.rc \in {0, 1} /\ run'.todo \in Seq(Ops)
      /\ Fits(run'.cmd, run'.todo)
      /\ \A x : Pending(x) <=> x = Head(run.todo) \/ Occurs(x, run'.todo)
  <2>1. run.ok \in BOOLEAN
    BY DEF DeploymentInv, DeploymentTypeOK
  <2>2. (run.ok /\ TRUE) = run.ok
    BY <2>1
  <2> QED BY <2>2, AfterStep
<1>2. /\ run'.cmd = run.cmd /\ run'.ok = run.ok /\ run'.calm = run.calm
      /\ run'.todo = Tail(run.todo) /\ run.todo \in Seq(Ops)
  BY <1>1 DEF DeploymentInv, DeploymentTypeOK
<1>3. DeploymentTypeOK'
  BY <1>1 DEF DeploymentInv, DeploymentTypeOK
<1>4. Wanted' = Wanted /\ Wanted \subseteq Services
  BY DEF Wanted
<1>5. InstallOwes'
  <2> SUFFICES ASSUME run.cmd \in {"install", "setup", "start_install"}, run.ok, run.calm
               PROVE  InstallOwes'
    BY <1>2 DEF InstallOwes
  <2>1. /\ Promised("run")
        /\ \A s \in Wanted : Follows(run.todo, Step("pod"), On("run", s))
        /\ engine = "podman" => pod = "install" \/ Pending(Step("pod"))
    BY DEF DeploymentInv, InstallOwes
  <2>2. \A s \in Wanted : Follows(run'.todo, Step("pod"), On("run", s))
    BY <1>2, <2>1, FollowsTail
  <2>3. CASE Head(run.todo).op = "pod"
    <3>1. Head(run.todo) = Step("pod") /\ Pending(Step("pod"))
      BY <1>1, <2>3, HeadFits DEF HostOps
    <3>2. ASSUME NEW s \in Wanted PROVE Occurs(On("run", s), run'.todo)
      <4>1. Pending(On("run", s))
        BY <2>1, <3>1 DEF Follows, Occurs, Pending
      <4> QED BY <1>1, <3>1, <4>1 DEF On, Step
    <3> QED BY <1>4, <2>2, <3>1, <3>2 DEF InstallOwes, Promised, Pending
  <2>4. CASE Head(run.todo).op # "pod"
    <3>1. Head(run.todo) # Step("pod")
      BY <2>4 DEF Step
    <3> QED BY <1>1, <1>4, <2>1, <2>2, <2>4, <3>1 DEF InstallOwes, Promised, Pending
  <2> QED BY <2>3, <2>4
<1>6. StartOwes'
  BY <1>1, <1>2, <1>4 DEF DeploymentInv, StartOwes, Promised, Pending
<1>7. DoctorOwes'
  <2> SUFFICES ASSUME run.cmd = "doctor", run.calm, ~Occurs(Step("diagnose"), run'.todo)
               PROVE  DoctorOwes'
    BY <1>2 DEF DoctorOwes, Pending
  <2>1. ~Pending(Step("diagnose"))
    BY <1>1 DEF Step
  <2>2. (run.ok => Promised("launch")) /\ (run.rc = 0 => AllWantedRunning)
    BY <2>1 DEF DeploymentInv, DoctorOwes
  <2> QED BY <1>1, <1>2, <1>4, <2>2 DEF DoctorOwes, Promised, Pending, AllWantedRunning
<1>8. StopOwes'
  <2> SUFFICES ASSUME run.cmd = "stop", run.ok, run.calm, cont'["nextcloud"] = "running"
               PROVE  Precedes(run'.todo, On("stop", "nextcloud"), On("stop", "postgres"))
    BY <1>2 DEF StopOwes
  <2>1. Precedes(run.todo, On("stop", "nextcloud"), On("stop", "postgres"))
    BY DEF DeploymentInv, StopOwes
  <2> QED BY <1>2, <2>1, PrecedesTail
<1> QED BY <1>1, <1>2, <1>3, <1>5, <1>6, <1>7, <1>8 DEF DeploymentInv

LEMMA StepDeployment == DeploymentInv /\ CommandStep => DeploymentInv'
<1> SUFFICES ASSUME DeploymentInv, CommandStep PROVE DeploymentInv'
  OBVIOUS
<1> DEFINE op == Head(run.todo).op
           States == {"absent", "exited", "running"}
<1>1. /\ cont \in [Services -> States] /\ pod \in {"none", "install", "backend"}
      /\ {"postgres", "nextcloud", "media"} \subseteq Services
  BY ServicesAssumption DEF DeploymentInv, DeploymentTypeOK
<1>2. run.todo # <<>>
  BY DEF CommandStep, InitializeStorage, CreatePod, RunContainer, StartMissing,
         StartContainer, StopContainer, RestartContainer, RemoveContainer, PodOperation,
         Diagnose, Purge, Now
<1>3. /\ Head(run.todo) \in Ops /\ op \in OpsOf(run.cmd)
      /\ op \in HostOps => Head(run.todo) = Step(op)
      /\ op \in ServiceOps => Head(run.todo) = On(op, Target)
  BY <1>2, HeadFits
<1>4. ASSUME NEW o, NEW s, Head(run.todo) = On(o, s) PROVE op = o /\ Target = s
  BY <1>4 DEF On, Target
<1> HIDE DEF States
<1>5. CASE InitializeStorage
  <2>1. /\ op = "storage" /\ engine' = engine /\ media' = media /\ pod' = pod /\ cont' = cont
        /\ run.cmd \notin {"start", "restart", "doctor", "stop"}
    BY <1>3, <1>5 DEF InitializeStorage, Now, OpsOf
  <2>2. CASE Done(TRUE)
    <3>1. Head(run.todo) # Step("pod")
      BY <2>1 DEF Step
    <3>2. \A s \in Services, o \in {"run", "start", "restart", "launch"} :
            Head(run.todo) # On(o, s)
      BY <1>4, <2>1
    <3> QED BY <1>1, <1>2, <2>1, <2>2, <3>1, <3>2, GoodStep DEF States
  <2>3. CASE run' = [run EXCEPT !.todo = <<>>, !.ok = FALSE, !.rc = 1]
    <3>1. run \in [cmd : CommandNames \cup {"none"}, todo : Seq(Ops), rc : {0, 1},
                   ok : BOOLEAN, calm : BOOLEAN]
      BY DEF DeploymentInv, DeploymentTypeOK
    <3>2. /\ run'.cmd = run.cmd /\ run'.ok = FALSE /\ run'.todo = <<>>
          /\ run' \in [cmd : CommandNames \cup {"none"}, todo : Seq(Ops), rc : {0, 1},
                       ok : BOOLEAN, calm : BOOLEAN]
      <4>1. run' = [cmd |-> run.cmd, todo |-> <<>>, rc |-> 1, ok |-> FALSE,
                    calm |-> run.calm]
        BY <2>3, <3>1
      <4>2. <<>> \in Seq(Ops) /\ run.calm \in BOOLEAN /\ run.cmd \in CommandNames \cup {"none"}
        BY <3>1
      <4>3. run'.cmd = run.cmd /\ run'.ok = FALSE /\ run'.todo = <<>>
        BY <4>1
      <4>4. run' \in [cmd : CommandNames \cup {"none"}, todo : Seq(Ops), rc : {0, 1},
                     ok : BOOLEAN, calm : BOOLEAN]
        BY <4>1, <4>2
      <4> QED BY <4>3, <4>4
    <3>3. DeploymentTypeOK'
      BY <2>1, <3>2 DEF DeploymentInv, DeploymentTypeOK
    <3>4. Fits(run'.cmd, run'.todo)
      BY <3>2 DEF Fits, Occurs
    <3> QED BY <2>1, <3>2, <3>3, <3>4
        DEF DeploymentInv, InstallOwes, StartOwes, DoctorOwes, StopOwes
  <2> QED BY <1>5, <2>2, <2>3 DEF InitializeStorage
<1>6. CASE CreatePod
  <2>1. /\ op \in {"pod", "keep_pod"} /\ engine' = engine /\ media' = media
        /\ run.cmd \notin {"start", "restart", "doctor", "stop"}
        /\ op = "keep_pod" => run.cmd \notin {"install", "setup", "start_install"}
    BY <1>3, <1>6 DEF CreatePod, Now, OpsOf
  <2>2. cont' \in [Services -> States] /\ pod' \in {"none", "install", "backend"}
    BY <1>1, <1>6 DEF CreatePod, States
  <2>3. \A s \in Services, o \in {"run", "start", "restart", "launch"} :
          Head(run.todo) # On(o, s)
    BY <1>4, <2>1
  <2>4. CASE Done(TRUE) /\ (op = "pod" => pod' = "install" \/ engine # "podman")
    <3>1. op # "diagnose" /\ (Head(run.todo) = Step("pod") => op = "pod")
      BY <2>1 DEF Step
    <3> QED BY <1>1, <1>2, <2>1, <2>2, <2>3, <2>4, <3>1, GoodStep DEF States
  <2>5. CASE Done(FALSE)
    BY <1>2, <2>1, <2>2, <2>5, FailedStep DEF States
  <2>6. \/ Done(FALSE)
        \/ Done(TRUE) /\ (op = "pod" => pod' = "install" \/ engine # "podman")
    BY <1>1, <1>2, <1>6, <2>1 DEF CreatePod, PodReady, Now, DeploymentInv, DeploymentTypeOK
  <2> QED BY <2>4, <2>5, <2>6
<1>7. CASE RunContainer
  <2>1. /\ op = "run" /\ engine' = engine /\ media' = media /\ pod' = pod
        /\ run.cmd \notin {"start", "restart", "doctor", "stop"}
    BY <1>3, <1>7 DEF RunContainer, Now, OpsOf
  <2>2. CASE Done(TRUE) /\ cont' = [cont EXCEPT ![Target] = "running"]
    <3>1. /\ cont' \in [Services -> States]
          /\ \A s \in Services : cont[s] = "running" => cont'[s] = "running"
          /\ \A s \in Services, o \in {"run", "start", "restart", "launch"} :
               Head(run.todo) = On(o, s) => cont'[s] = "running"
      BY <1>1, <1>4, <2>2 DEF States
    <3>2. Head(run.todo) # Step("pod")
      BY <2>1 DEF Step
    <3> QED BY <1>1, <1>2, <2>1, <2>2, <3>1, <3>2, GoodStep DEF States
  <2>3. CASE Done(FALSE)
    <3>1. cont' \in [Services -> States]
      BY <1>1, <1>7 DEF RunContainer, States
    <3> QED BY <1>1, <1>2, <2>1, <2>3, <3>1, FailedStep DEF States
  <2> QED BY <1>7, <2>2, <2>3 DEF RunContainer
<1>8. CASE StartMissing
  <2>1. PICK inspected \in BOOLEAN :
          run' = [run EXCEPT !.cmd = "start_install", !.todo = InstallSteps,
                             !.ok = @ /\ inspected, !.rc = 0]
    BY <1>8 DEF StartMissing
  <2>2. UNCHANGED <<engine, media, pod, cont>>
    BY <1>8 DEF StartMissing
  <2>3. /\ run'.cmd = "start_install" /\ run'.todo = InstallSteps /\ DeploymentTypeOK'
    BY <2>1, <2>2, InstallHolds DEF DeploymentInv, DeploymentTypeOK, CommandNames
  <2>4. Fits(run'.cmd, run'.todo)
    <3>1. "install" \in DOMAIN Commands /\ Commands["install"] = InstallSteps
      BY DEF Commands
    <3>2. Fits("install", InstallSteps)
      BY <3>1, CommandsFit
    <3> QED BY <2>3, <3>2 DEF Fits, OpsOf
  <2>5. /\ \A s \in Wanted : Occurs(On("run", s), InstallSteps)
        /\ Occurs(Step("pod"), InstallSteps)
        /\ \A s \in Wanted : Follows(InstallSteps, Step("pod"), On("run", s))
        /\ Wanted' = Wanted
    BY <2>2, InstallHolds DEF Wanted
  <2>6. InstallOwes'
    BY <2>3, <2>5 DEF InstallOwes, Promised, Pending
  <2> QED BY <2>3, <2>4, <2>6 DEF DeploymentInv, StartOwes, DoctorOwes, StopOwes
<1>9. CASE StartContainer
  <2>1. /\ op \in {"start", "launch"} /\ engine' = engine /\ media' = media /\ pod' = pod
        /\ run.cmd \notin {"install", "setup", "start_install", "stop", "restart"}
    BY <1>3, <1>9 DEF StartContainer, Now, OpsOf
  <2>2. CASE Done(TRUE) /\ cont' = [cont EXCEPT ![Target] = "running"]
    <3>1. /\ cont' \in [Services -> States]
          /\ \A s \in Services : cont[s] = "running" => cont'[s] = "running"
          /\ \A s \in Services, o \in {"run", "start", "restart", "launch"} :
               Head(run.todo) = On(o, s) => cont'[s] = "running"
      BY <1>1, <1>4, <2>2 DEF States
    <3>2. Head(run.todo) # Step("pod")
      BY <2>1 DEF Step
    <3> QED BY <1>1, <1>2, <2>1, <2>2, <3>1, <3>2, GoodStep DEF States
  <2>3. CASE Done(FALSE) /\ cont' = cont
    BY <1>1, <1>2, <2>1, <2>3, FailedStep DEF States
  <2> QED BY <1>9, <2>2, <2>3 DEF StartContainer
<1>10. CASE StopContainer
  <2>1. /\ op = "stop" /\ engine' = engine /\ media' = media /\ pod' = pod
        /\ run.cmd \notin {"install", "setup", "start_install", "start", "restart", "doctor"}
    BY <1>3, <1>10 DEF StopContainer, Now, OpsOf
  <2>2. CASE Done(TRUE) /\ cont' = [cont EXCEPT ![Target] = "exited"]
    <3>1. /\ cont' \in [Services -> States]
          /\ cont["nextcloud"] # "running" => cont'["nextcloud"] # "running"
          /\ Head(run.todo) = On("stop", "nextcloud") => cont'["nextcloud"] # "running"
      BY <1>1, <1>4, <2>2 DEF States
    <3>2. /\ Head(run.todo) # Step("pod")
          /\ \A s \in Services, o \in {"run", "start", "restart", "launch"} :
               Head(run.todo) # On(o, s)
      BY <1>4, <2>1 DEF Step
    <3> QED BY <1>1, <1>2, <2>1, <2>2, <3>1, <3>2, GoodStep DEF States
  <2>3. CASE Done(FALSE) /\ cont' = cont
    BY <1>1, <1>2, <2>1, <2>3, FailedStep DEF States
  <2> QED BY <1>10, <2>2, <2>3 DEF StopContainer
<1>11. CASE RestartContainer
  <2>1. /\ op = "restart" /\ engine' = engine /\ media' = media /\ pod' = pod
        /\ run.cmd \notin {"install", "setup", "start_install", "start", "doctor", "stop"}
    BY <1>3, <1>11 DEF RestartContainer, Now, OpsOf
  <2>2. CASE Done(TRUE) /\ cont' = [cont EXCEPT ![Target] = "running"]
    <3>1. /\ cont' \in [Services -> States]
          /\ \A s \in Services : cont[s] = "running" => cont'[s] = "running"
          /\ \A s \in Services, o \in {"run", "start", "restart", "launch"} :
               Head(run.todo) = On(o, s) => cont'[s] = "running"
      BY <1>1, <1>4, <2>2 DEF States
    <3>2. Head(run.todo) # Step("pod")
      BY <2>1 DEF Step
    <3> QED BY <1>1, <1>2, <2>1, <2>2, <3>1, <3>2, GoodStep DEF States
  <2>3. CASE Done(FALSE)
    <3>1. cont' \in [Services -> States]
      BY <1>1, <1>11 DEF RestartContainer, States
    <3> QED BY <1>1, <1>2, <2>1, <2>3, <3>1, FailedStep DEF States
  <2> QED BY <1>11, <2>2, <2>3 DEF RestartContainer
<1>12. CASE RemoveContainer \/ PodOperation \/ Purge
  <2>1. /\ op \in {"remove", "pod_start", "pod_stop", "pod_restart", "purge"}
        /\ engine' = engine /\ media' = media /\ pod' = pod
        /\ run.cmd \notin {"install", "setup", "start_install", "start", "restart", "doctor",
                          "stop"}
    BY <1>3, <1>12 DEF RemoveContainer, PodOperation, Purge, Now, OpsOf
  <2>2. cont' \in [Services -> States]
    BY <1>1, <1>12 DEF RemoveContainer, PodOperation, Purge, States
  <2>3. CASE Done(TRUE)
    <3>1. /\ Head(run.todo) # Step("pod")
          /\ \A s \in Services, o \in {"run", "start", "restart", "launch"} :
               Head(run.todo) # On(o, s)
      BY <1>4, <2>1 DEF Step
    <3> QED BY <1>1, <1>2, <2>1, <2>2, <2>3, <3>1, GoodStep DEF States
  <2>4. CASE Done(FALSE)
    BY <1>1, <1>2, <2>1, <2>2, <2>4, FailedStep DEF States
  <2> QED BY <1>12, <2>3, <2>4 DEF RemoveContainer, PodOperation, Purge
<1>13. CASE Diagnose
  <2>1. PICK status \in {0, 1} :
          /\ NotRunning # {} => status = 1
          /\ run' = [run EXCEPT !.todo = Each("launch", CheckOrder, NotRunning),
                                !.rc = status]
    BY <1>13 DEF Diagnose
  <2>2. /\ UNCHANGED <<engine, media, pod, cont>>
        /\ run.cmd \notin {"install", "setup", "start_install", "start", "restart", "stop"}
    BY <1>3, <1>13 DEF Diagnose, Now, OpsOf
  <2> DEFINE launches == Each("launch", CheckOrder, NotRunning)
  <2>3. /\ launches \in Seq(Ops)
        /\ \A x : Occurs(x, launches) <=> \E s \in NotRunning : x = On("launch", s)
    BY EachHolds, WantedServices DEF ServiceOps, Orders, NotRunning
  <2> HIDE DEF launches
  <2>4. /\ run' = [run EXCEPT !.todo = launches, !.rc = status]
        /\ run \in [cmd : CommandNames \cup {"none"}, todo : Seq(Ops), rc : {0, 1},
                    ok : BOOLEAN, calm : BOOLEAN]
    BY <2>1 DEF DeploymentInv, DeploymentTypeOK, launches
  <2>5. /\ run'.cmd = run.cmd /\ run'.rc = status /\ run'.todo = launches
        /\ run' \in [cmd : CommandNames \cup {"none"}, todo : Seq(Ops), rc : {0, 1},
                     ok : BOOLEAN, calm : BOOLEAN]
    BY <2>3, <2>4
  <2>6. DeploymentTypeOK'
    BY <2>2, <2>5 DEF DeploymentInv, DeploymentTypeOK
  <2>7. Fits(run'.cmd, run'.todo)
    BY <2>2, <2>3, <2>5 DEF Fits, OpsOf, On, ServiceOps
  <2>8. Promised("launch")'
    BY <2>2, <2>3, <2>5 DEF Promised, Pending, NotRunning, Wanted
  <2>9. run'.rc = 0 => AllWantedRunning'
    BY <2>1, <2>2, <2>5 DEF AllWantedRunning, NotRunning, Wanted
  <2> QED BY <2>2, <2>5, <2>6, <2>7, <2>8, <2>9
      DEF DeploymentInv, InstallOwes, StartOwes, DoctorOwes, StopOwes
<1> QED
  BY <1>5, <1>6, <1>7, <1>8, <1>9, <1>10, <1>11, <1>12, <1>13 DEF CommandStep

\* A command starts with everything it owes still to be done.
LEMMA BeginDeployment ==
  ASSUME DeploymentInv, NEW cmd \in DOMAIN Commands, Begin(cmd)
  PROVE  DeploymentInv'
<1>1. /\ run' = [cmd |-> cmd, todo |-> Commands[cmd], rc |-> 0, ok |-> TRUE, calm |-> TRUE]
      /\ UNCHANGED <<engine, media, pod, cont>>
  BY DEF Begin, NoRun
<1>2. /\ run'.cmd = cmd /\ run'.todo = Commands[cmd] /\ run'.rc = 0
      /\ run'.ok = TRUE /\ run'.calm = TRUE
  BY <1>1
<1>3. Fits(cmd, Commands[cmd]) /\ cmd \in CommandNames
  BY CommandsFit DEF Commands, CommandNames
<1>4. Wanted' = Wanted
  BY <1>1 DEF Wanted
<1>5. DeploymentTypeOK'
  <2>1. Commands[cmd] \in Seq(Ops)
    BY <1>3 DEF Fits
  <2>2. run' \in [cmd : CommandNames \cup {"none"}, todo : Seq(Ops), rc : {0, 1},
                  ok : BOOLEAN, calm : BOOLEAN]
    BY <1>1, <1>3, <2>1
  <2> QED BY <1>1, <2>2 DEF DeploymentInv, DeploymentTypeOK
<1>6. Fits(run'.cmd, run'.todo)
  BY <1>2, <1>3
<1>7. CASE cmd \in {"install", "setup"}
  <2>1. run'.todo \in {InstallSteps, SetupSteps}
    BY <1>2, <1>7 DEF Commands
  <2>2. /\ \A s \in Wanted : Occurs(On("run", s), run'.todo)
        /\ Occurs(Step("pod"), run'.todo)
        /\ \A s \in Wanted : Follows(run'.todo, Step("pod"), On("run", s))
    BY <2>1, InstallHolds, SetupHolds
  <2>3. InstallOwes'
    BY <1>4, <2>2 DEF InstallOwes, Promised, Pending
  <2> QED BY <1>2, <1>5, <1>6, <1>7, <2>3 DEF DeploymentInv, StartOwes, DoctorOwes, StopOwes
<1>8. CASE cmd \in {"start", "restart"}
  <2>1. run'.todo = Each(cmd, SERVICES, Wanted)
    BY <1>2, <1>8 DEF Commands, StartSteps, RestartSteps
  <2>2. \A s \in Wanted : Occurs(On(cmd, s), run'.todo)
    BY <1>8, <2>1, EachHolds, WantedServices DEF ServiceOps, Orders
  <2>3. StartOwes'
    BY <1>2, <1>4, <2>2 DEF StartOwes, Promised, Pending
  <2> QED BY <1>2, <1>5, <1>6, <1>8, <2>3 DEF DeploymentInv, InstallOwes, DoctorOwes, StopOwes
<1>9. CASE cmd = "doctor"
  <2>1. run'.todo = <<Step("diagnose")>>
    BY <1>2, <1>9 DEF Commands
  <2>2. Occurs(Step("diagnose"), run'.todo)
    BY <2>1 DEF Occurs
  <2>3. DoctorOwes'
    BY <2>2 DEF DoctorOwes, Pending
  <2> QED BY <1>2, <1>5, <1>6, <1>9, <2>3 DEF DeploymentInv, InstallOwes, StartOwes, StopOwes
<1>10. CASE cmd = "stop"
  <2>1. run'.todo = StopSteps
    BY <1>2, <1>10 DEF Commands
  <2>2. StopOwes'
    BY <2>1, StopHolds DEF StopOwes
  <2> QED BY <1>2, <1>5, <1>6, <1>10, <2>2 DEF DeploymentInv, InstallOwes, StartOwes, DoctorOwes
<1>11. CASE cmd \notin {"install", "setup", "start", "restart", "doctor", "stop"}
  <2>1. cmd # "start_install"
    BY DEF Commands
  <2> QED BY <1>2, <1>5, <1>6, <1>11, <2>1
       DEF DeploymentInv, InstallOwes, StartOwes, DoctorOwes, StopOwes
<1> QED BY <1>7, <1>8, <1>9, <1>10, <1>11

LEMMA NextDeployment == DeploymentInv /\ [DeploymentNext]_deploymentVars => DeploymentInv'
<1> SUFFICES ASSUME DeploymentInv, [DeploymentNext]_deploymentVars PROVE DeploymentInv'
  OBVIOUS
<1>1. /\ run \in [cmd : CommandNames \cup {"none"}, todo : Seq(Ops), rc : {0, 1},
                  ok : BOOLEAN, calm : BOOLEAN]
      /\ cont \in [Services -> {"absent", "exited", "running"}] /\ media \in BOOLEAN
  BY DEF DeploymentInv, DeploymentTypeOK
<1>2. ASSUME NEW cmd \in DOMAIN Commands, Begin(cmd) PROVE DeploymentInv'
  BY <1>2, BeginDeployment
<1>3. CASE CommandStep
  BY <1>3, StepDeployment
<1>4. ASSUME run' = NoRun, UNCHANGED <<engine, pod, cont>>, media' \in BOOLEAN
      PROVE  DeploymentInv'
  <2>1. run' = [cmd |-> "none", todo |-> <<>>, rc |-> 0, ok |-> TRUE, calm |-> TRUE]
    BY <1>4 DEF NoRun
  <2>2. run'.cmd = "none" /\ run'.todo = <<>>
    BY <2>1
  <2>3. DeploymentTypeOK'
    BY <1>4, <2>1 DEF DeploymentInv, DeploymentTypeOK
  <2>4. Fits(run'.cmd, run'.todo)
    BY <2>2 DEF Fits, Occurs
  <2> QED BY <2>2, <2>3, <2>4 DEF DeploymentInv, InstallOwes, StartOwes, DoctorOwes, StopOwes
<1>5. CASE Interrupt
  BY <1>1, <1>4, <1>5 DEF Interrupt
<1>6. CASE EditConfig
  BY <1>1, <1>4, <1>6 DEF EditConfig
<1>7. ASSUME NEW s \in Services, ContainerDies(s) PROVE DeploymentInv'
  <2>1. /\ run' = [run EXCEPT !.calm = FALSE]
        /\ cont' \in [Services -> {"absent", "exited", "running"}]
        /\ UNCHANGED <<engine, media, pod>>
    BY <1>1, <1>7 DEF ContainerDies
  <2>2. run' = [cmd |-> run.cmd, todo |-> run.todo, rc |-> run.rc, ok |-> run.ok,
                calm |-> FALSE]
    BY <1>1, <2>1
  <2>3. /\ run'.cmd = run.cmd /\ run'.todo = run.todo /\ run'.rc = run.rc
        /\ run'.ok = run.ok /\ run'.calm = FALSE
    BY <2>2
  <2>4. DeploymentTypeOK'
    <3>1. run' \in [cmd : CommandNames \cup {"none"}, todo : Seq(Ops), rc : {0, 1},
                    ok : BOOLEAN, calm : BOOLEAN]
      BY <1>1, <2>2
    <3> QED BY <2>1, <3>1 DEF DeploymentInv, DeploymentTypeOK
  <2>5. Fits(run'.cmd, run'.todo)
    BY <2>3 DEF DeploymentInv
  <2>6. StartOwes'
    BY <2>3 DEF DeploymentInv, StartOwes
  <2> QED BY <2>3, <2>4, <2>5, <2>6 DEF DeploymentInv, InstallOwes, DoctorOwes, StopOwes
<1>8. CASE UNCHANGED deploymentVars
  BY <1>8 DEF deploymentVars, DeploymentInv, DeploymentTypeOK, Fits, InstallOwes, StartOwes,
              DoctorOwes, StopOwes, Promised, Pending, AllWantedRunning, Wanted
<1> QED BY <1>2, <1>3, <1>5, <1>6, <1>7, <1>8 DEF DeploymentNext

LEMMA DeploymentInvariant == DeploymentSpec => []DeploymentInv
BY InitDeployment, NextDeployment, PTL DEF DeploymentSpec

\* From whatever earlier commands, interruptions and crashes have left, a clean
\* install, setup, start (one that falls through to install, too), restart or
\* doctor --fix leaves every enabled service running, behind its own ports after
\* an install.
THEOREM CleanCommandsRepair == DeploymentSpec => []CleanCommandRepairs
<1>1. DeploymentInv => CleanCommandRepairs
  <2> SUFFICES ASSUME DeploymentInv, Finished, run.ok
               PROVE  /\ run.cmd \in {"install", "setup", "start", "start_install", "restart",
                                      "doctor"} => AllWantedRunning
                      /\ run.cmd \in {"install", "setup", "start_install"} /\ engine = "podman" =>
                           pod = "install"
    BY DEF CleanCommandRepairs
  <2>1. run.calm /\ \A x : ~Pending(x)
    BY DEF Finished, Pending, Occurs
  <2> QED BY <2>1 DEF DeploymentInv, InstallOwes, StartOwes, DoctorOwes, Promised,
                      AllWantedRunning
<1> QED BY <1>1, DeploymentInvariant, PTL

\* Whichever engine calls fail, exit status 0 of restart, of doctor and of a start
\* that found every container means that every enabled service is running.
THEOREM ExitStatusesHonest == DeploymentSpec => []ExitStatusHonest
<1>1. DeploymentInv => ExitStatusHonest
  <2> SUFFICES ASSUME DeploymentInv, Finished, run.rc = 0,
                      run.cmd \in {"start", "restart", "doctor"}
               PROVE  AllWantedRunning
    BY DEF ExitStatusHonest
  <2>1. run.calm /\ \A x : ~Pending(x)
    BY DEF Finished, Pending, Occurs
  <2> QED BY <2>1 DEF DeploymentInv, StartOwes, DoctorOwes, Promised, AllWantedRunning
<1> QED BY <1>1, DeploymentInvariant, PTL

LEMMA StopStep ==
  ASSUME DeploymentInv, DeploymentNext, run.cmd = "stop", run.ok, run'.calm,
         cont["postgres"] = "running", cont'["postgres"] # "running"
  PROVE  cont["nextcloud"] # "running"
<1>1. /\ cont \in [Services -> {"absent", "exited", "running"}]
      /\ run \in [cmd : CommandNames \cup {"none"}, todo : Seq(Ops), rc : {0, 1},
                  ok : BOOLEAN, calm : BOOLEAN]
      /\ "postgres" \in Services
  BY ServicesAssumption DEF DeploymentInv, DeploymentTypeOK
<1>2. ~(\E s \in Services : ContainerDies(s))
  <2> SUFFICES ASSUME NEW s \in Services, ContainerDies(s) PROVE FALSE
    OBVIOUS
  <2>1. run'.calm = FALSE
    BY <1>1 DEF ContainerDies
  <2> QED BY <2>1
<1>3. CommandStep
  BY <1>2 DEF DeploymentNext, Begin, Interrupt, EditConfig
<1>4. run.todo # <<>>
  BY <1>3 DEF CommandStep, InitializeStorage, CreatePod, RunContainer, StartMissing,
         StartContainer, StopContainer, RestartContainer, RemoveContainer, PodOperation,
         Diagnose, Purge, Now
<1>5. /\ Head(run.todo).op = "stop"
      /\ Head(run.todo) = On("stop", Target)
  BY <1>4, HeadFits DEF OpsOf, ServiceOps
<1>6. StopContainer
  BY <1>3, <1>5 DEF CommandStep, InitializeStorage, CreatePod, RunContainer, StartMissing,
         StartContainer, RestartContainer, RemoveContainer, PodOperation, Diagnose, Purge, Now
<1>7. Target = "postgres"
  BY <1>1, <1>6 DEF StopContainer
<1>8. run.calm
  BY <1>1, <1>6 DEF StopContainer, Done
<1>9. ~Precedes(run.todo, On("stop", "nextcloud"), On("stop", "postgres"))
  BY <1>1, <1>4, <1>5, <1>7, PrecedesTail
<1> QED BY <1>8, <1>9 DEF DeploymentInv, StopOwes

\* A stop that goes well never takes the database from a running nextcloud.
THEOREM StopInOrder == DeploymentSpec => StopOrder
<1>1. DeploymentInv /\ [DeploymentNext]_deploymentVars =>
        [/\ run.cmd = "stop" /\ run.ok /\ run'.calm
         /\ cont["postgres"] = "running" /\ cont'["postgres"] # "running"
         => cont["nextcloud"] # "running"]_deploymentVars
  BY StopStep
<1> QED BY <1>1, DeploymentInvariant, PTL DEF DeploymentSpec, StopOrder

=============================================================================
