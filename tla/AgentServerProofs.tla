-------------------------- MODULE AgentServerProofs --------------------------
(* Proofs about a launched Agent (server.rs, lna_http.rs): its permits are   *)
(* counted exactly, and nobody stops it while its owner is connected.        *)
(*                                                                          *)
(* That the owner is not cut off rests on the counts: the Bridge has one     *)
(* place, so there is no second Bridge session that could end late and take  *)
(* the Agent with it.                                                        *)
EXTENDS AgentServer, FiniteSetTheorems, TLAPS

-----------------------------------------------------------------------------
(* The invariant *)

Held    == {c \in Connections : stage[c] # "none"}
From(a) == {c \in Connections : address[c] = a}
On(r)   == {c \in Connections : route[c] = r}
Open    == {q \in Requests : request[q] # "none"}
Working == {q \in Requests : request[q] = "benchmark"}

LifeType ==
    /\ server \in {"running", "closing", "joining", "exited"}
    /\ lost \in BOOLEAN /\ shutdown \in BOOLEAN
    /\ clock \in {"valid", "expired", "overdue"}
    /\ launch \in {"fresh", "used"}
    /\ timer \in {"asleep", "firing", "done"}

\* Who can stop an Agent, and when.
LifeInv ==
    /\ timer = "firing" => clock = "overdue" /\ launch = "fresh"
    /\ shutdown => lost \/ launch = "used" \/ clock = "overdue"
    /\ server # "running" => lost \/ shutdown
    /\ Owned => launch = "used"
    /\ OwnerIsNotCutOff

TaskType ==
    /\ stage \in [Connections -> {"none", "handshake", "refusing", "accepting", "session", "owner",
                                  "over"}]
    /\ address \in [Connections -> Addresses \cup {Nowhere}]
    /\ route \in [Connections -> Routes \cup {Nowhere}]
    /\ pending \in 0 .. PendingLimit
    /\ perIp \in [Addresses -> 0 .. PerIpLimit]
    /\ taken \in [Routes -> Nat] /\ \A r \in Routes : taken[r] <= LimitOf[r]

\* What a task has taken is seen in its stage.
StageInv ==
    \A c \in Connections :
        /\ stage[c] = "none" <=> address[c] = Nowhere
        /\ stage[c] \in {"none", "handshake", "refusing"} <=> route[c] = Nowhere
        /\ stage[c] \in {"owner", "over"} => route[c] = "bridge"

TaskCounts ==
    /\ pending = Cardinality(Held)
    /\ \A a \in Addresses : perIp[a] = Cardinality(From(a))
    /\ \A r \in Routes : taken[r] = Cardinality(On(r))

LnaType ==
    /\ lna \in {"running", "aborting", "stopped"}
    /\ request \in [Requests -> {"none", "idle", "benchmark"}]
    /\ lnaTaken \in 0 .. LnaLimit /\ benchTaken \in 0 .. MaxSessions

LnaCounts ==
    /\ lnaTaken = Cardinality(Open)
    /\ benchTaken = Cardinality(Working)

LifePart == LifeType /\ LifeInv
TaskPart == TaskType /\ StageInv /\ TaskCounts
LnaPart  == LnaType /\ LnaCounts

ServerInv == LifePart /\ TaskPart /\ LnaPart

-----------------------------------------------------------------------------
(* Counting *)

\* Parts of a finite set are finite, and have a number of elements.
LEMMA Countable ==
    ASSUME NEW I, IsFiniteSet(I), NEW S \in SUBSET I
    PROVE  IsFiniteSet(S) /\ Cardinality(S) \in Nat
BY FS_Subset, FS_CardinalityType

\* One more,
LEMMA CountUp ==
    ASSUME NEW I, IsFiniteSet(I), NEW S \in SUBSET I, NEW x \in I, x \notin S
    PROVE  Cardinality(S \cup {x}) = Cardinality(S) + 1
BY Countable, FS_AddElement

\* or one less.
LEMMA CountDown ==
    ASSUME NEW I, IsFiniteSet(I), NEW S \in SUBSET I, NEW x \in S
    PROVE  Cardinality(S \ {x}) = Cardinality(S) - 1
BY Countable, FS_RemoveElement

\* What fits into one place is one thing.
LEMMA OnePlace ==
    ASSUME NEW I, IsFiniteSet(I), NEW S \in SUBSET I, Cardinality(S) <= 1,
           NEW x \in S, NEW y \in S
    PROVE  x = y
<1>1. /\ IsFiniteSet(S \ {x}) /\ Cardinality(S \ {x}) \in Nat
      /\ Cardinality(S) \in Nat /\ Cardinality(S \ {x}) = Cardinality(S) - 1
  BY Countable, CountDown, S \ {x} \in SUBSET I
<1>2. Cardinality(S \ {x}) = 0
  BY <1>1
<1>3. S \ {x} = {}
  BY <1>1, <1>2, FS_EmptySet
<1> QED BY <1>3

\* The places of a route are a number, and the Bridge has one.
LEMMA Limits == LimitOf["bridge"] = 1 /\ \A r \in Routes : LimitOf[r] \in Nat
BY LimitsAssumption DEF LimitOf, Routes, LimitsAssumption

\* Two tasks with a place of the Bridge are the same.
LEMMA OneBridge ==
    ASSUME TaskPart, NEW c \in Connections, NEW d \in Connections,
           route[c] = "bridge", route[d] = "bridge"
    PROVE  c = d
<1>1. On("bridge") \in SUBSET Connections /\ c \in On("bridge") /\ d \in On("bridge")
  BY DEF On
<1>2. Cardinality(On("bridge")) <= 1
  BY Limits DEF TaskPart, TaskType, TaskCounts, Routes
<1> QED BY <1>1, <1>2, OnePlace, LimitsAssumption DEF LimitsAssumption

-----------------------------------------------------------------------------
\* An Agent begins with nothing taken.
LEMMA InitSound == Init => ServerInv
<1> SUFFICES ASSUME Init PROVE ServerInv
  OBVIOUS
<1>1. LifePart
  BY DEF Init, LifePart, LifeType, LifeInv, Owned, OwnerIsNotCutOff
<1>2. Cardinality({}) = 0
  BY FS_EmptySet
<1>3. TaskType /\ StageInv
  BY Limits, LimitsAssumption DEF Init, TaskType, StageInv, Nowhere, LimitsAssumption
<1>4. TaskCounts
  <2>1. Held = {} /\ (\A a \in Addresses : From(a) = {}) /\ \A r \in Routes : On(r) = {}
    BY LimitsAssumption DEF Init, Held, From, On, Nowhere, Routes, LimitsAssumption
  <2> QED BY <1>2, <2>1 DEF Init, TaskCounts
<1>5. LnaPart
  <2>1. Open = {} /\ Working = {}
    BY DEF Init, Open, Working
  <2> QED BY <1>2, <2>1, LimitsAssumption DEF Init, LnaPart, LnaType, LnaCounts, LimitsAssumption
<1> QED BY <1>1, <1>3, <1>4, <1>5 DEF ServerInv, TaskPart

\* What leaves a part alone keeps it.
LEMMA LifeStays ==
    ASSUME LifePart, UNCHANGED <<lifeVars, timeVars>>, Owned' => Owned
    PROVE  LifePart'
BY DEF LifePart, LifeType, LifeInv, OwnerIsNotCutOff, lifeVars, timeVars

LEMMA TasksStay ==
    ASSUME TaskPart, UNCHANGED <<taskVars, countVars>>
    PROVE  TaskPart' /\ (Owned' <=> Owned)
BY DEF TaskPart, TaskType, StageInv, TaskCounts, Held, From, On, Owned, taskVars, countVars

LEMMA LnaStays ==
    ASSUME LnaPart, UNCHANGED lnaVars
    PROVE  LnaPart'
BY DEF LnaPart, LnaType, LnaCounts, Open, Working, lnaVars

-----------------------------------------------------------------------------
(* The tasks of connections *)

\* A connection that is accepted is counted once, as a task and for its address.
LEMMA AcceptKeeps ==
    ASSUME TaskPart, NEW c \in Connections, NEW a \in Addresses, Accept(c, a)
    PROVE  TaskPart' /\ (Owned' => Owned)
<1>1. /\ stage[c] = "none" /\ pending < PendingLimit /\ perIp[a] < PerIpLimit
      /\ stage' = [stage EXCEPT ![c] = "handshake"]
      /\ address' = [address EXCEPT ![c] = a]
      /\ pending' = pending + 1 /\ perIp' = [perIp EXCEPT ![a] = perIp[a] + 1]
      /\ UNCHANGED <<route, taken>>
  BY DEF Accept
<1>2. address[c] = Nowhere /\ a # Nowhere /\ route[c] = Nowhere
  BY <1>1, LimitsAssumption DEF TaskPart, StageInv, LimitsAssumption
<1>3. TaskType'
  BY <1>1, LimitsAssumption DEF TaskPart, TaskType, LimitsAssumption
<1>4. StageInv'
  BY <1>1, <1>2 DEF TaskPart, TaskType, StageInv
<1>5. /\ Held' = Held \cup {c} /\ c \notin Held /\ Held \in SUBSET Connections
      /\ From(a)' = From(a) \cup {c} /\ c \notin From(a) /\ From(a) \in SUBSET Connections
      /\ \A b \in Addresses \ {a} : From(b)' = From(b)
      /\ \A r \in Routes : On(r)' = On(r)
  BY <1>1, <1>2, LimitsAssumption DEF TaskPart, TaskType, Held, From, On, LimitsAssumption
<1>6. /\ Cardinality(Held') = Cardinality(Held) + 1
      /\ Cardinality(From(a)') = Cardinality(From(a)) + 1
  BY <1>5, CountUp, LimitsAssumption DEF LimitsAssumption
<1>7. TaskCounts'
  <2>1. pending' = Cardinality(Held')
    BY <1>1, <1>6 DEF TaskPart, TaskCounts
  <2>2. ASSUME NEW b \in Addresses PROVE perIp'[b] = Cardinality(From(b)')
    <3>1. CASE b = a
      BY <1>1, <1>6, <3>1 DEF TaskPart, TaskType, TaskCounts
    <3>2. CASE b # a
      BY <1>1, <1>5, <3>2 DEF TaskPart, TaskType, TaskCounts
    <3> QED BY <3>1, <3>2
  <2>3. \A r \in Routes : taken'[r] = Cardinality(On(r)')
    BY <1>1, <1>5 DEF TaskPart, TaskCounts
  <2> QED BY <2>1, <2>2, <2>3 DEF TaskCounts
<1>8. Owned' => Owned
  BY <1>1 DEF TaskPart, TaskType, Owned
<1> QED BY <1>3, <1>4, <1>7, <1>8 DEF TaskPart

\* A task that ends gives back what it had taken, on every path.
LEMMA TaskEndsKeeps ==
    ASSUME TaskPart, NEW c \in Connections, stage[c] # "none", TaskEnds(c)
    PROVE  TaskPart' /\ (Owned' => Owned)
<1>0. PICK a \in Addresses, r \in Routes \cup {Nowhere} : a = address[c] /\ r = route[c]
  BY LimitsAssumption DEF TaskPart, TaskType, StageInv, LimitsAssumption
<1>1. /\ stage' = [stage EXCEPT ![c] = "none"]
      /\ address' = [address EXCEPT ![c] = Nowhere]
      /\ route' = [route EXCEPT ![c] = Nowhere]
      /\ pending' = pending - 1 /\ perIp' = [perIp EXCEPT ![a] = perIp[a] - 1]
      /\ taken' = IF r = Nowhere THEN taken ELSE [taken EXCEPT ![r] = taken[r] - 1]
  BY <1>0 DEF TaskEnds, Released
<1>2. Nowhere \notin Addresses /\ Nowhere \notin Routes
  BY LimitsAssumption DEF LimitsAssumption, Nowhere, Routes
<1>3. /\ Held' = Held \ {c} /\ c \in Held /\ Held \in SUBSET Connections
      /\ From(a)' = From(a) \ {c} /\ c \in From(a) /\ From(a) \in SUBSET Connections
      /\ \A b \in Addresses \ {a} : From(b)' = From(b)
      /\ On(r)' = On(r) \ {c} \/ r = Nowhere
      /\ c \in On(r) /\ On(r) \in SUBSET Connections
      /\ \A q \in Routes \ {r} : On(q)' = On(q)
  BY <1>0, <1>1, <1>2 DEF TaskPart, TaskType, Held, From, On
<1>4. /\ Cardinality(Held') = Cardinality(Held) - 1 /\ Cardinality(Held') \in Nat
      /\ Cardinality(From(a)') = Cardinality(From(a)) - 1 /\ Cardinality(From(a)') \in Nat
      /\ r # Nowhere => Cardinality(On(r)') = Cardinality(On(r)) - 1
      /\ r # Nowhere => Cardinality(On(r)') \in Nat
  <2>1. IsFiniteSet(Connections)
    BY LimitsAssumption DEF LimitsAssumption
  <2>2. Held' \in SUBSET Connections /\ From(a)' \in SUBSET Connections
        /\ (r # Nowhere => On(r)' \in SUBSET Connections)
    BY <1>3
  <2> QED BY <1>3, <2>1, <2>2, CountDown, Countable
<1>5. TaskCounts'
  <2>1. pending' = Cardinality(Held')
    BY <1>1, <1>4 DEF TaskPart, TaskCounts
  <2>2. ASSUME NEW b \in Addresses PROVE perIp'[b] = Cardinality(From(b)')
    <3>1. CASE b = a
      BY <1>1, <1>2, <1>4, <3>1 DEF TaskPart, TaskType, TaskCounts
    <3>2. CASE b # a
      BY <1>1, <1>3, <3>2 DEF TaskPart, TaskType, TaskCounts
    <3> QED BY <3>1, <3>2
  <2>3. ASSUME NEW q \in Routes PROVE taken'[q] = Cardinality(On(q)')
    <3>1. CASE q = r
      BY <1>1, <1>2, <1>4, <3>1 DEF TaskPart, TaskType, TaskCounts
    <3>2. CASE q # r
      BY <1>1, <1>3, <3>2 DEF TaskPart, TaskType, TaskCounts
    <3> QED BY <3>1, <3>2
  <2> QED BY <2>1, <2>2, <2>3 DEF TaskCounts
<1>6. TaskType'
  <2>1. pending' \in 0 .. PendingLimit
    BY <1>1, <1>4, <1>5, LimitsAssumption DEF TaskPart, TaskType, TaskCounts, LimitsAssumption
  <2>2. perIp[a] \in 0 .. PerIpLimit /\ perIp[a] - 1 \in 0 .. PerIpLimit
    BY <1>2, <1>4, LimitsAssumption DEF TaskPart, TaskType, TaskCounts, LimitsAssumption
  <2>3. perIp' \in [Addresses -> 0 .. PerIpLimit]
    BY <1>1, <2>2 DEF TaskPart, TaskType
  <2>4. taken' \in [Routes -> Nat] /\ \A q \in Routes : taken'[q] <= LimitOf[q]
    <3>1. CASE r = Nowhere
      BY <1>1, <3>1 DEF TaskPart, TaskType
    <3>2. CASE r # Nowhere
      <4>1. r \in Routes /\ taken[r] \in Nat /\ taken[r] - 1 \in Nat /\ LimitOf[r] \in Nat
            /\ taken[r] <= LimitOf[r]
        BY <1>2, <1>4, <3>2, Limits DEF TaskPart, TaskType, TaskCounts
      <4> QED BY <1>1, <3>2, <4>1 DEF TaskPart, TaskType
    <3> QED BY <3>1, <3>2
  <2> QED BY <1>1, <2>1, <2>3, <2>4 DEF TaskPart, TaskType
<1>7. StageInv'
  BY <1>1 DEF TaskPart, TaskType, StageInv
<1>8. Owned' => Owned
  BY <1>1 DEF TaskPart, TaskType, Owned
<1> QED BY <1>5, <1>6, <1>7, <1>8 DEF TaskPart

\* A task takes a place of its route.
LEMMA TakeRouteKeeps ==
    ASSUME TaskPart, NEW c \in Connections, NEW r \in Routes, TakeRoute(c, r)
    PROVE  TaskPart' /\ (Owned' => Owned)
<1>1. /\ stage[c] = "handshake" /\ taken[r] < LimitOf[r]
      /\ stage' = [stage EXCEPT ![c] = "accepting"] /\ route' = [route EXCEPT ![c] = r]
      /\ taken' = [taken EXCEPT ![r] = taken[r] + 1]
      /\ UNCHANGED <<address, pending, perIp>>
  BY DEF TakeRoute
<1>2. route[c] = Nowhere /\ Nowhere \notin Routes /\ LimitOf[r] \in Nat
  BY <1>1, Limits DEF TaskPart, StageInv, Nowhere, Routes
<1>3. TaskType'
  <2>1. taken[r] \in Nat /\ taken[r] + 1 \in Nat /\ taken[r] + 1 <= LimitOf[r]
    BY <1>1, <1>2 DEF TaskPart, TaskType
  <2> QED BY <1>1, <2>1 DEF TaskPart, TaskType
<1>4. StageInv'
  BY <1>1, <1>2 DEF TaskPart, TaskType, StageInv
<1>5. /\ Held' = Held /\ \A a \in Addresses : From(a)' = From(a)
      /\ On(r)' = On(r) \cup {c} /\ c \notin On(r) /\ On(r) \in SUBSET Connections
      /\ \A q \in Routes \ {r} : On(q)' = On(q)
  BY <1>1, <1>2 DEF TaskPart, TaskType, Held, From, On
<1>6. Cardinality(On(r)') = Cardinality(On(r)) + 1
  BY <1>5, CountUp, LimitsAssumption DEF LimitsAssumption
<1>7. TaskCounts'
  <2>1. ASSUME NEW q \in Routes PROVE taken'[q] = Cardinality(On(q)')
    <3>1. CASE q = r
      BY <1>1, <1>6, <3>1 DEF TaskPart, TaskType, TaskCounts
    <3>2. CASE q # r
      BY <1>1, <1>5, <3>2 DEF TaskPart, TaskType, TaskCounts
    <3> QED BY <3>1, <3>2
  <2>2. pending' = Cardinality(Held') /\ \A a \in Addresses : perIp'[a] = Cardinality(From(a)')
    BY <1>1, <1>5 DEF TaskPart, TaskCounts
  <2> QED BY <2>1, <2>2 DEF TaskCounts
<1>8. Owned' => Owned
  BY <1>1 DEF TaskPart, TaskType, Owned
<1> QED BY <1>3, <1>4, <1>7, <1>8 DEF TaskPart

\* A task goes on with what it has taken.
LEMMA RestageKeeps ==
    ASSUME TaskPart, NEW c \in Connections,
           NEW x \in {"refusing", "session", "owner", "over"},
           stage' = [stage EXCEPT ![c] = x], UNCHANGED <<address, route, countVars>>,
           stage[c] # "none",
           x = "refusing" <=> route[c] = Nowhere,
           x \in {"owner", "over"} => route[c] = "bridge"
    PROVE  TaskPart'
<1>1. TaskType'
  BY DEF TaskPart, TaskType, countVars
<1>2. StageInv'
  BY DEF TaskPart, TaskType, StageInv
<1>3. Held' = Held /\ (\A a \in Addresses : From(a)' = From(a)) /\ \A r \in Routes : On(r)' = On(r)
  BY DEF TaskPart, TaskType, Held, From, On
<1>4. TaskCounts'
  BY <1>3 DEF TaskPart, TaskCounts, countVars
<1> QED BY <1>1, <1>2, <1>4 DEF TaskPart

\* Every step of a connection keeps the counts; only an authentication makes an owner.
LEMMA ConnectionTasks ==
    ASSUME TaskPart, NEW c \in Connections, Connection(c)
    PROVE  /\ TaskPart'
           /\ (Owned' => Owned) \/ Authenticate(c)
<1>1. CASE \E a \in Addresses : Accept(c, a)
  BY <1>1, AcceptKeeps
<1>2. CASE ConnectionFails(c) \/ SessionEnds(c) \/ BridgeIsOver(c)
  <2>1. stage[c] # "none" /\ TaskEnds(c)
    BY <1>2 DEF ConnectionFails, SessionEnds, BridgeIsOver
  <2> QED BY <2>1, TaskEndsKeeps
<1>3. CASE \E r \in Routes : TakeRoute(c, r)
  BY <1>3, TakeRouteKeeps
<1>4. CASE Reject(c) \/ SessionBegins(c) \/ BridgeEnds(c) \/ Authenticate(c)
  <2>1. PICK x \in {"refusing", "session", "owner", "over"} :
          /\ stage' = [stage EXCEPT ![c] = x] /\ UNCHANGED <<address, route, countVars>>
          /\ stage[c] # "none" /\ (x = "owner" => Authenticate(c))
          /\ x = "refusing" => stage[c] = "handshake"
          /\ x # "refusing" => stage[c] \in {"accepting", "session", "owner"}
          /\ x \in {"owner", "over"} => route[c] = "bridge"
    BY <1>4 DEF Reject, SessionBegins, BridgeEnds, Authenticate
  <2>2. x = "refusing" <=> route[c] = Nowhere
    BY <2>1 DEF TaskPart, StageInv
  <2>3. TaskPart'
    BY <2>1, <2>2, RestageKeeps
  <2>4. x # "owner" => (Owned' => Owned)
    BY <2>1 DEF TaskPart, TaskType, Owned
  <2> QED BY <2>1, <2>3, <2>4
<1> QED BY <1>1, <1>2, <1>3, <1>4 DEF Connection

-----------------------------------------------------------------------------
(* The connections of the LNA server *)

\* A connection that comes, asks, is answered or goes.
LEMMA LnaKeeps ==
    ASSUME LnaPart, NEW q \in Requests,
           LnaAccept(q) \/ LnaCloses(q) \/ LnaBenchmark(q) \/ LnaAnswered(q)
    PROVE  LnaPart'
<1>0. /\ request \in [Requests -> {"none", "idle", "benchmark"}]
      /\ lnaTaken \in 0 .. LnaLimit /\ benchTaken \in 0 .. MaxSessions
      /\ lnaTaken = Cardinality(Open) /\ benchTaken = Cardinality(Working)
      /\ Open \in SUBSET Requests /\ Working \in SUBSET Requests
      /\ Open' \in SUBSET Requests /\ Working' \in SUBSET Requests
      /\ IsFiniteSet(Requests) /\ LnaLimit \in Nat /\ MaxSessions \in Nat
  BY LimitsAssumption DEF LnaPart, LnaType, LnaCounts, Open, Working, LimitsAssumption
<1>1. Cardinality(Open') \in Nat /\ Cardinality(Working') \in Nat
  BY <1>0, Countable
<1>2. CASE LnaAccept(q)
  <2>1. /\ request[q] = "none" /\ lnaTaken < LnaLimit /\ lnaTaken' = lnaTaken + 1
        /\ request' = [request EXCEPT ![q] = "idle"] /\ UNCHANGED <<lna, benchTaken>>
    BY <1>2 DEF LnaAccept
  <2>2. q \notin Open /\ Open' = Open \cup {q} /\ Working' = Working
    BY <1>0, <2>1 DEF Open, Working
  <2>3. Cardinality(Open') = Cardinality(Open) + 1
    BY <1>0, <2>2, CountUp
  <2> QED BY <1>0, <2>1, <2>2, <2>3 DEF LnaPart, LnaType, LnaCounts
<1>3. CASE LnaCloses(q)
  <2>1. /\ request[q] # "none" /\ lnaTaken' = lnaTaken - 1 /\ lna' = lna
        /\ benchTaken' = IF request[q] = "benchmark" THEN benchTaken - 1 ELSE benchTaken
        /\ request' = [request EXCEPT ![q] = "none"]
    BY <1>3 DEF LnaCloses
  <2>2. /\ q \in Open /\ Open' = Open \ {q}
        /\ Working' = IF request[q] = "benchmark" THEN Working \ {q} ELSE Working
        /\ request[q] = "benchmark" => q \in Working
    BY <1>0, <2>1 DEF Open, Working
  <2>3. /\ Cardinality(Open') = Cardinality(Open) - 1
        /\ request[q] = "benchmark" => Cardinality(Working') = Cardinality(Working) - 1
    BY <1>0, <2>2, CountDown
  <2>4. lnaTaken' = Cardinality(Open') /\ benchTaken' = Cardinality(Working')
    BY <1>0, <2>1, <2>2, <2>3
  <2>5. lnaTaken' \in 0 .. LnaLimit /\ benchTaken' \in 0 .. MaxSessions
    BY <1>0, <1>1, <2>1, <2>4
  <2> QED BY <1>0, <2>1, <2>4, <2>5 DEF LnaPart, LnaType, LnaCounts
<1>4. CASE LnaBenchmark(q)
  <2>1. /\ request[q] = "idle" /\ benchTaken < MaxSessions /\ benchTaken' = benchTaken + 1
        /\ request' = [request EXCEPT ![q] = "benchmark"] /\ UNCHANGED <<lna, lnaTaken>>
    BY <1>4 DEF LnaBenchmark
  <2>2. Open' = Open /\ q \notin Working /\ Working' = Working \cup {q}
    BY <1>0, <2>1 DEF Open, Working
  <2>3. Cardinality(Working') = Cardinality(Working) + 1
    BY <1>0, <2>2, CountUp
  <2> QED BY <1>0, <2>1, <2>2, <2>3 DEF LnaPart, LnaType, LnaCounts
<1>5. CASE LnaAnswered(q)
  <2>1. /\ request[q] = "benchmark" /\ benchTaken' = benchTaken - 1
        /\ request' = [request EXCEPT ![q] = "idle"] /\ UNCHANGED <<lna, lnaTaken>>
    BY <1>5 DEF LnaAnswered
  <2>2. Open' = Open /\ q \in Working /\ Working' = Working \ {q}
    BY <1>0, <2>1 DEF Open, Working
  <2>3. Cardinality(Working') = Cardinality(Working) - 1
    BY <1>0, <2>2, CountDown
  <2>4. benchTaken' \in 0 .. MaxSessions
    BY <1>0, <1>1, <2>1, <2>3
  <2> QED BY <1>0, <2>1, <2>2, <2>3, <2>4 DEF LnaPart, LnaType, LnaCounts
<1> QED BY <1>2, <1>3, <1>4, <1>5

\* The end of the LNA server takes its connections and their permits together.
LEMMA LnaStopKeeps == LnaPart /\ (LnaStops \/ LnaAborted) => LnaPart'
<1> SUFFICES ASSUME LnaPart, LnaStops \/ LnaAborted PROVE LnaPart'
  OBVIOUS
<1>1. CASE LnaStops
  BY <1>1 DEF LnaStops, LnaPart, LnaType, LnaCounts, Open, Working
<1>2. CASE LnaAborted
  <2>1. Open' = {} /\ Working' = {} /\ Cardinality({}) = 0
    BY <1>2, FS_EmptySet DEF LnaAborted, Open, Working
  <2> QED BY <1>2, <2>1, LimitsAssumption
          DEF LnaAborted, LnaPart, LnaType, LnaCounts, LimitsAssumption
<1> QED BY <1>1, <1>2

-----------------------------------------------------------------------------
(* The life of the Agent *)

\* The launch timeout fires only for an Agent that nobody has come to.
LEMMA LaunchKeeps == LifePart /\ TaskPart /\ Launch => LifePart'
<1> SUFFICES ASSUME LifePart, TaskPart, Launch PROVE LifePart'
  OBVIOUS
<1>1. Owned' <=> Owned
  BY DEF Launch, TimePasses, TimeoutChecks, TimeoutFires, taskVars, Owned
<1>2. CASE TimePasses
  BY <1>1, <1>2 DEF TimePasses, lifeVars, LifePart, LifeType, LifeInv, OwnerIsNotCutOff
<1>3. CASE TimeoutChecks
  <2>1. LifeType'
    BY <1>3 DEF TimeoutChecks, lifeVars, LifePart, LifeType
  <2>2. timer' = "firing" => clock' = "overdue" /\ launch' = "fresh"
    BY <1>3 DEF TimeoutChecks
  <2> QED BY <1>1, <1>3, <2>1, <2>2 DEF TimeoutChecks, lifeVars, LifePart, LifeInv, OwnerIsNotCutOff
<1>4. CASE TimeoutFires
  BY <1>1, <1>4 DEF TimeoutFires, LifePart, LifeType, LifeInv, OwnerIsNotCutOff
<1> QED BY <1>2, <1>3, <1>4 DEF Launch

\* An owner comes to an Agent that is not stopping.
LEMMA AuthenticateKeeps ==
    ASSUME LifePart, NEW c \in Connections, Authenticate(c)
    PROVE  LifePart'
BY DEF Authenticate, lifeVars, LifePart, LifeType, LifeInv, OwnerIsNotCutOff

\* The Bridge session whose end stops the Agent was the only one.
LEMMA BridgeIsOverKeeps ==
    ASSUME LifePart, TaskPart, NEW c \in Connections, BridgeIsOver(c)
    PROVE  LifePart'
<1>1. /\ stage[c] = "over" /\ shutdown' = (shutdown \/ launch = "used")
      /\ stage' = [stage EXCEPT ![c] = "none"]
      /\ UNCHANGED <<server, lost, clock, launch, timer>>
  BY DEF BridgeIsOver, TaskEnds, timeVars
<1>2. ~Owned'
  <2> SUFFICES ASSUME NEW d \in Connections, stage'[d] = "owner" PROVE FALSE
    BY DEF Owned
  <2>1. d # c /\ stage[d] = "owner"
    BY <1>1 DEF TaskPart, TaskType
  <2>2. route[c] = "bridge" /\ route[d] = "bridge"
    BY <1>1, <2>1 DEF TaskPart, StageInv
  <2> QED BY <2>1, <2>2, OneBridge
<1> QED BY <1>1, <1>2 DEF LifePart, LifeType, LifeInv, OwnerIsNotCutOff

\* The other steps of a connection do not touch the life of the Agent.
LEMMA ConnectionLife ==
    ASSUME LifePart, TaskPart, NEW c \in Connections, Connection(c)
    PROVE  LifePart'
<1>1. CASE Authenticate(c)
  BY <1>1, AuthenticateKeeps
<1>2. CASE BridgeIsOver(c)
  BY <1>2, BridgeIsOverKeeps
<1>3. CASE ~Authenticate(c) /\ ~BridgeIsOver(c)
  <2>1. Owned' => Owned
    BY <1>3, ConnectionTasks
  <2>2. UNCHANGED <<lifeVars, timeVars>>
    BY <1>3 DEF Connection, Accept, ConnectionFails, Reject, TakeRoute, SessionBegins, SessionEnds,
                BridgeEnds
  <2> QED BY <2>1, <2>2, LifeStays
<1> QED BY <1>1, <1>2, <1>3

\* The server stops only when it was told to or has lost its endpoint.
LEMMA StopKeeps == LifePart /\ Stop => LifePart'
<1> SUFFICES ASSUME LifePart, Stop PROVE LifePart'
  OBVIOUS
<1>1. UNCHANGED <<clock, launch, timer>> /\ (Owned' <=> Owned)
  BY DEF Stop, LoopBreaks, EndpointStops, EndpointIdle, Exit, timeVars, taskVars, Owned
<1> QED BY <1>1 DEF Stop, LoopBreaks, EndpointStops, EndpointIdle, Exit, LifePart, LifeType,
                    LifeInv, OwnerIsNotCutOff

-----------------------------------------------------------------------------
\* Every step of the Agent keeps the invariant.
LEMMA ServerKept == ServerInv /\ [Next]_vars => ServerInv'
<1> SUFFICES ASSUME ServerInv, [Next]_vars PROVE ServerInv'
  OBVIOUS
<1>0. LifePart /\ TaskPart /\ LnaPart
  BY DEF ServerInv
<1>1. CASE Launch
  <2>1. UNCHANGED <<taskVars, countVars>> /\ UNCHANGED lnaVars
    BY <1>1 DEF Launch, TimePasses, TimeoutChecks, TimeoutFires
  <2> QED BY <1>0, <1>1, <2>1, LaunchKeeps, TasksStay, LnaStays DEF ServerInv
<1>2. CASE \E c \in Connections : Connection(c)
  <2>1. PICK c \in Connections : Connection(c)
    BY <1>2
  <2>2. UNCHANGED lnaVars
    BY <2>1 DEF Connection, Accept, ConnectionFails, Reject, TakeRoute, SessionBegins, Authenticate,
                SessionEnds, BridgeEnds, BridgeIsOver
  <2>3. TaskPart' /\ LifePart' /\ LnaPart'
    BY <1>0, <2>1, <2>2, ConnectionTasks, ConnectionLife, LnaStays
  <2> QED BY <2>3 DEF ServerInv
<1>3. CASE Stop
  <2>1. UNCHANGED <<taskVars, countVars>> /\ UNCHANGED lnaVars
    BY <1>3 DEF Stop, LoopBreaks, EndpointStops, EndpointIdle, Exit
  <2> QED BY <1>0, <1>3, <2>1, StopKeeps, TasksStay, LnaStays DEF ServerInv
<1>4. CASE Lna
  <2>1. UNCHANGED <<lifeVars, timeVars>> /\ UNCHANGED <<taskVars, countVars>>
    BY <1>4 DEF Lna, LnaAccept, LnaCloses, LnaBenchmark, LnaAnswered, LnaStops, LnaAborted
  <2>2. LnaPart'
    BY <1>0, <1>4, LnaKeeps, LnaStopKeeps DEF Lna
  <2>3. TaskPart' /\ (Owned' <=> Owned)
    BY <1>0, <2>1, TasksStay
  <2>4. LifePart'
    BY <1>0, <2>1, <2>3, LifeStays
  <2> QED BY <2>2, <2>3, <2>4 DEF ServerInv
<1>5. CASE UNCHANGED vars
  <2>1. UNCHANGED <<lifeVars, timeVars>> /\ UNCHANGED <<taskVars, countVars>> /\ UNCHANGED lnaVars
    BY <1>5 DEF vars
  <2> QED BY <1>0, <2>1, LifeStays, TasksStay, LnaStays DEF ServerInv
<1> QED BY <1>1, <1>2, <1>3, <1>4, <1>5 DEF Next

\* Every state of an Agent satisfies the invariant.
THEOREM ServerSound == Spec => []ServerInv
<1>1. Init => ServerInv
  BY InitSound
<1>2. ServerInv /\ [Next]_vars => ServerInv'
  BY ServerKept
<1> QED BY <1>1, <1>2, PTL DEF Spec

\* The type invariant of the Agent, its limits included: no limit is ever passed.
THEOREM ServerTypeCorrect == Spec => []TypeOK
<1>1. ServerInv => TypeOK
  BY DEF ServerInv, LifePart, LifeType, TaskPart, TaskType, LnaPart, LnaType, TypeOK
<1> QED BY <1>1, ServerSound, PTL

\* While the page that authenticated is connected, nobody stops the Agent, for
\* every number of connections, addresses and places (handle_incoming,
\* run_launched).
THEOREM OwnerStays == Spec => []OwnerIsNotCutOff
<1>1. ServerInv => OwnerIsNotCutOff
  BY DEF ServerInv, LifePart, LifeInv
<1> QED BY <1>1, ServerSound, PTL

\* Every permit and every count belongs to a task that is still there
\* (IpConnectionTracker, handle_incoming, lna_http::run).
THEOREM CountersAreExact == Spec => []CountersExact
<1>1. ServerInv => CountersExact
  <2> SUFFICES ASSUME ServerInv PROVE CountersExact
    OBVIOUS
  <2>1. ASSUME NEW r \in Routes
        PROVE  On(r) = {c \in Connections :
                          /\ route[c] = r
                          /\ stage[c] \in {"accepting", "session", "owner", "over"}}
    BY DEF ServerInv, TaskPart, TaskType, StageInv, On, Routes, Nowhere
  <2> QED BY <2>1 DEF ServerInv, TaskPart, TaskCounts, LnaPart, LnaCounts, Held, From, Open,
                      Working, CountersExact
<1> QED BY <1>1, ServerSound, PTL
=============================================================================
