-------------------------- MODULE NodeLocks_proofs --------------------------
(***************************************************************************)
(* Theorems about NodeLocks, for channels of any capacity and for any set  *)
(* of goroutines at work.  All rest on what NodeLocks_ways shows of the    *)
(* code's rounds: that each way through them is orderly.                   *)
(***************************************************************************)
EXTENDS NodeLocks_ways

-----------------------------------------------------------------------------
(* Ways *)

\* A way without stations is the empty one.
LEMMA EmptyWay == ASSUME NEW q \in Seq(Station), Len(q) = 0 PROVE q = <<>>
<1> SUFFICES ASSUME q # <<>> PROVE FALSE
  OBVIOUS
<1>1. PICK r \in Seq(Station), x \in Station : q = Append(r, x)
  BY SequenceEmptyOrAppend, Zenon
<1>2. Len(Append(r, x)) = Len(r) + 1 /\ Len(r) \in Nat
  OBVIOUS
<1>3. Len(q) # 0
  <2>1. \A n \in Nat : n + 1 # 0
    OBVIOUS
  <2> QED BY <1>1, <1>2, <2>1, Zenon
<1> QED BY <1>3, Zenon

\* What is left of a way after its first station.
LEMMA TailWay ==
  ASSUME NEW p \in Seq(Station), p # <<>>
  PROVE  /\ Head(p) = p[1] /\ 1 \in DOMAIN p /\ p[1] \in Station
         /\ Tail(p) \in Seq(Station)
         /\ Len(Tail(p)) = Len(p) - 1
         /\ \A k \in DOMAIN Tail(p) : k + 1 \in DOMAIN p /\ Tail(p)[k] = p[k + 1]
         /\ Len(p) = 1 => Tail(p) = <<>>
<1>1. Head(p) = p[1] /\ Len(p) \in Nat /\ Len(p) >= 1 /\ DOMAIN p = 1..Len(p)
  OBVIOUS
<1>2. p[1] \in Station
  BY <1>1
<1>3. Tail(p) \in Seq(Station) /\ Len(Tail(p)) = Len(p) - 1
  OBVIOUS
<1>4. DOMAIN Tail(p) = 1..(Len(p) - 1)
  BY <1>3
<1>5. \A k \in 1..(Len(p) - 1) : Tail(p)[k] = p[k + 1]
  BY <1>1
<1>6. Len(p) = 1 => Tail(p) = <<>>
  <2>1. 1 - 1 = 0
    OBVIOUS
  <2> QED BY <1>3, <2>1, EmptyWay, Zenon
<1> QED BY <1>1, <1>2, <1>3, <1>4, <1>5, <1>6

\* It is as orderly as the way.
LEMMA TailOrderly ==
  ASSUME NEW g \in Goroutines, NEW p \in Seq(Station), p # <<>>, Orderly(g, p)
  PROVE  Orderly(g, Tail(p))
<1> SUFFICES ASSUME NEW k \in DOMAIN Tail(p)
             PROVE  /\ Ascends(g, Tail(p)[k])
                    /\ Tail(p)[k].leaks \cap Output = {}
                    /\ Tail(p)[k].ends => g = "RequestSender" /\ k = Len(Tail(p))
  BY DEF Orderly
<1>1. k + 1 \in DOMAIN p /\ Tail(p)[k] = p[k + 1] /\ Len(Tail(p)) = Len(p) - 1
  BY TailWay
<1>2. k \in Nat /\ Len(p) \in Nat
  OBVIOUS
<1>3. Ascends(g, Tail(p)[k])
  BY <1>1, Zenon DEF Orderly
<1>4. Tail(p)[k].leaks \cap Output = {}
  BY <1>1, Zenon DEF Orderly
<1>5. Tail(p)[k].ends => g = "RequestSender" /\ k + 1 = Len(p)
  BY <1>1, Zenon DEF Orderly
<1>6. k + 1 = Len(p) => k = Len(Tail(p))
  <2>1. \A a, b, c \in Nat : a + 1 = b /\ c = b - 1 => a = c
    OBVIOUS
  <2>2. Len(Tail(p)) \in Nat
    BY TailWay
  <2> QED BY <1>1, <1>2, <2>1, <2>2, Zenon
<1> QED BY <1>3, <1>4, <1>5, <1>6, Zenon

\* Nothing is left, and nothing in disorder.
LEMMA EmptyOrderly == ASSUME NEW g PROVE Orderly(g, <<>>)
BY DEF Orderly

\* The stations are of their type.
LEMMA StationTypes ==
  ASSUME TypeOK, NEW g \in Goroutines, Busy(g)
  PROVE  /\ todo[g] \in Seq(Station) /\ todo[g] # <<>>
         /\ Head(todo[g]) \in Station
         /\ Wants(g) \in Mutexes \cup Channels
         /\ Head(todo[g]).starts \subseteq Goroutines
         /\ Head(todo[g]).leaks \subseteq Mutexes
<1>1. todo[g] \in Seq(Station) /\ todo[g] # <<>>
  BY DEF TypeOK, Busy
<1>2. Head(todo[g]) \in Station
  BY <1>1, TailWay
<1> QED BY <1>1, <1>2 DEF Wants, Station

-----------------------------------------------------------------------------
(* Types *)

\* Every step gives the variables values of their types.
LEMMA TypeStep == ASSUME TypeOK, [Next]_vars PROVE TypeOK'
<1>1. CASE UNCHANGED vars
  BY <1>1 DEF vars, TypeOK
<1>2. ASSUME NEW g \in Goroutines, Begin(g) PROVE TypeOK'
  <2>1. PICK p \in Rounds[g] : todo' = [todo EXCEPT ![g] = p]
    BY <1>2 DEF Begin
  <2>2. p \in Seq(Station)
    BY RoundsType
  <2>3. todo' \in [Goroutines -> Seq(Station)]
    BY <2>1, <2>2 DEF TypeOK
  <2>4. queued' \in [Channels -> 0..Capacity]
    <3> SUFFICES ASSUME NEW c \in Channels
                 PROVE  (IF Receiver[c] = g THEN queued[c] - 1 ELSE queued[c])
                          \in 0..Capacity
      BY <1>2 DEF Begin
    <3>1. queued[c] \in 0..Capacity /\ (Receiver[c] = g => queued[c] > 0)
      BY <1>2 DEF Begin, TypeOK
    <3> QED BY <3>1, CapacityAssumption DEF CapacityAssumption
  <2> QED BY <1>2, <2>3, <2>4 DEF Begin, TypeOK
<1>3. ASSUME NEW g \in Goroutines, Step(g) PROVE TypeOK'
  <2> DEFINE s == Head(todo[g])
  <2>1. Busy(g) /\ Free(s.wants)
    BY <1>3 DEF Step
  <2>2. todo[g] \in Seq(Station) /\ todo[g] # <<>>
        /\ s.starts \subseteq Goroutines /\ s.leaks \subseteq Mutexes
    BY <2>1, StationTypes
  <2>3. todo' \in [Goroutines -> Seq(Station)]
    <3>1. Tail(todo[g]) \in Seq(Station)
      BY <2>2, TailWay
    <3>2. todo' = [todo EXCEPT ![g] = Tail(@)]
      BY <1>3 DEF Step
    <3> QED BY <3>1, <3>2 DEF TypeOK
  <2>4. queued' \in [Channels -> 0..Capacity]
    <3> DEFINE After(c) == IF Sink(c) /\ Receiver[c] \in running THEN 0
                           ELSE IF c = s.wants THEN queued[c] + 1 ELSE queued[c]
    <3>1. queued' = [c \in Channels |-> After(c)]
      BY <1>3 DEF Step
    <3>2. ASSUME NEW c \in Channels PROVE After(c) \in 0..Capacity
      <4>1. queued[c] \in 0..Capacity
        BY DEF TypeOK
      <4> QED BY <2>1, <4>1, CapacityAssumption DEF Free, CapacityAssumption
    <3> HIDE DEF After
    <3> QED BY <3>1, <3>2
  <2>5. running' \subseteq Goroutines /\ lost' \subseteq Mutexes /\ crew' \in Crews
    BY <1>3, <2>2 DEF Step, TypeOK
  <2> QED BY <2>3, <2>4, <2>5 DEF TypeOK
<1> QED BY <1>1, <1>2, <1>3 DEF Next

\* They have them at first.
LEMMA TypeInit == ASSUME Init PROVE TypeOK
<1>1. PICK p \in StartUp : todo = [g \in Goroutines |-> IF g = "main" THEN p ELSE <<>>]
  BY DEF Init
<1>2. p \in Seq(Station)
  BY RoundsType
<1>3. todo \in [Goroutines -> Seq(Station)]
  <2>1. <<>> \in Seq(Station)
    OBVIOUS
  <2> QED BY <1>1, <1>2, <2>1
<1>4. "main" \in Goroutines
  BY DEF Goroutines
<1> QED BY <1>3, <1>4, CapacityAssumption DEF Init, TypeOK, CapacityAssumption

\* THEOREM: the types hold throughout, whatever the rounds are.
THEOREM Types == Spec => []TypeOK
<1> QED BY TypeInit, TypeStep, PTL DEF Spec

-----------------------------------------------------------------------------
(* The order of locking *)

\* A goroutine that is busy runs, and what it still has to do is in order.
Underway ==
  /\ lost \cap Output = {}
  /\ \A g \in Goroutines : Orderly(g, todo[g]) /\ (Busy(g) => g \in running)

\* Those that receive for the package run, or nobody but main does yet.
Started ==
  \/ /\ running = {"main"} /\ todo["main"] \in StartUp
     /\ \A c \in Channels : queued[c] = 0
  \/ Goroutines \ (Drawers \cup {"RequestSender"}) \subseteq running

\* The invariant is made of these.
LEMMA LocksParts == LocksInv <=> TypeOK /\ Underway /\ Started
BY DEF LocksInv, Underway, Started

\* The goroutine that steps ends, at its last station, or goes on running.
LEMMA StepUnderway ==
  ASSUME TypeOK, Underway, NEW g \in Goroutines, Step(g)
  PROVE  Underway'
<1> DEFINE s == Head(todo[g])
<1>1. Busy(g) /\ g \in running
  BY DEF Step, Underway
<1>2. todo[g] \in Seq(Station) /\ todo[g] # <<>>
  BY <1>1, StationTypes
<1>3. Orderly(g, todo[g])
  BY DEF Underway
<1>4. /\ s.leaks \cap Output = {}
      /\ s.ends => g = "RequestSender" /\ Tail(todo[g]) = <<>>
  <2>1. s = todo[g][1] /\ 1 \in DOMAIN todo[g]
    BY <1>2, TailWay
  <2>2. s.leaks \cap Output = {} /\ (s.ends => 1 = Len(todo[g]))
    BY <1>3, <2>1 DEF Orderly
  <2>3. s.ends => g = "RequestSender"
    BY <1>3, <2>1 DEF Orderly
  <2> QED BY <1>2, <2>2, <2>3, TailWay
<1>5. todo' = [todo EXCEPT ![g] = Tail(todo[g])] /\ lost' = lost \cup s.leaks
      /\ running' = IF s.ends THEN running \ {g} ELSE running \cup s.starts
  BY DEF Step
<1>6. lost' \cap Output = {}
  BY <1>4, <1>5 DEF Underway
<1>7. ASSUME NEW h \in Goroutines
      PROVE  Orderly(h, todo'[h]) /\ (todo'[h] # <<>> => h \in running')
  <2>1. CASE h = g
    <3>1. todo'[h] = Tail(todo[g])
      BY <1>5, <2>1 DEF TypeOK
    <3>2. Orderly(g, Tail(todo[g]))
      BY <1>2, <1>3, TailOrderly
    <3> QED BY <1>1, <1>4, <1>5, <2>1, <3>1, <3>2
  <2>2. CASE h # g
    <3>1. todo'[h] = todo[h]
      BY <1>5, <2>2 DEF TypeOK
    <3>2. Orderly(h, todo[h]) /\ (todo[h] # <<>> => h \in running)
      BY DEF Underway, Busy
    <3> QED BY <1>5, <2>2, <3>1, <3>2
  <2> QED BY <2>1, <2>2
<1>8. (\A h \in Goroutines : Orderly(h, todo[h]))' <=> \A h \in Goroutines : Orderly(h, todo'[h])
  BY DEF Orderly, Ascends
<1> QED BY <1>6, <1>7, <1>8 DEF Underway, Busy, Orderly, Ascends

\* Who starts a round runs, and the round is in order.
LEMMA BeginUnderway ==
  ASSUME TypeOK, Underway, NEW g \in Goroutines, Begin(g)
  PROVE  Underway'
<1>1. PICK p \in Rounds[g] : todo' = [todo EXCEPT ![g] = p]
  BY DEF Begin
<1>2. Orderly(g, p) /\ g \in running /\ running' = running /\ lost' = lost
  BY WaysOrderly DEF Begin, RoundsOrderly
<1>3. ASSUME NEW h \in Goroutines
      PROVE  Orderly(h, todo'[h]) /\ (todo'[h] # <<>> => h \in running')
  BY <1>1, <1>2 DEF TypeOK, Underway, Busy
<1> QED BY <1>2, <1>3 DEF Underway, Busy, Orderly, Ascends

\* Main's first step starts all but, perhaps, the drawers; only RequestSender
\* ever ends.
LEMMA StepStarted ==
  ASSUME TypeOK, Underway, Started, NEW g \in Goroutines, Step(g)
  PROVE  Started'
<1> DEFINE s == Head(todo[g])
<1>1. Busy(g) /\ g \in running
  BY DEF Step, Underway
<1>2. todo[g] \in Seq(Station) /\ todo[g] # <<>>
  BY <1>1, StationTypes
<1>3. s.ends => g = "RequestSender"
  <2>1. s = todo[g][1] /\ 1 \in DOMAIN todo[g]
    BY <1>2, TailWay
  <2> QED BY <2>1 DEF Underway, Orderly
<1>4. running' = IF s.ends THEN running \ {g} ELSE running \cup s.starts
  BY DEF Step
<1>5. CASE running = {"main"} /\ todo["main"] \in StartUp
  <2>1. g = "main" /\ Goroutines \ Drawers \subseteq {"main"} \cup s.starts
    BY <1>1, <1>5, WaysOrderly DEF RoundsOrderly
  <2>2. running' = running \cup s.starts
    BY <1>3, <1>4, <2>1
  <2> QED BY <1>5, <2>1, <2>2 DEF Started
<1>6. CASE Goroutines \ (Drawers \cup {"RequestSender"}) \subseteq running
  BY <1>3, <1>4, <1>6 DEF Started
<1> QED BY <1>5, <1>6 DEF Started

\* Nobody begins a round before that: main is busy.
LEMMA BeginStarted ==
  ASSUME TypeOK, Started, NEW g \in Goroutines, Begin(g)
  PROVE  Started'
<1>1. running' = running /\ g \in running /\ ~Busy(g)
  BY DEF Begin
<1>2. CASE running = {"main"} /\ todo["main"] \in StartUp
  <2>1. todo["main"] # <<>>
    BY <1>2, RoundsType
  <2> QED BY <1>1, <1>2, <2>1 DEF Busy
<1>3. CASE Goroutines \ (Drawers \cup {"RequestSender"}) \subseteq running
  BY <1>1, <1>3 DEF Started
<1> QED BY <1>2, <1>3 DEF Started

\* The invariant holds at first.
LEMMA LocksInit == ASSUME Init PROVE LocksInv
<1>1. TypeOK
  BY TypeInit
<1>2. PICK p \in StartUp : todo = [g \in Goroutines |-> IF g = "main" THEN p ELSE <<>>]
  BY DEF Init
<1>3. "main" \in Goroutines
  BY DEF Goroutines
<1>4. \A g \in Goroutines : Orderly(g, todo[g])
  BY <1>2, EmptyOrderly, WaysOrderly DEF RoundsOrderly
<1>5. Underway
  BY <1>2, <1>4 DEF Init, Underway, Busy
<1>6. Started
  BY <1>2, <1>3 DEF Init, Started
<1> QED BY <1>1, <1>5, <1>6, LocksParts

\* Every step preserves it.
LEMMA LocksStep == ASSUME LocksInv, [Next]_vars PROVE LocksInv'
<1>1. TypeOK /\ Underway /\ Started
  BY LocksParts
<1>2. TypeOK'
  BY <1>1, TypeStep
<1>3. Underway' /\ Started'
  <2>1. CASE UNCHANGED vars
    BY <1>1, <2>1 DEF vars, Underway, Started, Busy, Orderly, Ascends
  <2>2. ASSUME NEW g \in Goroutines, Begin(g) PROVE Underway' /\ Started'
    BY <1>1, <2>2, BeginUnderway, BeginStarted
  <2>3. ASSUME NEW g \in Goroutines, Step(g) PROVE Underway' /\ Started'
    BY <1>1, <2>3, StepUnderway, StepStarted
  <2> QED BY <2>1, <2>2, <2>3 DEF Next
<1> QED BY <1>2, <1>3 DEF LocksInv, Underway, Started

\* THEOREM: whoever waits does so in the order of Rank, in every behaviour, and
\* all that receive for the package run from the start on.
THEOREM LocksOrdered == Spec => []LocksInv
<1>1. Init => LocksInv
  BY LocksInit
<1>2. LocksInv /\ [Next]_vars => LocksInv'
  BY LocksStep
<1> QED BY <1>1, <1>2, PTL DEF Spec

-----------------------------------------------------------------------------
(* Who waits for whom *)

\* A set of numbers up to 11 has a greatest.
LEMMA Greatest ==
  ASSUME NEW T, T \subseteq 0..11, T # {}
  PROVE  \E m \in T : \A n \in T : n <= m
<1> SUFFICES ASSUME \A m \in T : \E n \in T : n > m PROVE FALSE
  OBVIOUS
<1>1. \A m \in T : m <= 10
  OBVIOUS
<1>2. \A m \in T : m <= 9
  BY <1>1
<1>3. \A m \in T : m <= 8
  BY <1>2
<1>4. \A m \in T : m <= 7
  BY <1>3
<1>5. \A m \in T : m <= 6
  BY <1>4
<1>6. \A m \in T : m <= 5
  BY <1>5
<1>7. \A m \in T : m <= 4
  BY <1>6
<1>8. \A m \in T : m <= 3
  BY <1>7
<1>9. \A m \in T : m <= 2
  BY <1>8
<1>10. \A m \in T : m <= 1
  BY <1>9
<1>11. \A m \in T : m <= 0
  BY <1>10
<1>12. PICK m \in T : \E n \in T : n > m
  OBVIOUS
<1> QED BY <1>11, <1>12

\* Of goroutines that wait, one wants what is last in the order.
LEMMA LastInOrder ==
  ASSUME TypeOK, NEW D, D \subseteq Waiting, D # {}
  PROVE  \E g \in D : \A h \in D : Rank[Wants(h)] <= Rank[Wants(g)]
<1> DEFINE T == {Rank[Wants(h)] : h \in D}
<1>1. ASSUME NEW h \in D PROVE Rank[Wants(h)] \in 0..11
  <2>1. h \in Goroutines /\ Busy(h)
    BY DEF Waiting, Blocked
  <2> QED BY <2>1, StationTypes, RankType
<1>2. T \subseteq 0..11 /\ T # {}
  BY <1>1
<1>3. PICK m \in T : \A n \in T : n <= m
  BY <1>2, Greatest
<1> QED BY <1>3

\* Everybody at a station wants what comes after all that is held there, and
\* after the channel that is its own to read.
LEMMA WaiterAscends ==
  ASSUME LocksInv, NEW g \in Goroutines, Busy(g)
  PROVE  Ascends(g, Head(todo[g])) /\ Wants(g) = Head(todo[g]).wants
         /\ Wants(g) \in Mutexes \cup Channels /\ g \in running
<1>1. TypeOK /\ Underway
  BY LocksParts
<1>2. todo[g] \in Seq(Station) /\ todo[g] # <<>> /\ Wants(g) \in Mutexes \cup Channels
  BY <1>1, StationTypes
<1>3. Head(todo[g]) = todo[g][1] /\ 1 \in DOMAIN todo[g]
  BY <1>2, TailWay
<1> QED BY <1>1, <1>2, <1>3 DEF Underway, Orderly, Wants

\* Who holds a mutex wants something that comes after it.
LEMMA HolderWantsMore ==
  ASSUME LocksInv, NEW h \in Goroutines, NEW x \in Held(h)
  PROVE  Busy(h) /\ h \in running /\ Rank[x] < Rank[Wants(h)]
<1>1. Busy(h) /\ x \in Head(todo[h]).held
  BY DEF Held
<1> QED BY <1>1, WaiterAscends DEF Ascends

\* So does who has a channel to read.
LEMMA ReceiverWantsMore ==
  ASSUME LocksInv, NEW c \in Channels, c # "RequestChan", Busy(Receiver[c])
  PROVE  Rank[c] < Rank[Wants(Receiver[c])]
<1>1. Receiver[c] \in Goroutines
  BY DEF Goroutines, Receivers
<1> QED BY <1>1, WaiterAscends DEF Ascends

\* A channel is full only if the goroutine that reads it runs, unless it draws
\* or is RequestSender.
LEMMA FullIsRead ==
  ASSUME LocksInv, NEW c \in Channels, ~Free(c),
         Receiver[c] \notin Drawers, Receiver[c] # "RequestSender"
  PROVE  Receiver[c] \in running
<1>1. Receiver[c] \in Goroutines
  BY DEF Goroutines, Receivers
<1>2. queued[c] # 0
  BY CapacityAssumption DEF Free, CapacityAssumption
<1>3. Started
  BY LocksParts
<1> QED BY <1>1, <1>2, <1>3 DEF Started

\* The channels and who reads them.
LEMMA WhoReads ==
  ASSUME NEW c \in Channels
  PROVE  /\ Receiver[c] \in Drawers <=> c \in {"statusChan", "chatChan"}
         /\ Receiver[c] = "RequestSender" <=> c = "RequestChan"
BY DEF Channels, Receiver, Drawers

\* In a hopeless set, who waits for a mutex that was not lost waits for a
\* member that wants something later in the order.
LEMMA MutexLeadsOn ==
  ASSUME LocksInv, NEW D, D \subseteq Waiting, Hopeless(D), NEW g \in D,
         Wants(g) \notin Channels, Wants(g) \notin lost
  PROVE  \E h \in D : Rank[Wants(g)] < Rank[Wants(h)]
<1>1. g \in Goroutines /\ ~Free(Wants(g))
  BY DEF Waiting, Blocked
<1>2. PICK h \in Goroutines : Wants(g) \in Held(h)
  BY <1>1 DEF Free
<1>3. h \in WaitsFor(g)
  BY <1>2 DEF WaitsFor
<1>4. h \in running /\ Rank[Wants(g)] < Rank[Wants(h)]
  BY <1>2, HolderWantsMore
<1>5. h \in D
  BY <1>3, <1>4 DEF Hopeless
<1> QED BY <1>4, <1>5

\* So does who waits at a channel that somebody reads, but for RequestChan.
LEMMA ChannelLeadsOn ==
  ASSUME LocksInv, NEW D, D \subseteq Waiting, Hopeless(D), NEW g \in D,
         Wants(g) \in Channels, Wants(g) # "RequestChan",
         Wants(g) \in {"statusChan", "chatChan"} => Drawers \subseteq running
  PROVE  \E h \in D : Rank[Wants(g)] < Rank[Wants(h)]
<1> DEFINE c == Wants(g)
           r == Receiver[c]
<1>1. ~Free(c)
  BY DEF Waiting, Blocked
<1>2. r \in running
  <2>1. CASE r \in Drawers
    BY <2>1, WhoReads
  <2>2. CASE r \notin Drawers
    BY <1>1, <2>2, WhoReads, FullIsRead
  <2> QED BY <2>1, <2>2
<1>3. r \in D
  BY <1>2 DEF Hopeless, WaitsFor
<1>4. Busy(r)
  BY <1>3 DEF Waiting, Blocked
<1> QED BY <1>3, <1>4, ReceiverWantsMore

\* A hopeless set has a member that waits in a known way: the one that wants
\* what is last in the order cannot wait in another.
LEMMA Deadlocks == ASSUME LocksInv PROVE OnlyKnownDeadlocks
<1> SUFFICES ASSUME NEW D, D \subseteq Waiting, Hopeless(D), \A g \in D : ~Known(g)
             PROVE  FALSE
  BY DEF OnlyKnownDeadlocks
<1>1. TypeOK /\ D # {}
  BY LocksParts DEF Hopeless
<1>2. PICK g \in D : \A h \in D : Rank[Wants(h)] <= Rank[Wants(g)]
  BY <1>1, LastInOrder
<1>3. \A h \in D : Rank[Wants(h)] \in Int
  <2> SUFFICES ASSUME NEW h \in D PROVE Rank[Wants(h)] \in Int
    OBVIOUS
  <2>1. h \in Goroutines /\ Busy(h)
    BY DEF Waiting, Blocked
  <2> QED BY <1>1, <2>1, StationTypes, RankType
<1>4. ~(\E h \in D : Rank[Wants(g)] < Rank[Wants(h)])
  BY <1>2, <1>3
<1>5. Wants(g) \in Channels
  BY <1>4, MutexLeadsOn DEF Known
<1> QED BY <1>4, <1>5, ChannelLeadsOn DEF Known

\* What output wants is what comes last.
LEMMA OutputLast ==
  ASSUME NEW x \in Mutexes \cup Channels
  PROVE  x \in Output <=> Rank[x] >= 9
BY DEF Output, Rank, Mutexes, Channels, Receiver

\* Nobody who waits for output waits for ever: of those who do, the one that
\* wants what is last would wait for another.
LEMMA Flows == ASSUME LocksInv PROVE OutputFlows
<1> SUFFICES ASSUME Drawers \subseteq running, NEW D, D \subseteq Waiting, Hopeless(D),
                    NEW g0 \in D, Wants(g0) \in Output
             PROVE  FALSE
  BY DEF OutputFlows
<1>1. TypeOK /\ lost \cap Output = {}
  BY LocksParts DEF Underway
<1>2. PICK g \in D : \A h \in D : Rank[Wants(h)] <= Rank[Wants(g)]
  BY <1>1, LastInOrder
<1>3. \A h \in D : Wants(h) \in Mutexes \cup Channels /\ Rank[Wants(h)] \in Int
  <2> SUFFICES ASSUME NEW h \in D
               PROVE  Wants(h) \in Mutexes \cup Channels /\ Rank[Wants(h)] \in Int
    OBVIOUS
  <2>1. h \in Goroutines /\ Busy(h)
    BY DEF Waiting, Blocked
  <2> QED BY <1>1, <2>1, StationTypes, RankType
<1>4. Wants(g) \in Output
  BY <1>2, <1>3, OutputLast
<1>5. Wants(g) \notin lost /\ Wants(g) # "RequestChan"
  BY <1>1, <1>4 DEF Output
<1>6. ~(\E h \in D : Rank[Wants(g)] < Rank[Wants(h)])
  BY <1>2, <1>3
<1>7. Wants(g) \in Channels
  BY <1>5, <1>6, MutexLeadsOn
<1> QED BY <1>5, <1>6, <1>7, ChannelLeadsOn

\* THEOREM: goroutines that wait for each other for ever do so for room in
\* RequestChan, for an invite list that /accept kept locked, or for a screen that
\* nobody draws on yet.
THEOREM NoOtherDeadlock == Spec => []OnlyKnownDeadlocks
<1>1. LocksInv => OnlyKnownDeadlocks
  BY Deadlocks
<1> QED BY <1>1, LocksOrdered, PTL

\* THEOREM: once there is somebody to draw, statuses and chats flow, whatever
\* else has come to a standstill.
THEOREM NothingStopsOutput == Spec => []OutputFlows
<1>1. LocksInv => OutputFlows
  BY Flows
<1> QED BY <1>1, LocksOrdered, PTL
=============================================================================
