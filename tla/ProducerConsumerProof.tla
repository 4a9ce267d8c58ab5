----------------------- MODULE ProducerConsumerProof -----------------------
(***************************************************************************)
(* Proofs about ProducerConsumer, both programs at once, for every number  *)
(* of consumers and of elements: what is in the queue is always the end of *)
(* what has been pushed, so the values popped are its beginning, and every *)
(* element popped is in some consumer's sum or about to be.                *)
(***************************************************************************)
EXTENDS ProducerConsumer, FiniteSetTheorems, WellFoundedInduction, TLAPS

---------------------------------------------------------------------------
\* The inductive invariant, by its parts.

\* Whoever is between lock and unlock owns the mutex, and nobody else.
MutexOwned ==
  /\ \A c \in Consumers : pc[c] \in {"test", "pop"} <=> mutex = c
  /\ main \in {"push", "unlock"} <=> mutex = Main

\* How far main is. The late initialisation of the queue finds it empty.
Progress ==
  /\ main \in {"create", "init"} => i = 0 /\ queue = <<>>
  /\ main \in {"lock", "push"} => i < ElementCount + ConsumerCount
  /\ main \in {"join", "done"} => i = ElementCount + ConsumerCount
  /\ main \in {"init", "lock", "push", "unlock"} => j = 0

\* The consumers that do not exist are those main has yet to create, and those
\* it has joined have exited.
Lifecycle ==
  /\ main = "create" => \A c \in Consumers : c < j <=> pc[c] # "none"
  /\ main # "create" => \A c \in Consumers : pc[c] # "none"
  /\ main = "join" => \A c \in Consumers : c < j => pc[c] = "exited"
  /\ main = "done" => \A c \in Consumers : pc[c] = "exited"

Popped == i - Len(queue)

\* The queue holds the end of what has been pushed, in that order.
Fifo ==
  /\ Len(queue) <= i
  /\ \A n \in 1 .. Len(queue) : queue[n] = Pushed(Popped + n)

PopReady == \A c \in Consumers : pc[c] = "pop" => queue # <<>>

Stopped == {c \in Consumers : \/ pc[c] = "exited"
                              \/ pc[c] = "use" /\ value[c] = INT_MAX}

\* Each sentinel popped has stopped one consumer.
StoppedBySentinel ==
  Cardinality(Stopped) = IF Popped > ElementCount THEN Popped - ElementCount ELSE 0

\* Only task_3 sleeps.
Polling == program = "task_2" => asleep = {}

Awake == {c \in Consumers : \/ pc[c] \in {"start", "lock", "test", "relock", "pop"}
                            \/ pc[c] = "use" /\ value[c] # INT_MAX}

\* The values in the queue do not outnumber those that will come for them,
\* unless nobody sleeps.
Attended == asleep # {} => Len(queue) <= Cardinality(Awake)

Joined(c) == main = "done" \/ (main = "join" /\ c < j)

\* What c has added and main has not, and what it is about to add.
Share(c) ==
  IF Joined(c) \/ pc[c] \in {"none", "start"} THEN 0
  ELSE IF pc[c] = "use" /\ value[c] # INT_MAX THEN sum[c] + value[c] ELSE sum[c]

shares == [c \in Consumers |-> Share(c)]

\* x is the sum of f over the consumers: p[c] is the sum up to the c-th.
IsSum(f, x) ==
  \E p \in [0 .. ConsumerCount -> Int] :
    /\ p[0] = 0
    /\ \A c \in Consumers : p[c + 1] = p[c] + f[c]
    /\ p[ConsumerCount] = x

\* The sum of the first n pushes that are elements.
Total(n) ==
  LET m == IF n > ElementCount THEN ElementCount ELSE n
  IN IF m % 2 = 0 THEN -(m \div 2) ELSE (m + 1) \div 2

\* Every element popped is in somebody's share or in the final sum, once.
Accounted == IsSum(shares, Total(Popped) - final_sum)

IInv ==
  /\ TypeOK
  /\ MutexOwned
  /\ Progress
  /\ Lifecycle
  /\ Fifo
  /\ PopReady
  /\ StoppedBySentinel
  /\ Polling
  /\ Attended
  /\ Accounted

---------------------------------------------------------------------------
\* Facts about pushes, sums, and sets of consumers.

\* The pushes after the elements, and no others, are sentinels.
LEMMA PushedIs ==
  ASSUME NEW n \in 1 .. ElementCount + ConsumerCount
  PROVE  /\ Pushed(n) \in Values /\ Pushed(n) \in Int
         /\ Pushed(n) = INT_MAX <=> n > ElementCount
<1>1. Pushed(n) \in Values
  BY DEF Values
<1>2. Pushed(n) \in Int /\ (Pushed(n) = INT_MAX <=> n > ElementCount)
  BY ElementsAssumption, ConsumersAssumption DEF Pushed
<1> QED BY <1>1, <1>2

LEMMA ValuesAreInts == \A v \in Values : v \in Int
BY PushedIs DEF Values

LEMMA ShareType ==
  ASSUME TypeOK
  PROVE  /\ \A c \in Consumers : value[c] \in Int /\ sum[c] \in Int
         /\ shares \in [Consumers -> Int]
<1>1. \A c \in Consumers : value[c] \in Int
  <2> SUFFICES ASSUME NEW c \in Consumers PROVE value[c] \in Int
    OBVIOUS
  <2>1. value[c] \in Values \/ value[c] = 0
    BY DEF TypeOK
  <2>2. value[c] \in Values => value[c] \in Int
    BY ValuesAreInts
  <2> QED BY <2>1, <2>2
<1>2. \A c \in Consumers : sum[c] \in Int
  BY DEF TypeOK
<1>3. \A c \in Consumers : Share(c) \in Int
  BY <1>1, <1>2 DEF Share
<1> QED BY <1>1, <1>2, <1>3 DEF shares

\* The total grows by each element and by no sentinel.
LEMMA TotalStep ==
  ASSUME NEW n \in Nat
  PROVE  /\ Total(n) \in Int
         /\ Total(n + 1) =
              IF n + 1 > ElementCount THEN Total(n) ELSE Total(n) + Pushed(n + 1)
<1>1. Total(n) \in Int
  BY ElementsAssumption DEF Total
<1>2. CASE n + 1 > ElementCount
  BY <1>2, ElementsAssumption DEF Total
<1>3. CASE ~(n + 1 > ElementCount)
  <2>1. /\ Total(n) = IF n % 2 = 0 THEN -(n \div 2) ELSE (n + 1) \div 2
        /\ Total(n + 1) = IF (n + 1) % 2 = 0 THEN -((n + 1) \div 2)
                          ELSE (n + 2) \div 2
        /\ Pushed(n + 1) = IF (n + 1) % 2 = 1 THEN n + 1 ELSE -(n + 1)
    BY <1>3, ElementsAssumption DEF Total, Pushed
  <2>2. Total(n + 1) = Total(n) + Pushed(n + 1)
    BY <2>1
  <2> QED BY <1>1, <1>3, <2>2
<1> QED BY <1>1, <1>2, <1>3

\* One summand more moves the partial sums from there on.
LEMMA SumStep ==
  ASSUME NEW f \in [Consumers -> Int], NEW x \in Int, IsSum(f, x),
         NEW c \in Consumers, NEW d \in Int
  PROVE  IsSum([f EXCEPT ![c] = f[c] + d], x + d)
<1> DEFINE g == [f EXCEPT ![c] = f[c] + d]
<1>1. PICK p \in [0 .. ConsumerCount -> Int] :
        /\ p[0] = 0
        /\ \A b \in Consumers : p[b + 1] = p[b] + f[b]
        /\ p[ConsumerCount] = x
  BY DEF IsSum
<1> DEFINE q == [b \in 0 .. ConsumerCount |-> IF b > c THEN p[b] + d ELSE p[b]]
<1>2. q \in [0 .. ConsumerCount -> Int]
  BY <1>1
<1>3. c \in Nat /\ c < ConsumerCount
  BY ConsumersAssumption DEF Consumers
<1>4. q[0] = 0 /\ q[ConsumerCount] = x + d
  BY <1>1, <1>3, ConsumersAssumption
<1>5. ASSUME NEW b \in Consumers
      PROVE  q[b + 1] = q[b] + g[b]
  <2>1. b \in 0 .. ConsumerCount /\ b + 1 \in 0 .. ConsumerCount
    BY ConsumersAssumption DEF Consumers
  <2>2. p[b] \in Int /\ f[b] \in Int /\ p[b + 1] = p[b] + f[b]
    BY <1>1, <2>1
  <2>3. CASE b = c
    BY <1>3, <2>1, <2>2, <2>3
  <2>4. CASE b # c
    BY <1>3, <2>1, <2>2, <2>4
  <2> QED BY <2>3, <2>4
<1> HIDE DEF q, g
<1>6. IsSum(g, x + d)
  BY <1>2, <1>4, <1>5 DEF IsSum
<1> QED BY <1>6 DEF g

\* A sum of zeros is zero: a first partial sum that is not cannot exist.
LEMMA SumOfZeros ==
  ASSUME NEW f, \A c \in Consumers : f[c] = 0, NEW x, IsSum(f, x)
  PROVE  x = 0
<1>1. PICK p \in [0 .. ConsumerCount -> Int] :
        /\ p[0] = 0
        /\ \A b \in Consumers : p[b + 1] = p[b] + f[b]
        /\ p[ConsumerCount] = x
  BY DEF IsSum
<1> DEFINE Bad == {n \in 0 .. ConsumerCount : p[n] # 0}
<1>2. Bad \subseteq Nat
  BY ConsumersAssumption
<1>3. ASSUME Bad # {} PROVE FALSE
  <2>1. PICK n \in Bad : \A m \in Bad : ~ (<<m, n>> \in OpToRel(<, Nat))
    <3> HIDE DEF Bad
    <3> QED BY <1>2, <1>3, NatLessThanWellFounded, WFMin
  <2>2. \A m \in Bad : ~(m < n)
    <3> HIDE DEF Bad
    <3> QED BY <1>2, <2>1 DEF OpToRel
  <2>3. n \in 0 .. ConsumerCount /\ p[n] # 0 /\ n # 0
    BY <1>1
  <2>4. n - 1 \in Consumers /\ n - 1 \in 0 .. ConsumerCount /\ n - 1 < n
    BY <2>3, ConsumersAssumption DEF Consumers
  <2>5. p[n - 1] # 0
    <3>1. p[(n - 1) + 1] = p[n - 1] + f[n - 1] /\ f[n - 1] = 0
      BY <1>1, <2>4
    <3>2. (n - 1) + 1 = n
      BY <2>3
    <3> QED BY <2>3, <2>4, <3>1, <3>2
  <2> QED BY <2>2, <2>4, <2>5
<1>4. ConsumerCount \in 0 .. ConsumerCount
  BY ConsumersAssumption
<1> QED BY <1>1, <1>3, <1>4

LEMMA ConsumerSets ==
  /\ IsFiniteSet(Consumers) /\ Cardinality(Consumers) = ConsumerCount
  /\ \A S \in SUBSET Consumers : IsFiniteSet(S) /\ Cardinality(S) \in Nat
  /\ \A S, T \in SUBSET Consumers :
       S \subseteq T => Cardinality(S) <= Cardinality(T)
<1>1. IsFiniteSet(Consumers) /\ Cardinality(Consumers) = ConsumerCount
  BY ConsumersAssumption, FS_Interval DEF Consumers
<1>2. \A S \in SUBSET Consumers : IsFiniteSet(S) /\ Cardinality(S) \in Nat
  BY <1>1, FS_Subset, FS_CardinalityType
<1>3. \A S, T \in SUBSET Consumers :
        S \subseteq T => Cardinality(S) <= Cardinality(T)
  BY <1>2, FS_Subset
<1> QED BY <1>1, <1>2, <1>3

\* What Append and Tail do to a queue of values.
LEMMA QueueStep ==
  ASSUME NEW q \in Seq(Values)
  PROVE  /\ Len(q) \in Nat
         /\ \A n \in 1 .. Len(q) : q[n] \in Values
         /\ q = <<>> <=> Len(q) = 0
         /\ \A v \in Values :
              /\ Append(q, v) \in Seq(Values)
              /\ Len(Append(q, v)) = Len(q) + 1
              /\ Append(q, v)[Len(q) + 1] = v
              /\ \A n \in 1 .. Len(q) : Append(q, v)[n] = q[n]
         /\ q # <<>> =>
              /\ Head(q) = q[1] /\ Head(q) \in Values
              /\ Tail(q) \in Seq(Values)
              /\ Len(Tail(q)) = Len(q) - 1
              /\ \A n \in 1 .. Len(q) - 1 : Tail(q)[n] = q[n + 1]
OBVIOUS

---------------------------------------------------------------------------
\* Most steps touch neither the queue nor a share.
LEMMA QuietStep ==
  ASSUME IInv, UNCHANGED <<queue, i, final_sum>>,
         Stopped' = Stopped,
         \A c \in Consumers : Share(c)' = Share(c),
         asleep' # {} => asleep # {} /\ Awake \subseteq Awake'
  PROVE  Fifo' /\ StoppedBySentinel' /\ Attended' /\ Accounted'
<1>1. Popped' = Popped
  BY DEF Popped
<1>2. Fifo' /\ StoppedBySentinel'
  BY <1>1 DEF IInv, Fifo, StoppedBySentinel
<1>3. Attended'
  <2> SUFFICES ASSUME asleep' # {} PROVE Len(queue') <= Cardinality(Awake')
    BY DEF Attended
  <2>1. Len(queue) <= Cardinality(Awake) /\ Len(queue) \in Nat
    BY QueueStep DEF IInv, Attended, TypeOK
  <2>2. Awake \in SUBSET Consumers /\ Awake' \in SUBSET Consumers
    BY DEF Awake
  <2>3. Awake \subseteq Awake'
    OBVIOUS
  <2>4. Cardinality(Awake) <= Cardinality(Awake')
    <3> DEFINE A == Awake
               B == Awake'
    <3>1. A \in SUBSET Consumers /\ B \in SUBSET Consumers /\ A \subseteq B
      BY <2>2, <2>3
    <3> HIDE DEF A, B
    <3>2. Cardinality(A) <= Cardinality(B)
      BY <3>1, ConsumerSets
    <3> QED BY <3>2 DEF A, B
  <2>5. Cardinality(Awake) \in Nat /\ Cardinality(Awake') \in Nat
    BY <2>2, ConsumerSets
  <2> QED BY <2>1, <2>4, <2>5
<1>4. Accounted'
  <2>1. shares' = shares
    BY DEF shares
  <2> QED BY <1>1, <2>1 DEF IInv, Accounted, IsSum
<1> QED BY <1>2, <1>3, <1>4

LEMMA InitInv == Init => IInv
<1> SUFFICES ASSUME Init PROVE IInv
  OBVIOUS
<1> USE DEF Init
<1>1. TypeOK
  BY ConsumersAssumption, ElementsAssumption DEF TypeOK, Consumers, Garbage
<1>2. MutexOwned /\ Progress /\ Lifecycle
  BY ConsumersAssumption DEF MutexOwned, Progress, Lifecycle, Consumers
<1>3. Popped = 0 /\ Fifo /\ PopReady
  <2>1. Len(queue) = 0 /\ i = 0 /\ \A c \in Consumers : pc[c] # "pop"
    OBVIOUS
  <2> HIDE DEF Init
  <2>2. Popped = 0
    BY <2>1 DEF Popped
  <2>3. Fifo
    BY <2>1 DEF Fifo
  <2> QED BY <2>1, <2>2, <2>3 DEF PopReady
<1>4. StoppedBySentinel
  <2>1. Stopped = {}
    BY DEF Stopped
  <2> QED BY <1>3, <2>1, FS_EmptySet, ElementsAssumption DEF StoppedBySentinel
<1>5. Polling /\ Attended
  BY DEF Polling, Attended, asleep
<1>6. Accounted
  <2>1. \A c \in Consumers : shares[c] = 0
    BY DEF shares, Share
  <2>2. Total(0) = 0
    BY ElementsAssumption DEF Total
  <2> DEFINE p == [b \in 0 .. ConsumerCount |-> 0]
  <2>3. /\ p \in [0 .. ConsumerCount -> Int] /\ p[0] = 0 /\ p[ConsumerCount] = 0
        /\ \A c \in Consumers : p[c + 1] = p[c] + shares[c]
    BY <2>1, ConsumersAssumption DEF Consumers
  <2> HIDE DEF p
  <2>4. IsSum(shares, 0)
    BY <2>3 DEF IsSum
  <2> QED BY <1>3, <2>2, <2>4 DEF Accounted
<1> QED BY <1>1, <1>2, <1>3, <1>4, <1>5, <1>6 DEF IInv

LEMMA StartInv ==
  ASSUME IInv, NEW c \in Consumers, Start(c)
  PROVE  IInv'
<1> USE DEF IInv, Start, Goto, mains
<1>1. TypeOK'
  BY ConsumersAssumption DEF TypeOK
<1>2. MutexOwned' /\ Progress' /\ Lifecycle' /\ PopReady' /\ Polling'
  BY ConsumersAssumption
     DEF TypeOK, MutexOwned, Progress, Lifecycle, PopReady, Polling, asleep
<1>3. Stopped' = Stopped
  BY DEF Stopped, TypeOK
<1>4. \A d \in Consumers : Share(d)' = Share(d)
  BY ConsumersAssumption DEF Share, Joined, Lifecycle, TypeOK
<1>5. asleep' # {} => asleep # {} /\ Awake \subseteq Awake'
  BY DEF Awake, asleep, TypeOK
<1>6. Fifo' /\ StoppedBySentinel' /\ Attended' /\ Accounted'
  BY <1>3, <1>4, <1>5, QuietStep
<1> QED BY <1>1, <1>2, <1>6

LEMMA LockInv ==
  ASSUME IInv, NEW c \in Consumers, Lock(c)
  PROVE  IInv'
<1> USE DEF IInv, Lock, Goto, mains
<1>1. TypeOK'
  BY ConsumersAssumption DEF TypeOK
<1>2. MutexOwned' /\ Progress' /\ Lifecycle' /\ PopReady' /\ Polling'
  BY ConsumersAssumption
     DEF TypeOK, MutexOwned, Progress, Lifecycle, PopReady, Polling, asleep
<1>3. Stopped' = Stopped
  BY DEF Stopped, TypeOK
<1>4. \A d \in Consumers : Share(d)' = Share(d)
  BY ConsumersAssumption DEF Share, Joined, Lifecycle, TypeOK
<1>5. asleep' # {} => asleep # {} /\ Awake \subseteq Awake'
  BY DEF Awake, asleep, TypeOK
<1>6. Fifo' /\ StoppedBySentinel' /\ Attended' /\ Accounted'
  BY <1>3, <1>4, <1>5, QuietStep
<1> QED BY <1>1, <1>2, <1>6

LEMMA TestInv ==
  ASSUME IInv, NEW c \in Consumers, Test(c)
  PROVE  IInv'
<1> USE DEF IInv, Test, Goto, mains
<1>1. TypeOK'
  BY ConsumersAssumption DEF TypeOK
<1>2. MutexOwned' /\ Progress' /\ Lifecycle' /\ PopReady' /\ Polling'
  BY ConsumersAssumption
     DEF TypeOK, MutexOwned, Progress, Lifecycle, PopReady, Polling, asleep
<1>3. Stopped' = Stopped
  BY DEF Stopped, TypeOK
<1>4. \A d \in Consumers : Share(d)' = Share(d)
  BY ConsumersAssumption DEF Share, Joined, Lifecycle, TypeOK
<1>5. asleep' # {} => asleep # {} /\ Awake \subseteq Awake'
  BY DEF Awake, asleep, TypeOK
<1>6. Fifo' /\ StoppedBySentinel' /\ Attended' /\ Accounted'
  BY <1>3, <1>4, <1>5, QuietStep
<1> QED BY <1>1, <1>2, <1>6

LEMMA RetryInv ==
  ASSUME IInv, NEW c \in Consumers, Retry(c)
  PROVE  IInv'
<1> USE DEF IInv, Retry, Goto, mains
<1>1. TypeOK'
  BY ConsumersAssumption DEF TypeOK
<1>2. MutexOwned' /\ Progress' /\ Lifecycle' /\ PopReady' /\ Polling'
  BY ConsumersAssumption
     DEF TypeOK, MutexOwned, Progress, Lifecycle, PopReady, Polling, asleep
<1>3. Stopped' = Stopped
  BY DEF Stopped, TypeOK
<1>4. \A d \in Consumers : Share(d)' = Share(d)
  BY ConsumersAssumption DEF Share, Joined, Lifecycle, TypeOK
<1>5. asleep' # {} => asleep # {} /\ Awake \subseteq Awake'
  BY DEF Awake, asleep, TypeOK
<1>6. Fifo' /\ StoppedBySentinel' /\ Attended' /\ Accounted'
  BY <1>3, <1>4, <1>5, QuietStep
<1> QED BY <1>1, <1>2, <1>6

LEMMA WakeInv ==
  ASSUME IInv, NEW c \in Consumers, Wake(c)
  PROVE  IInv'
<1> USE DEF IInv, Wake, Goto, mains
<1>1. TypeOK'
  BY ConsumersAssumption DEF TypeOK
<1>2. MutexOwned' /\ Progress' /\ Lifecycle' /\ PopReady' /\ Polling'
  BY ConsumersAssumption
     DEF TypeOK, MutexOwned, Progress, Lifecycle, PopReady, Polling, asleep
<1>3. Stopped' = Stopped
  BY DEF Stopped, TypeOK
<1>4. \A d \in Consumers : Share(d)' = Share(d)
  BY ConsumersAssumption DEF Share, Joined, Lifecycle, TypeOK
<1>5. asleep' # {} => asleep # {} /\ Awake \subseteq Awake'
  BY DEF Awake, asleep, TypeOK
<1>6. Fifo' /\ StoppedBySentinel' /\ Attended' /\ Accounted'
  BY <1>3, <1>4, <1>5, QuietStep
<1> QED BY <1>1, <1>2, <1>6

LEMMA SpuriousWakeupInv ==
  ASSUME IInv, NEW c \in Consumers, SpuriousWakeup(c)
  PROVE  IInv'
<1> USE DEF IInv, SpuriousWakeup, Goto, mains
<1>1. TypeOK'
  BY ConsumersAssumption DEF TypeOK
<1>2. MutexOwned' /\ Progress' /\ Lifecycle' /\ PopReady' /\ Polling'
  BY ConsumersAssumption
     DEF TypeOK, MutexOwned, Progress, Lifecycle, PopReady, Polling, asleep
<1>3. Stopped' = Stopped
  BY DEF Stopped, TypeOK
<1>4. \A d \in Consumers : Share(d)' = Share(d)
  BY ConsumersAssumption DEF Share, Joined, Lifecycle, TypeOK
<1>5. asleep' # {} => asleep # {} /\ Awake \subseteq Awake'
  BY DEF Awake, asleep, TypeOK
<1>6. Fifo' /\ StoppedBySentinel' /\ Attended' /\ Accounted'
  BY <1>3, <1>4, <1>5, QuietStep
<1> QED BY <1>1, <1>2, <1>6

\* A consumer goes to sleep on an empty queue only.
LEMMA CondWaitInv ==
  ASSUME IInv, NEW c \in Consumers, CondWait(c)
  PROVE  IInv'
<1> USE DEF IInv, CondWait, Goto, mains
<1>1. TypeOK'
  BY ConsumersAssumption DEF TypeOK
<1>2. MutexOwned' /\ Progress' /\ Lifecycle' /\ PopReady' /\ Polling'
  BY ConsumersAssumption
     DEF TypeOK, MutexOwned, Progress, Lifecycle, PopReady, Polling, asleep
<1>3. Stopped' = Stopped
  BY DEF Stopped, TypeOK
<1>4. Popped' = Popped
  BY DEF Popped
<1>5. Fifo' /\ StoppedBySentinel'
  BY <1>3, <1>4 DEF Fifo, StoppedBySentinel
<1>6. Attended'
  <2>1. Len(queue') = 0
    OBVIOUS
  <2>2. Awake' \in SUBSET Consumers
    BY DEF Awake
  <2>3. Cardinality(Awake') \in Nat
    BY <2>2, ConsumerSets
  <2> QED BY <2>1, <2>3 DEF Attended
<1>7. Accounted'
  <2>1. \A d \in Consumers : Share(d)' = Share(d)
    BY DEF Share, Joined, TypeOK
  <2>2. shares' = shares
    BY <2>1 DEF shares
  <2> QED BY <1>4, <2>2 DEF Accounted, IsSum
<1> QED BY <1>1, <1>2, <1>5, <1>6, <1>7

\* The value popped is the next one pushed: an element joins the share of its
\* consumer, a sentinel stops it.
LEMMA PopInv ==
  ASSUME IInv, NEW c \in Consumers, Pop(c)
  PROVE  IInv'
<1> USE DEF IInv
<1>1. /\ pc[c] = "pop" /\ pc' = [pc EXCEPT ![c] = "use"]
      /\ value' = [value EXCEPT ![c] = Head(queue)]
      /\ queue # <<>> /\ queue' = Tail(queue) /\ mutex' = None
      /\ UNCHANGED <<program, sum, main, i, j, final_sum>>
  BY DEF Pop, Goto, mains
<1>2. /\ Len(queue) \in Nat /\ Len(queue) # 0 /\ Head(queue) = queue[1]
      /\ Head(queue) \in Values
      /\ Tail(queue) \in Seq(Values) /\ Len(Tail(queue)) = Len(queue) - 1
      /\ \A n \in 1 .. Len(queue) - 1 : Tail(queue)[n] = queue[n + 1]
  BY <1>1, QueueStep DEF TypeOK
<1>3. /\ Popped \in Nat /\ Popped + 1 \in 1 .. ElementCount + ConsumerCount
      /\ Popped' = Popped + 1
  BY <1>1, <1>2, ElementsAssumption, ConsumersAssumption DEF Popped, Fifo, TypeOK
<1>4. Head(queue) = Pushed(Popped + 1)
  <2>1. 1 \in 1 .. Len(queue)
    BY <1>2
  <2> QED BY <1>2, <2>1 DEF Fifo
<1>5. /\ Head(queue) \in Int
      /\ Head(queue) = INT_MAX <=> Popped + 1 > ElementCount
  BY <1>3, <1>4, PushedIs
<1>6. TypeOK'
  BY <1>1, <1>2 DEF TypeOK
<1>7. MutexOwned' /\ Lifecycle' /\ Polling' /\ Progress'
  <2>1. MutexOwned'
    BY <1>1, ConsumersAssumption DEF MutexOwned, TypeOK
  <2>2. Progress'
    BY <1>1 DEF Progress
  <2>3. Lifecycle' /\ Polling'
    BY <1>1 DEF Lifecycle, Polling, asleep, TypeOK
  <2> QED BY <2>1, <2>2, <2>3
<1>8. PopReady'
  <2>1. \A d \in Consumers : pc'[d] # "pop"
    BY <1>1 DEF MutexOwned, TypeOK
  <2> QED BY <2>1 DEF PopReady
<1>9. Fifo'
  <2>1. Len(queue') <= i'
    BY <1>1, <1>2 DEF Fifo, TypeOK
  <2>2. ASSUME NEW n \in 1 .. Len(queue')
        PROVE  queue'[n] = Pushed(Popped' + n)
    <3>1. n \in Nat /\ n + 1 \in 1 .. Len(queue) /\ queue'[n] = queue[n + 1]
      BY <1>1, <1>2
    <3>2. queue[n + 1] = Pushed(Popped + (n + 1))
      BY <3>1 DEF Fifo
    <3>3. Popped + (n + 1) = Popped' + n
      BY <1>3, <3>1
    <3> QED BY <3>1, <3>2, <3>3
  <2> QED BY <2>1, <2>2 DEF Fifo
<1>10. StoppedBySentinel'
  <2>1. Stopped \in SUBSET Consumers /\ IsFiniteSet(Stopped)
    <3>1. Stopped \in SUBSET Consumers
      BY DEF Stopped
    <3> QED BY <3>1, ConsumerSets
  <2>2. CASE Head(queue) = INT_MAX
    <3>1. Stopped' = Stopped \cup {c} /\ c \notin Stopped
      BY <1>1, <2>2 DEF Stopped, TypeOK
    <3>2. Cardinality(Stopped') = Cardinality(Stopped) + 1
      BY <2>1, <3>1, FS_AddElement
    <3> QED
      BY <1>3, <1>5, <2>2, <3>2, ElementsAssumption DEF StoppedBySentinel
  <2>3. CASE Head(queue) # INT_MAX
    <3>1. Stopped' = Stopped
      BY <1>1, <2>3 DEF Stopped, TypeOK
    <3> QED
      BY <1>3, <1>5, <2>3, <3>1, ElementsAssumption DEF StoppedBySentinel
  <2> QED BY <2>2, <2>3
<1>11. Attended'
  <2> SUFFICES ASSUME asleep' # {} PROVE Len(queue') <= Cardinality(Awake')
    BY DEF Attended
  <2>1. asleep # {}
    BY <1>1 DEF asleep, TypeOK
  <2>2. c \in Awake /\ Awake \ {c} \subseteq Awake' /\ Awake' \subseteq Consumers
    BY <1>1 DEF Awake, TypeOK
  <2> DEFINE A == Awake
             B == Awake'
  <2>3. A \in SUBSET Consumers /\ B \in SUBSET Consumers /\ A \ {c} \in SUBSET Consumers
    BY <2>2 DEF Awake
  <2>4. Len(queue) <= Cardinality(A) /\ c \in A /\ A \ {c} \subseteq B
    BY <2>1, <2>2 DEF Attended
  <2> HIDE DEF A, B
  <2>5. /\ IsFiniteSet(A) /\ Cardinality(A) \in Nat /\ Cardinality(B) \in Nat
        /\ Cardinality(A \ {c}) <= Cardinality(B)
    BY <2>3, <2>4, ConsumerSets
  <2>6. Cardinality(A \ {c}) = Cardinality(A) - 1
    BY <2>4, <2>5, FS_RemoveElement
  <2>7. Len(queue') <= Cardinality(B)
    BY <1>1, <1>2, <2>4, <2>5, <2>6
  <2> QED BY <2>7 DEF B
<1>12. Accounted'
  <2> DEFINE d == IF Head(queue) = INT_MAX THEN 0 ELSE Head(queue)
  <2>1. d \in Int
    BY <1>5
  <2>2. Total(Popped) \in Int /\ Total(Popped') = Total(Popped) + d
    BY <1>3, <1>4, <1>5, TotalStep
  <2>3. shares \in [Consumers -> Int]
    BY ShareType
  <2>4. shares' = [shares EXCEPT ![c] = shares[c] + d]
    <3>1. ~Joined(c)
      BY <1>1 DEF Joined, Lifecycle
    <3>2. Share(c) = sum[c]
      BY <1>1, <3>1 DEF Share
    <3>3. Share(c)' = IF Head(queue) = INT_MAX THEN sum[c] ELSE sum[c] + Head(queue)
      BY <1>1, <3>1 DEF Share, Joined, TypeOK
    <3>4. Share(c)' = Share(c) + d
      <4>1. sum[c] \in Int
        BY DEF TypeOK
      <4> QED BY <3>2, <3>3, <4>1
    <3>5. \A b \in Consumers : b # c => Share(b)' = Share(b)
      BY <1>1 DEF Share, Joined, TypeOK
    <3> HIDE DEF d
    <3> QED BY <3>4, <3>5 DEF shares
  <2>5. Total(Popped) - final_sum \in Int
    BY <2>2 DEF TypeOK
  <2> HIDE DEF d
  <2>6. IsSum(shares', Total(Popped) - final_sum + d)
    BY <2>1, <2>3, <2>4, <2>5, SumStep DEF Accounted
  <2>7. Total(Popped') - final_sum' = Total(Popped) - final_sum + d
    BY <1>1, <2>1, <2>2 DEF TypeOK
  <2> QED BY <2>6, <2>7 DEF Accounted, IsSum
<1> QED BY <1>6, <1>7, <1>8, <1>9, <1>10, <1>11, <1>12

LEMMA UseInv ==
  ASSUME IInv, NEW c \in Consumers, Use(c)
  PROVE  IInv'
<1> USE DEF IInv, Use, Goto, mains
<1>1. TypeOK'
  <2>1. value[c] \in Int /\ sum[c] \in Int
    BY ShareType
  <2>2. sum[c] + value[c] \in Int
    BY <2>1
  <2>3. sum' \in [Consumers -> Int]
    BY <2>2 DEF TypeOK
  <2> QED BY <2>3 DEF TypeOK
<1>2. MutexOwned' /\ Progress' /\ Lifecycle' /\ PopReady' /\ Polling'
  BY ConsumersAssumption
     DEF TypeOK, MutexOwned, Progress, Lifecycle, PopReady, Polling, asleep
<1>3. Stopped' = Stopped
  BY DEF Stopped, TypeOK
<1>4. \A d \in Consumers : Share(d)' = Share(d)
  <2>1. ~Joined(c)
    BY DEF Joined, Lifecycle
  <2> QED BY <2>1 DEF Share, Joined, TypeOK
<1>5. asleep' # {} => asleep # {} /\ Awake \subseteq Awake'
  BY DEF Awake, asleep, TypeOK
<1>6. Fifo' /\ StoppedBySentinel' /\ Attended' /\ Accounted'
  BY <1>3, <1>4, <1>5, QuietStep
<1> QED BY <1>1, <1>2, <1>6

---------------------------------------------------------------------------
LEMMA CreateInv ==
  ASSUME IInv, Create
  PROVE  IInv'
<1> USE DEF IInv, Goto
<1>1. /\ main = "create" /\ pc[j] = "none" /\ pc' = [pc EXCEPT ![j] = "start"]
      /\ UNCHANGED <<program, queue, mutex, value, sum, i, final_sum>>
  BY DEF Create
<1>2. j \in Consumers /\ j \in Nat /\ j < ConsumerCount
  BY ConsumersAssumption DEF TypeOK, Consumers
<1>3. \/ j = ConsumerCount - 1 /\ j' = 0 /\ main' = "init"
      \/ j' = j + 1 /\ j' < ConsumerCount /\ main' = "create"
  BY <1>2, ConsumersAssumption DEF Create
<1>4. TypeOK'
  <2>1. j' \in Consumers /\ main' \in {"create", "init"}
    BY <1>2, <1>3, ConsumersAssumption DEF Consumers
  <2> QED BY <1>1, <2>1 DEF TypeOK
<1>5. MutexOwned' /\ PopReady' /\ Polling'
  BY <1>1, <1>3 DEF MutexOwned, PopReady, Polling, asleep, TypeOK
<1>6. Progress'
  BY <1>1, <1>3 DEF Progress
<1>7. Lifecycle'
  <2>1. \A c \in Consumers : pc'[c] # "none" <=> c <= j
    <3> SUFFICES ASSUME NEW c \in Consumers PROVE pc'[c] # "none" <=> c <= j
      OBVIOUS
    <3>1. c \in Nat
      BY DEF Consumers
    <3>2. CASE c = j
      BY <1>1, <1>2, <3>2 DEF TypeOK
    <3>3. CASE c # j
      <4>1. pc'[c] = pc[c]
        BY <1>1, <1>2, <3>3 DEF TypeOK
      <4>2. c < j <=> pc[c] # "none"
        BY <1>1 DEF Lifecycle
      <4>3. c < j <=> c <= j
        BY <1>2, <3>1, <3>3
      <4> QED BY <4>1, <4>2, <4>3
    <3> QED BY <3>2, <3>3
  <2>2. CASE main' = "init"
    <3>1. \A c \in Consumers : c <= j
      BY <1>2, <1>3, <2>2, ConsumersAssumption DEF Consumers
    <3> QED BY <2>1, <2>2, <3>1 DEF Lifecycle
  <2>3. CASE main' = "create"
    <3>1. j' = j + 1
      BY <1>3, <2>3
    <3>2. \A c \in Consumers : c < j' <=> c <= j
      BY <1>2, <3>1 DEF Consumers
    <3> QED BY <2>1, <2>3, <3>2 DEF Lifecycle
  <2> QED BY <1>3, <2>2, <2>3
<1>8. Stopped' = Stopped
  BY <1>1, <1>2 DEF Stopped, TypeOK
<1>9. \A c \in Consumers : Share(c)' = Share(c)
  <2>1. \A c \in Consumers : ~Joined(c) /\ ~Joined(c)'
    BY <1>1, <1>3 DEF Joined
  <2> QED BY <1>1, <1>2, <2>1 DEF Share, TypeOK
<1>10. asleep' # {} => asleep # {} /\ Awake \subseteq Awake'
  BY <1>1, <1>2 DEF Awake, asleep, TypeOK
<1>11. Fifo' /\ StoppedBySentinel' /\ Attended' /\ Accounted'
  BY <1>1, <1>8, <1>9, <1>10, QuietStep
<1> QED BY <1>4, <1>5, <1>6, <1>7, <1>11

\* Main initialises the queue after the consumers may have started; it is still
\* the empty one they saw.
LEMMA InitQueueInv ==
  ASSUME IInv, InitQueue
  PROVE  IInv'
<1> USE DEF IInv, InitQueue
<1>1. queue' = queue
  BY DEF Progress
<1>2. TypeOK'
  BY <1>1 DEF TypeOK
<1>3. MutexOwned' /\ Progress' /\ Lifecycle' /\ PopReady' /\ Polling'
  <2>1. Progress'
    BY ElementsAssumption, ConsumersAssumption DEF Progress
  <2> QED
    BY <1>1, <2>1 DEF MutexOwned, Lifecycle, PopReady, Polling, asleep
<1>4. Stopped' = Stopped /\ Awake' = Awake /\ asleep' = asleep
  BY DEF Stopped, Awake, asleep
<1>5. \A c \in Consumers : Share(c)' = Share(c)
  BY DEF Share, Joined
<1>6. Fifo' /\ StoppedBySentinel' /\ Attended' /\ Accounted'
  BY <1>1, <1>4, <1>5, QuietStep
<1> QED BY <1>2, <1>3, <1>6

LEMMA LockToPushInv ==
  ASSUME IInv, LockToPush
  PROVE  IInv'
<1> USE DEF IInv, LockToPush
<1>1. TypeOK'
  BY DEF TypeOK
<1>2. MutexOwned' /\ Progress' /\ Lifecycle' /\ PopReady' /\ Polling'
  BY ConsumersAssumption
     DEF MutexOwned, Progress, Lifecycle, PopReady, Polling, asleep, TypeOK
<1>3. Stopped' = Stopped /\ Awake' = Awake /\ asleep' = asleep
  BY DEF Stopped, Awake, asleep
<1>4. \A c \in Consumers : Share(c)' = Share(c)
  BY DEF Share, Joined
<1>5. Fifo' /\ StoppedBySentinel' /\ Attended' /\ Accounted'
  BY <1>3, <1>4, QuietStep
<1> QED BY <1>1, <1>2, <1>5

LEMMA UnlockInv ==
  ASSUME IInv, Unlock
  PROVE  IInv'
<1> USE DEF IInv, Unlock
<1>1. TypeOK'
  BY DEF TypeOK
<1>2. MutexOwned' /\ PopReady' /\ Polling'
  BY ConsumersAssumption DEF MutexOwned, PopReady, Polling, asleep, TypeOK
<1>3. Progress' /\ Lifecycle'
  <2>1. i \in 0 .. ElementCount + ConsumerCount /\ j = 0
    BY DEF TypeOK, Progress
  <2>2. Progress'
    BY <2>1, ElementsAssumption, ConsumersAssumption DEF Progress
  <2>3. \A c \in Consumers : ~(c < 0)
    BY DEF Consumers
  <2>4. Lifecycle'
    BY <2>1, <2>3 DEF Lifecycle
  <2> QED BY <2>2, <2>4
<1>4. Stopped' = Stopped /\ Awake' = Awake /\ asleep' = asleep
  BY DEF Stopped, Awake, asleep
<1>5. \A c \in Consumers : Share(c)' = Share(c)
  <2>1. \A c \in Consumers : ~Joined(c) /\ ~Joined(c)'
    BY DEF Joined, Progress, Consumers
  <2> QED BY <2>1 DEF Share
<1>6. Fifo' /\ StoppedBySentinel' /\ Attended' /\ Accounted'
  BY <1>4, <1>5, QuietStep
<1> QED BY <1>1, <1>2, <1>3, <1>6

\* A push to a queue somebody may sleep on wakes one of the sleepers for it.
LEMMA PushInv ==
  ASSUME IInv, Push
  PROVE  IInv'
<1> USE DEF IInv
<1>1. /\ main = "push" /\ main' = "unlock"
      /\ i' = i + 1 /\ queue' = Append(queue, Pushed(i'))
      /\ UNCHANGED <<program, mutex, value, sum, j, final_sum>>
  BY DEF Push
<1>2. \/ asleep = {} /\ pc' = pc
      \/ \E c \in asleep : pc' = [pc EXCEPT ![c] = "relock"]
  BY DEF Push, Signal, Polling, TypeOK
<1>3. /\ i \in Nat /\ i' \in 1 .. ElementCount + ConsumerCount
      /\ Pushed(i') \in Values
  <2>1. i \in Nat /\ i' \in 1 .. ElementCount + ConsumerCount
    BY <1>1, ElementsAssumption, ConsumersAssumption DEF TypeOK, Progress
  <2> QED BY <2>1, PushedIs
<1>4. /\ Len(queue) \in Nat /\ queue' \in Seq(Values) /\ queue' # <<>>
      /\ Len(queue') = Len(queue) + 1
      /\ queue'[Len(queue) + 1] = Pushed(i')
      /\ \A n \in 1 .. Len(queue) : queue'[n] = queue[n]
  BY <1>1, <1>3, QueueStep DEF TypeOK
<1>5. Popped' = Popped /\ Popped \in Nat
  BY <1>1, <1>3, <1>4 DEF Popped, Fifo
<1>6. \A c \in Consumers :
        pc'[c] = pc[c] \/ (pc[c] = "asleep" /\ pc'[c] = "relock")
  <2>1. CASE pc' = pc
    BY <2>1
  <2>2. CASE \E c \in asleep : pc' = [pc EXCEPT ![c] = "relock"]
    <3>1. PICK c \in Consumers : /\ pc[c] = "asleep"
                                /\ pc' = [pc EXCEPT ![c] = "relock"]
      BY <2>2 DEF asleep
    <3> QED BY <3>1 DEF TypeOK
  <2> QED BY <1>2, <2>1, <2>2
<1>7. TypeOK'
  <2>1. pc' \in [Consumers -> {"none", "start", "lock", "test", "asleep",
                               "relock", "pop", "use", "exited"}]
    BY <1>2 DEF asleep, TypeOK
  <2> QED BY <1>1, <1>3, <1>4, <2>1 DEF TypeOK
<1>8. MutexOwned' /\ PopReady' /\ Lifecycle' /\ Polling' /\ Progress'
  <2>1. MutexOwned' /\ PopReady'
    BY <1>1, <1>4, <1>6 DEF MutexOwned, PopReady
  <2>2. Lifecycle' /\ Progress'
    BY <1>1, <1>6 DEF Lifecycle, Progress
  <2>3. Polling'
    BY <1>1, <1>2, <1>6 DEF Polling, asleep
  <2> QED BY <2>1, <2>2, <2>3
<1>9. Fifo'
  <2>1. Len(queue') <= i'
    BY <1>1, <1>3, <1>4 DEF Fifo
  <2>2. ASSUME NEW n \in 1 .. Len(queue')
        PROVE  queue'[n] = Pushed(Popped' + n)
    <3>1. CASE n = Len(queue) + 1
      <4>1. Popped' + n = i'
        BY <1>1, <1>3, <1>4, <1>5, <3>1 DEF Popped
      <4> QED BY <1>4, <3>1, <4>1
    <3>2. CASE n # Len(queue) + 1
      <4>1. n \in 1 .. Len(queue)
        BY <1>4, <3>2
      <4> QED BY <1>4, <1>5, <4>1 DEF Fifo
    <3> QED BY <3>1, <3>2
  <2> QED BY <2>1, <2>2 DEF Fifo
<1>10. StoppedBySentinel'
  <2>1. Stopped' = Stopped
    BY <1>1, <1>6 DEF Stopped
  <2> QED BY <1>5, <2>1 DEF StoppedBySentinel
<1>11. Attended'
  <2>1. CASE asleep = {}
    <3>1. asleep' = {}
      BY <1>6, <2>1 DEF asleep
    <3> QED BY <3>1 DEF Attended
  <2>2. CASE asleep # {}
    <3>1. PICK c \in asleep : pc' = [pc EXCEPT ![c] = "relock"]
      BY <1>2, <2>2
    <3>2. Awake' = Awake \cup {c} /\ c \notin Awake
      BY <1>1, <3>1 DEF Awake, asleep, TypeOK
    <3>3. Awake \in SUBSET Consumers
      BY DEF Awake
    <3>4. IsFiniteSet(Awake) /\ Cardinality(Awake) \in Nat
      BY <3>3, ConsumerSets
    <3>5. Cardinality(Awake') = Cardinality(Awake) + 1
      BY <3>2, <3>4, FS_AddElement
    <3> QED BY <1>4, <2>2, <3>4, <3>5 DEF Attended
  <2> QED BY <2>1, <2>2
<1>12. Accounted'
  <2>1. \A c \in Consumers : Share(c)' = Share(c)
    BY <1>1, <1>6 DEF Share, Joined
  <2>2. shares' = shares
    BY <2>1 DEF shares
  <2> QED BY <1>1, <1>5, <2>2 DEF Accounted, IsSum
<1> QED BY <1>7, <1>8, <1>9, <1>10, <1>11, <1>12

\* What main takes over from a consumer that has exited leaves its share.
LEMMA JoinInv ==
  ASSUME IInv, Join
  PROVE  IInv'
<1> USE DEF IInv
<1>1. /\ main = "join" /\ pc[j] = "exited" /\ final_sum' = final_sum + sum[j]
      /\ UNCHANGED <<program, queue, mutex, pc, value, sum, i>>
  BY DEF Join
<1>2. j \in Consumers /\ j \in Nat /\ j < ConsumerCount
  BY ConsumersAssumption DEF TypeOK, Consumers
<1>3. \/ j = ConsumerCount - 1 /\ j' = 0 /\ main' = "done"
      \/ j' = j + 1 /\ j' < ConsumerCount /\ main' = "join"
  BY <1>2, ConsumersAssumption DEF Join
<1>4. sum[j] \in Int /\ final_sum \in Int
  BY <1>2 DEF TypeOK
<1>5. \A c \in Consumers : Joined(c)' <=> Joined(c) \/ c = j
  <2> SUFFICES ASSUME NEW c \in Consumers PROVE Joined(c)' <=> Joined(c) \/ c = j
    OBVIOUS
  <2>1. c \in Nat /\ c <= ConsumerCount - 1
    BY ConsumersAssumption DEF Consumers
  <2>2. CASE main' = "done"
    BY <1>1, <1>2, <1>3, <2>1, <2>2, ConsumersAssumption DEF Joined
  <2>3. CASE main' # "done"
    BY <1>1, <1>2, <1>3, <2>1, <2>3 DEF Joined
  <2> QED BY <2>2, <2>3
<1>6. TypeOK'
  <2>1. j' \in Consumers /\ main' \in {"join", "done"}
    BY <1>2, <1>3, ConsumersAssumption DEF Consumers
  <2> QED BY <1>1, <1>4, <2>1 DEF TypeOK
<1>7. MutexOwned' /\ PopReady' /\ Polling' /\ Progress'
  BY <1>1, <1>3 DEF MutexOwned, PopReady, Polling, asleep, Progress
<1>8. Lifecycle'
  <2>1. \A c \in Consumers : Joined(c)' => pc[c] = "exited"
    BY <1>1, <1>5 DEF Joined, Lifecycle
  <2> QED BY <1>1, <1>3, <2>1 DEF Joined, Lifecycle
<1>9. Popped' = Popped
  BY <1>1 DEF Popped
<1>10. Fifo' /\ StoppedBySentinel' /\ Attended'
  BY <1>1, <1>9 DEF Fifo, StoppedBySentinel, Stopped, Attended, Awake, asleep
<1>11. Accounted'
  <2>1. Share(j) = sum[j] /\ shares'[j] = 0
    <3>1. ~Joined(j) /\ shares' = [c \in Consumers |-> Share(c)']
      BY <1>1, <1>2 DEF Joined, shares
    <3>2. \A c \in Consumers : c = j => Share(c)' = 0
      BY <1>5 DEF Share
    <3> QED BY <1>1, <1>2, <3>1, <3>2 DEF Share
  <2>2. \A c \in Consumers : c # j => Share(c)' = Share(c)
    <3> SUFFICES ASSUME NEW c \in Consumers, c # j PROVE Share(c)' = Share(c)
      OBVIOUS
    <3>1. Joined(c)' <=> Joined(c)
      BY <1>5
    <3> QED BY <1>1, <3>1 DEF Share
  <2>3. shares \in [Consumers -> Int]
    BY ShareType
  <2>4. shares' = [shares EXCEPT ![j] = shares[j] + (-sum[j])]
    <3>1. shares[j] = sum[j]
      BY <1>2, <2>1 DEF shares
    <3>2. shares[j] + (-sum[j]) = 0
      BY <1>4, <3>1
    <3>3. \A c \in Consumers : c # j => shares'[c] = shares[c]
      BY <2>2 DEF shares
    <3>4. shares' = [c \in Consumers |-> shares'[c]]
      BY DEF shares
    <3> QED BY <1>2, <2>1, <2>3, <3>2, <3>3, <3>4
  <2>5. Total(Popped) - final_sum \in Int
    <3>1. Popped \in Nat
      <4>1. Len(queue) \in Nat
        BY QueueStep DEF TypeOK
      <4> QED BY <4>1 DEF Popped, Fifo, TypeOK
    <3> QED BY <1>4, <3>1, TotalStep
  <2>6. -sum[j] \in Int
    BY <1>4
  <2>7. IsSum(shares', Total(Popped) - final_sum + (-sum[j]))
    BY <1>2, <2>3, <2>4, <2>5, <2>6, SumStep DEF Accounted
  <2>8. Total(Popped') - final_sum' = Total(Popped) - final_sum + (-sum[j])
    <3>1. Total(Popped) \in Int
      <4>1. Len(queue) \in Nat
        BY QueueStep DEF TypeOK
      <4>2. Popped \in Nat
        BY <4>1 DEF Popped, Fifo, TypeOK
      <4> QED BY <4>2, TotalStep
    <3> QED BY <1>1, <1>4, <1>9, <3>1
  <2> QED BY <2>7, <2>8 DEF Accounted, IsSum
<1> QED BY <1>6, <1>7, <1>8, <1>10, <1>11

LEMMA StutterInv ==
  ASSUME IInv, UNCHANGED vars
  PROVE  IInv'
<1> USE DEF IInv, vars
<1>1. TypeOK' /\ MutexOwned' /\ Progress' /\ Lifecycle' /\ PopReady' /\ Polling'
  BY DEF TypeOK, MutexOwned, Progress, Lifecycle, PopReady, Polling, asleep
<1>2. Stopped' = Stopped /\ Awake' = Awake /\ asleep' = asleep
  BY DEF Stopped, Awake, asleep
<1>3. \A c \in Consumers : Share(c)' = Share(c)
  BY DEF Share, Joined
<1>4. Fifo' /\ StoppedBySentinel' /\ Attended' /\ Accounted'
  BY <1>2, <1>3, QuietStep
<1> QED BY <1>1, <1>4

LEMMA NextInv == IInv /\ [Next]_vars => IInv'
<1> SUFFICES ASSUME IInv, [Next]_vars PROVE IInv'
  OBVIOUS
<1>1. ASSUME NEW c \in Consumers, consumer(c) \/ SpuriousWakeup(c)
      PROVE  IInv'
  BY <1>1, StartInv, LockInv, TestInv, RetryInv, CondWaitInv, WakeInv, PopInv,
     UseInv, SpuriousWakeupInv DEF consumer
<1>2. CASE producer
  BY <1>2, CreateInv, InitQueueInv, LockToPushInv, PushInv, UnlockInv, JoinInv
     DEF producer
<1>3. CASE Terminated \/ UNCHANGED vars
  BY <1>3, StutterInv DEF Terminated
<1> QED BY <1>1, <1>2, <1>3 DEF Next

\* When all consumers have been joined, each has taken its sentinel.
LEMMA AllIsPopped ==
  ASSUME IInv, main = "done"
  PROVE  Popped = i /\ i = ElementCount + ConsumerCount
<1>1. i = ElementCount + ConsumerCount
  BY DEF IInv, Progress
<1>2. Stopped = Consumers
  BY DEF IInv, Lifecycle, Stopped
<1>3. Cardinality(Stopped) = ConsumerCount
  BY <1>2, ConsumerSets
<1>4. Len(queue) \in Nat
  BY QueueStep DEF IInv, TypeOK
<1>5. Popped \in Int /\ Popped <= i
  BY <1>1, <1>4, ElementsAssumption, ConsumersAssumption DEF Popped
<1>6. ConsumerCount = IF Popped > ElementCount THEN Popped - ElementCount ELSE 0
  BY <1>3 DEF IInv, StoppedBySentinel
<1>7. Popped = ElementCount + ConsumerCount
  BY <1>5, <1>6, ElementsAssumption, ConsumersAssumption
<1> QED BY <1>1, <1>7

---------------------------------------------------------------------------
\* The invariant holds in both programs, for every number of consumers and of
\* elements.
THEOREM Invariance == Spec => []IInv
<1>1. Init => IInv
  BY InitInv
<1>2. IInv /\ [Next]_vars => IInv'
  BY NextInv
<1> QED BY <1>1, <1>2, PTL DEF Spec

\* The assertion in myqueue_pop never fails.
THEOREM PopNeverFails == Spec => []PopFindsSomething
<1>1. IInv => PopFindsSomething
  BY DEF IInv, PopReady, PopFindsSomething
<1> QED BY <1>1, Invariance, PTL

\* No value waits in the queue for consumers that sleep.
THEOREM NothingIsStranded == Spec => []NoValueIsStranded
<1>1. IInv => NoValueIsStranded
  <2> SUFFICES ASSUME IInv PROVE NoValueIsStranded
    OBVIOUS
  <2> DEFINE awake == {c \in Consumers : pc[c] \in {"start", "lock", "test",
                                                   "relock", "pop"}}
             busy == {c \in Consumers : pc[c] = "use" /\ value[c] # INT_MAX}
  <2>1. awake \cup busy = Awake
    BY DEF Awake
  <2> QED BY <2>1 DEF IInv, Attended, NoValueIsStranded
<1> QED BY <1>1, Invariance, PTL

\* The sentinels are the last values taken, one by each consumer.
THEOREM SentinelsAreLast == Spec => []SentinelsComeLast
<1>1. IInv => SentinelsComeLast
  <2> SUFFICES ASSUME IInv PROVE SentinelsComeLast
    OBVIOUS
  <2> USE DEF IInv
  <2> DEFINE sentinels == {n \in DOMAIN queue : queue[n] = INT_MAX}
  <2>1. /\ Len(queue) \in Nat /\ DOMAIN queue = 1 .. Len(queue)
        /\ i \in Nat /\ i <= ElementCount + ConsumerCount
        /\ Popped \in Nat /\ Popped + Len(queue) = i
    <3>1. Len(queue) \in Nat /\ DOMAIN queue = 1 .. Len(queue)
      BY QueueStep DEF TypeOK
    <3>2. i \in Nat /\ i <= ElementCount + ConsumerCount
      BY DEF TypeOK
    <3> QED BY <3>1, <3>2 DEF Popped, Fifo
  <2>2. \A n \in 1 .. Len(queue) : queue[n] = INT_MAX <=> Popped + n > ElementCount
    <3> SUFFICES ASSUME NEW n \in 1 .. Len(queue)
                 PROVE  queue[n] = INT_MAX <=> Popped + n > ElementCount
      OBVIOUS
    <3>1. queue[n] = Pushed(Popped + n)
      BY DEF Fifo
    <3>2. Popped + n \in 1 .. ElementCount + ConsumerCount
      BY <2>1, ElementsAssumption, ConsumersAssumption
    <3> QED BY <3>1, <3>2, PushedIs
  <2>3. Stopped # {} => Popped > ElementCount
    <3> SUFFICES ASSUME Stopped # {} PROVE Popped > ElementCount
      OBVIOUS
    <3>1. Stopped \in SUBSET Consumers
      BY DEF Stopped
    <3>2. Cardinality(Stopped) # 0
      BY <3>1, ConsumerSets, FS_EmptySet
    <3> QED BY <3>2 DEF StoppedBySentinel
  <2>4. Stopped # {} => sentinels = DOMAIN queue
    BY <2>1, <2>2, <2>3, ElementsAssumption
  <2>5. main = "join" => Cardinality(sentinels) + Cardinality(Stopped) = ConsumerCount
    <3> SUFFICES ASSUME main = "join"
                 PROVE  Cardinality(sentinels) + Cardinality(Stopped) = ConsumerCount
      OBVIOUS
    <3>1. i = ElementCount + ConsumerCount
      BY DEF Progress
    <3>2. CASE Popped > ElementCount
      <4>1. sentinels = 1 .. Len(queue)
        BY <2>1, <2>2, <3>2, ElementsAssumption
      <4>2. Cardinality(sentinels) = Len(queue)
        <5> DEFINE last == Len(queue)
        <5>1. last \in Nat /\ last \in Int /\ 1 \in Int /\ sentinels = 1 .. last
          BY <2>1, <4>1
        <5> HIDE DEF sentinels, last
        <5>2. Cardinality(1 .. last) = IF 1 > last THEN 0 ELSE last - 1 + 1
          BY <5>1, FS_Interval
        <5>3. Cardinality(sentinels) = last
          BY <5>1, <5>2
        <5> QED BY <5>3 DEF last
      <4> HIDE DEF sentinels
      <4> QED
        BY <2>1, <3>1, <3>2, <4>2, ElementsAssumption, ConsumersAssumption
           DEF StoppedBySentinel
    <3>3. CASE ~(Popped > ElementCount)
      <4> DEFINE first == ElementCount - Popped + 1
      <4>1. sentinels = first .. Len(queue)
        BY <2>1, <2>2, <3>3, ElementsAssumption
      <4>2. first \in Int /\ Len(queue) \in Int /\ Len(queue) - first + 1 = ConsumerCount
        BY <2>1, <3>1, ElementsAssumption, ConsumersAssumption
      <4> HIDE DEF sentinels, first
      <4>3. Cardinality(sentinels) = ConsumerCount
        <5>1. Cardinality(first .. Len(queue)) =
                IF first > Len(queue) THEN 0 ELSE Len(queue) - first + 1
          BY <4>2, FS_Interval
        <5> QED BY <4>1, <4>2, <5>1, ConsumersAssumption
      <4>4. Cardinality(Stopped) = 0
        BY <3>3 DEF StoppedBySentinel
      <4> QED BY <4>3, <4>4, ConsumersAssumption
    <3> QED BY <3>2, <3>3
  <2>6. main = "done" => queue = <<>>
    <3> SUFFICES ASSUME main = "done" PROVE queue = <<>>
      OBVIOUS
    <3>1. Popped = i
      BY AllIsPopped
    <3> QED BY <2>1, <3>1, QueueStep DEF TypeOK
  <2> HIDE DEF IInv
  <2>7. Stopped = {c \in Consumers : \/ pc[c] = "exited"
                                     \/ pc[c] = "use" /\ value[c] = INT_MAX}
    BY DEF Stopped
  <2> QED BY <2>4, <2>5, <2>6, <2>7 DEF SentinelsComeLast
<1> QED BY <1>1, Invariance, PTL

\* Whatever the schedule, the printed sum is that of the elements.
THEOREM FinalSumIsRight == Spec => []FinalSum
<1>1. IInv => FinalSum
  <2> SUFFICES ASSUME IInv, main = "done"
               PROVE  /\ final_sum = SumOfElements
                      /\ final_sum = DocumentedSum + (IF ElementCount % 2 = 0 THEN 0 ELSE 1)
    BY DEF FinalSum
  <2>1. Popped = ElementCount + ConsumerCount
    BY AllIsPopped DEF IInv, Progress
  <2>2. \A c \in Consumers : shares[c] = 0
    BY DEF shares, Share, Joined
  <2>3. Total(Popped) - final_sum = 0
    BY <2>2, SumOfZeros DEF IInv, Accounted
  <2>4. Total(Popped) = SumOfElements
    BY <2>1, ElementsAssumption, ConsumersAssumption DEF Total, SumOfElements
  <2>5. final_sum \in Int /\ Total(Popped) \in Int
    BY <2>1, ElementsAssumption, ConsumersAssumption, TotalStep DEF IInv, TypeOK
  <2>6. final_sum = Total(Popped)
    BY <2>3, <2>5
  <2>7. SumOfElements = DocumentedSum + (IF ElementCount % 2 = 0 THEN 0 ELSE 1)
    BY ElementsAssumption DEF SumOfElements, DocumentedSum
  <2> QED BY <2>4, <2>6, <2>7
<1> QED BY <1>1, Invariance, PTL

=============================================================================
