-------------------------- MODULE ProducerConsumer --------------------------
(***************************************************************************)
(* The producer and its consumers of exercise06: the main thread feeds     *)
(* ElementCount elements and one INT_MAX per consumer into a queue under a *)
(* mutex, joins the consumers and adds up their sums.                      *)
(*                                                                         *)
(* The two programs differ in what a consumer does on an empty queue: in   *)
(* task_2 it gives the mutex back and tries again, in task_3 it sleeps on  *)
(* a condition variable that every push signals. Both are started from     *)
(* Init; `program` says which one runs.                                    *)
(***************************************************************************)
EXTENDS Integers, Sequences, FiniteSets

CONSTANTS
  ConsumerCount,    \* c, the number of consumer threads
  ElementCount,     \* n
  Main,             \* the main thread
  None,             \* the owner of a free mutex
  INT_MAX           \* what tells a consumer to stop

Consumers == 0 .. ConsumerCount - 1

ASSUME ConsumersAssumption ==
  /\ ConsumerCount \in Nat /\ ConsumerCount > 0
  /\ Main \notin Consumers
  /\ None \notin Consumers \cup {Main}

ASSUME ElementsAssumption ==
  /\ ElementCount \in Nat /\ ElementCount > 0
  /\ INT_MAX \in Nat /\ INT_MAX > ElementCount

VARIABLES
  program,          \* "task_2" or "task_3"
  queue,            \* the values in the queue, the next to pop first
  mutex,            \* owner of queue_mutex
  pc,               \* where each consumer is
  value,            \* its local value
  sum,              \* consumer_t.sum
  main,             \* where main is
  i,                \* elements and sentinels pushed so far
  j,                \* the index of its loops over the consumers
  final_sum

vars == <<program, queue, mutex, pc, value, sum, main, i, j, final_sum>>

mains == <<main, i, j, final_sum>>

\* What consumer_t.sum is before the thread writes it: malloc's leftovers.
Garbage == -1

\* The i-th push: 1, -2, 3, -4, ... and then the sentinels.
Pushed(n) ==
  IF n > ElementCount THEN INT_MAX ELSE IF n % 2 = 1 THEN n ELSE -n

Init ==
  /\ program \in {"task_2", "task_3"}
  /\ queue = <<>>
  /\ mutex = None
  /\ pc = [c \in Consumers |-> "none"]
  /\ value = [c \in Consumers |-> 0]
  /\ sum = [c \in Consumers |-> Garbage]
  /\ main = "create"
  /\ i = 0
  /\ j = 0
  /\ final_sum = 0

Goto(c, from, to) ==
  /\ pc[c] = from
  /\ pc' = [pc EXCEPT ![c] = to]

---------------------------------------------------------------------------
\* consumer

\* The thread starts with a sum of its own.
Start(c) ==
  /\ Goto(c, "start", "lock")
  /\ sum' = [sum EXCEPT ![c] = 0]
  /\ UNCHANGED <<program, queue, mutex, value, mains>>

\* Take the mutex, for the first test of the queue or after a wait.
Lock(c) ==
  /\ mutex = None
  /\ mutex' = c
  /\ Goto(c, "lock", "test")
  /\ UNCHANGED <<program, queue, value, sum, mains>>

Test(c) ==
  /\ queue # <<>>
  /\ Goto(c, "test", "pop")
  /\ UNCHANGED <<program, queue, mutex, value, sum, mains>>

\* task_2: nothing there, give the mutex back and try again.
Retry(c) ==
  /\ program = "task_2"
  /\ queue = <<>>
  /\ mutex' = None
  /\ Goto(c, "test", "lock")
  /\ UNCHANGED <<program, queue, value, sum, mains>>

\* task_3: nothing there, sleep; pthread_cond_wait gives the mutex back.
CondWait(c) ==
  /\ program = "task_3"
  /\ queue = <<>>
  /\ mutex' = None
  /\ Goto(c, "test", "asleep")
  /\ UNCHANGED <<program, queue, value, sum, mains>>

\* Mutant: if for while, so that a woken consumer pops at once.
WakeWithoutTest(c) ==
  /\ mutex = None
  /\ mutex' = c
  /\ Goto(c, "relock", "pop")
  /\ UNCHANGED <<program, queue, value, sum, mains>>

\* pthread_cond_wait returns with the mutex; the loop tests again.
Wake(c) ==
  /\ mutex = None
  /\ mutex' = c
  /\ Goto(c, "relock", "test")
  /\ UNCHANGED <<program, queue, value, sum, mains>>

SpuriousWakeup(c) ==
  /\ Goto(c, "asleep", "relock")
  /\ UNCHANGED <<program, queue, mutex, value, sum, mains>>

\* myqueue_pop, which asserts that the queue is not empty, and unlock.
Pop(c) ==
  /\ Goto(c, "pop", "use")
  /\ queue # <<>>
  /\ value' = [value EXCEPT ![c] = Head(queue)]
  /\ queue' = Tail(queue)
  /\ mutex' = None
  /\ UNCHANGED <<program, sum, mains>>

\* Mutant: the sentinel is added before it is recognised.
UseAddingFirst(c) ==
  /\ sum' = [sum EXCEPT ![c] = @ + value[c]]
  /\ Goto(c, "use", IF value[c] = INT_MAX THEN "exited" ELSE "lock")
  /\ value' = [value EXCEPT ![c] = 0]
  /\ UNCHANGED <<program, queue, mutex, mains>>

\* The sentinel ends the thread, anything else is added.
Use(c) ==
  /\ IF value[c] = INT_MAX
     THEN Goto(c, "use", "exited") /\ UNCHANGED sum
     ELSE /\ Goto(c, "use", "lock")
          /\ sum' = [sum EXCEPT ![c] = @ + value[c]]
  /\ value' = [value EXCEPT ![c] = 0]
  /\ UNCHANGED <<program, queue, mutex, mains>>

---------------------------------------------------------------------------
\* main

Create ==
  /\ main = "create"
  /\ Goto(j, "none", "start")
  /\ j' = (j + 1) % ConsumerCount
  /\ main' = IF j' = 0 THEN "init" ELSE "create"
  /\ UNCHANGED <<program, queue, mutex, value, sum, i, final_sum>>

\* The queue is initialised once the consumers may already be looking at it,
\* and without the mutex.
InitQueue ==
  /\ main = "init"
  /\ queue' = <<>>
  /\ main' = "lock"
  /\ UNCHANGED <<program, mutex, pc, value, sum, i, j, final_sum>>

LockToPush ==
  /\ main = "lock"
  /\ mutex = None
  /\ mutex' = Main
  /\ main' = "push"
  /\ UNCHANGED <<program, queue, pc, value, sum, i, j, final_sum>>

asleep == {c \in Consumers : pc[c] = "asleep"}

\* pthread_cond_signal wakes one of the sleepers, if there are any.
Signal ==
  IF asleep = {} THEN UNCHANGED pc
  ELSE \E c \in asleep : pc' = [pc EXCEPT ![c] = "relock"]

\* Mutant: only elements are signalled, not sentinels.
PushSignallingElements ==
  /\ main = "push"
  /\ i' = i + 1
  /\ queue' = Append(queue, Pushed(i'))
  /\ IF program = "task_3" /\ i' <= ElementCount THEN Signal ELSE UNCHANGED pc
  /\ main' = "unlock"
  /\ UNCHANGED <<program, mutex, value, sum, j, final_sum>>

\* Mutant: a push at the head.
PushFirst ==
  /\ main = "push"
  /\ i' = i + 1
  /\ queue' = <<Pushed(i')>> \o queue
  /\ IF program = "task_3" THEN Signal ELSE UNCHANGED pc
  /\ main' = "unlock"
  /\ UNCHANGED <<program, mutex, value, sum, j, final_sum>>

Push ==
  /\ main = "push"
  /\ i' = i + 1
  /\ queue' = Append(queue, Pushed(i'))
  /\ IF program = "task_3" THEN Signal ELSE UNCHANGED pc
  /\ main' = "unlock"
  /\ UNCHANGED <<program, mutex, value, sum, j, final_sum>>

\* Mutant: one sentinel too few.
UnlockEarly ==
  /\ main = "unlock"
  /\ mutex' = None
  /\ main' = IF i >= ElementCount + ConsumerCount - 1 THEN "join" ELSE "lock"
  /\ UNCHANGED <<program, queue, pc, value, sum, i, j, final_sum>>

Unlock ==
  /\ main = "unlock"
  /\ mutex' = None
  /\ main' = IF i = ElementCount + ConsumerCount THEN "join" ELSE "lock"
  /\ UNCHANGED <<program, queue, pc, value, sum, i, j, final_sum>>

\* Join the next consumer and add its sum.
Join ==
  /\ main = "join"
  /\ pc[j] = "exited"
  /\ final_sum' = final_sum + sum[j]
  /\ j' = (j + 1) % ConsumerCount
  /\ main' = IF j' = 0 THEN "done" ELSE "join"
  /\ UNCHANGED <<program, queue, mutex, pc, value, sum, i>>

Terminated == main = "done" /\ UNCHANGED vars

---------------------------------------------------------------------------
consumer(c) ==
  \/ Start(c) \/ Lock(c) \/ Test(c) \/ Retry(c) \/ CondWait(c) \/ Wake(c)
  \/ Pop(c) \/ Use(c)

producer == Create \/ InitQueue \/ LockToPush \/ Push \/ Unlock \/ Join

Next ==
  \/ \E c \in Consumers : consumer(c) \/ SpuriousWakeup(c)
  \/ producer
  \/ Terminated

\* Threads run; nobody who waits for the mutex is passed over for ever, not
\* even while the consumers of task_2 take it again and again.
Fairness ==
  /\ \A c \in Consumers :
       /\ WF_vars(Start(c) \/ Test(c) \/ Retry(c) \/ CondWait(c) \/ Pop(c)
                  \/ Use(c))
       /\ SF_vars(Lock(c) \/ Wake(c))
  /\ WF_vars(Create \/ InitQueue \/ Push \/ Unlock \/ Join)
  /\ SF_vars(LockToPush)

Spec == Init /\ [][Next]_vars /\ Fairness

---------------------------------------------------------------------------
Values == {Pushed(n) : n \in 1 .. ElementCount + ConsumerCount}

\* The types; main pushes each element and each sentinel once.
TypeOK ==
  /\ program \in {"task_2", "task_3"}
  /\ queue \in Seq(Values)
  /\ mutex \in Consumers \cup {Main, None}
  /\ pc \in [Consumers -> {"none", "start", "lock", "test", "asleep", "relock",
                           "pop", "use", "exited"}]
  /\ value \in [Consumers -> Values \cup {0}]
  /\ sum \in [Consumers -> Int]
  /\ main \in {"create", "init", "lock", "push", "unlock", "join", "done"}
  /\ i \in 0 .. ElementCount + ConsumerCount
  /\ j \in Consumers
  /\ final_sum \in Int

\* The assertion in myqueue_pop: whoever is about to pop finds something,
\* whichever consumers were faster between its wake-up and its pop. The types
\* hold with it, the values popped among them.
PopFindsSomething ==
  /\ TypeOK
  /\ \A c \in Consumers : pc[c] = "pop" => queue # <<>>

\* A consumer that takes a sentinel leaves no element behind: what is still in
\* the queue then is sentinels, and one for each consumer still to stop.
SentinelsComeLast ==
  LET stopped == {c \in Consumers : \/ pc[c] = "exited"
                                    \/ pc[c] = "use" /\ value[c] = INT_MAX}
      sentinels == {n \in DOMAIN queue : queue[n] = INT_MAX}
  IN
  /\ stopped # {} => sentinels = DOMAIN queue
  /\ main = "join" =>
       Cardinality(sentinels) + Cardinality(stopped) = ConsumerCount
  /\ main = "done" => queue = <<>>

\* Nothing waits in the queue while all who could take it sleep: there are
\* always as many consumers awake as there are values to take, or else nobody
\* sleeps at all.
NoValueIsStranded ==
  LET awake == {c \in Consumers : pc[c] \in {"start", "lock", "test", "relock",
                                             "pop"}}
      busy == {c \in Consumers : pc[c] = "use" /\ value[c] # INT_MAX}
  IN asleep # {} => Len(queue) <= Cardinality(awake \cup busy)

\* 1 - 2 + 3 - ..., what is pushed before the sentinels.
SumOfElements ==
  IF ElementCount % 2 = 0 THEN -(ElementCount \div 2) ELSE (ElementCount + 1) \div 2

\* The final sum of exercise06/README.md (52), in the integers of C. It is that
\* of 0 - 1 + 2 - ..., while the code pushes from 1 on.
DocumentedSum ==
  IF ElementCount % 2 = 0 THEN -(ElementCount \div 2) ELSE ElementCount \div 2

\* Whatever the schedule, the sum of the partial sums is that of the elements.
\* For an odd number of them this is one more than the README says.
FinalSum ==
  main = "done" =>
    /\ final_sum = SumOfElements
    /\ final_sum = DocumentedSum + (IF ElementCount % 2 = 0 THEN 0 ELSE 1)

\* The program ends: every consumer is handed its sentinel and joined.
Termination == <>(main = "done")
=============================================================================
