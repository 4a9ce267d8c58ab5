----------------------------- MODULE Scheduler -----------------------------
(***************************************************************************)
(* The scheduler of exercise05 and the services that send it requests over *)
(* a POSIX message queue. A request is a line of numbers with a priority;  *)
(* the scheduler prints their maximum, minimum and mean, sleeping half a   *)
(* second after each number, until SIGINT tells it to shut down.           *)
(*                                                                         *)
(* The handler only sets a flag, but the signal also interrupts the call   *)
(* it arrives in: a receive goes on with the buffer of the task before, a  *)
(* sleep ends the program. And the service sends its line without the      *)
(* terminating zero, so the buffer still holds the end of what came before *)
(* behind every message: the bytes are kept here, one cell each.           *)
(***************************************************************************)
EXTENDS Integers, Sequences, FiniteSets, Sums

CONSTANTS
  Request,          \* what the services send: [priority, words, newline]
  MSG_SIZE,         \* bound: the size of msg_buf, in cells
  Stack,            \* what msg_buf may hold before anything is received
  None              \* no task

\* The bytes that matter: the digits themselves, and
SPACE == -1
NEWLINE == -2
NUL == -3

INT_MAX == 2147483647
INT_MIN == -INT_MAX - 1

Services == DOMAIN Request

VARIABLES
  scheduler,        \* where the scheduler is
  shutdown,         \* the flag of the handler
  exists,           \* the queue has its name in the file system
  writable,         \* ... and may be opened for writing
  queue,            \* requests sent and not received, in the order of sending
  msg_buf,
  stack,            \* what was in msg_buf at the start
  task,             \* the request msg_buf was received for, None if none was
  save_ptr,         \* where strtok_r goes on
  stats,            \* max, min, sum and count
  token_amount,
  service           \* where each service is

round == <<msg_buf, task, save_ptr, stats, token_amount>>
vars == <<scheduler, shutdown, exists, writable, queue, stack, round, service>>

NoStats == [max |-> INT_MIN, min |-> INT_MAX, sum |-> 0, count |-> 0]
Blank == [k \in 1 .. MSG_SIZE |-> NUL]

Init ==
  /\ scheduler = "none"
  /\ shutdown = 0
  /\ exists = FALSE
  /\ writable = FALSE
  /\ queue = <<>>
  /\ msg_buf = Blank
  /\ stack = Blank
  /\ task = None
  /\ save_ptr = 1
  /\ stats = NoStats
  /\ token_amount = 0
  /\ service = [s \in Services |-> "none"]

Goto(from, to) ==
  /\ scheduler = from
  /\ scheduler' = to

---------------------------------------------------------------------------
\* service

\* Words with a space between them: the text up to each of them.
Texts(words) ==
  LET upTo[k \in 1 .. Len(words)] ==
        IF k = 1 THEN words[1] ELSE upTo[k - 1] \o <<SPACE>> \o words[k]
  IN upTo

\* What a service reads from stdin: the numbers as the user typed them, with
\* spaces between them, and a newline if echo wrote them.
Line(s) ==
  LET text == Texts(Request[s].words)[Len(Request[s].words)]
  IN IF Request[s].newline THEN Append(text, NEWLINE) ELSE text

\* The queue is there only while the scheduler has made it and not unlinked it.
Open(s) ==
  /\ service[s] = "none"
  /\ service' = [service EXCEPT ![s] = IF exists /\ writable THEN "open" ELSE "exited"]
  /\ UNCHANGED <<scheduler, shutdown, exists, writable, queue, stack, round>>

\* What is sent to a queue that has been unlinked since reaches nobody.
Send(s) ==
  /\ service[s] = "open"
  /\ service' = [service EXCEPT ![s] = "exited"]
  /\ queue' = IF exists THEN Append(queue, s) ELSE queue
  /\ UNCHANGED <<scheduler, shutdown, exists, writable, stack, round>>

---------------------------------------------------------------------------
\* scheduler

\* Handler and queue are set up; a queue left behind by an earlier scheduler is
\* opened as it is. mq_open is not given the mode of a queue it creates, so
\* services may or may not open it.
Start ==
  /\ scheduler \in {"none", "exited"}
  /\ scheduler' = "call"
  /\ shutdown' = 0
  /\ exists' = TRUE
  /\ writable' \in IF exists THEN {writable} ELSE BOOLEAN
  /\ stack' \in Stack
  /\ msg_buf' = stack'
  /\ task' = None
  /\ save_ptr' = 1
  /\ stats' = NoStats
  /\ token_amount' = 0
  /\ UNCHANGED <<queue, service>>

\* Wrong arguments, or the queue cannot be opened.
StartFails ==
  /\ Goto("none", "exited")
  /\ UNCHANGED <<shutdown, exists, writable, queue, stack, round, service>>

\* The call of mq_receive: from here a signal that finds the queue empty
\* interrupts it.
Call ==
  /\ Goto("call", "receive")
  /\ UNCHANGED <<shutdown, exists, writable, queue, stack, round, service>>

\* A message overwrites the beginning of the buffer.
Overwrite(buf, text) ==
  [k \in DOMAIN buf |-> IF k <= Len(text) THEN text[k] ELSE buf[k]]

\* The queue hands out the oldest of the highest priority.
IsNext(k) ==
  \A l \in DOMAIN queue :
    LET p == Request[queue[k]].priority
        q == Request[queue[l]].priority
    IN q < p \/ (q = p /\ k <= l)

Receive ==
  /\ Goto("receive", "parse")
  /\ \E k \in DOMAIN queue :
       /\ IsNext(k)
       /\ msg_buf' = Overwrite(msg_buf, Line(queue[k]))
       /\ task' = queue[k]
       /\ queue' = SubSeq(queue, 1, k - 1) \o SubSeq(queue, k + 1, Len(queue))
  /\ UNCHANGED <<shutdown, exists, writable, stack, save_ptr, stats, token_amount,
                 service>>

\* The first zero at or behind a place of the buffer.
End(from) ==
  CHOOSE k \in from .. MSG_SIZE :
    msg_buf[k] = NUL /\ \A l \in from .. k - 1 : msg_buf[l] # NUL

token_count == Cardinality({k \in 1 .. End(1) : msg_buf[k] = SPACE}) + 1

Parse ==
  /\ Goto("parse", "token")
  /\ stats' = NoStats
  /\ token_amount' = token_count
  /\ save_ptr' = 1
  /\ UNCHANGED <<shutdown, exists, writable, queue, stack, msg_buf, task, service>>

\* The number some digits stand for.
Value(digits) ==
  LET value[k \in 0 .. Len(digits)] ==
        IF k = 0 THEN 0 ELSE 10 * value[k - 1] + digits[k]
  IN value[Len(digits)]

\* The number at the start of a text, zero if there is none.
atoi(text) ==
  LET stop == {k \in DOMAIN text : text[k] < 0}
      digits == IF stop = {} THEN text
                ELSE SubSeq(text, 1, (CHOOSE k \in stop : \A l \in stop : k <= l) - 1)
  IN Value(digits)

\* Where the next token of strtok_r begins, and the delimiter behind it.
TokenStart ==
  CHOOSE k \in save_ptr .. MSG_SIZE :
    msg_buf[k] # SPACE /\ \A l \in save_ptr .. k - 1 : msg_buf[l] = SPACE

TokenEnd ==
  CHOOSE k \in TokenStart .. MSG_SIZE :
    /\ msg_buf[k] \in {SPACE, NUL}
    /\ \A l \in TokenStart .. k - 1 : msg_buf[l] \notin {SPACE, NUL}

Enter(val) ==
  stats' = [max |-> IF val > stats.max THEN val ELSE stats.max,
            min |-> IF val < stats.min THEN val ELSE stats.min,
            sum |-> stats.sum + val,
            count |-> stats.count + 1]

\* Mutant: the token is copied, the buffer is left as it is.
TokenCopied ==
  /\ scheduler = "token"
  /\ msg_buf[TokenStart] # NUL
  /\ scheduler' = "sleep"
  /\ Enter(atoi(SubSeq(msg_buf, TokenStart, TokenEnd - 1)))
  /\ save_ptr' = IF msg_buf[TokenEnd] = SPACE THEN TokenEnd + 1 ELSE TokenEnd
  /\ UNCHANGED <<shutdown, exists, writable, queue, stack, msg_buf, task,
                 token_amount, service>>

\* strtok_r cuts the next token off, with a zero for the space behind it, and
\* its number enters the statistics.
Token ==
  /\ scheduler = "token"
  /\ msg_buf[TokenStart] # NUL
  /\ scheduler' = "sleep"
  /\ Enter(atoi(SubSeq(msg_buf, TokenStart, TokenEnd - 1)))
  /\ msg_buf' = [msg_buf EXCEPT ![TokenEnd] = NUL]
  /\ save_ptr' = IF msg_buf[TokenEnd] = SPACE THEN TokenEnd + 1 ELSE TokenEnd
  /\ UNCHANGED <<shutdown, exists, writable, queue, stack, task, token_amount,
                 service>>

NoToken ==
  /\ scheduler = "token"
  /\ msg_buf[TokenStart] = NUL
  /\ scheduler' = "report"
  /\ UNCHANGED <<shutdown, exists, writable, queue, stack, round, service>>

\* The half second is over.
Slept ==
  /\ Goto("sleep", "token")
  /\ UNCHANGED <<shutdown, exists, writable, queue, stack, round, service>>

\* Maximum, minimum and mean are printed.
Report ==
  /\ Goto("report", "test")
  /\ UNCHANGED <<shutdown, exists, writable, queue, stack, round, service>>

\* Mutant: the flag is not looked at.
TestNothing ==
  /\ Goto("test", "call")
  /\ UNCHANGED <<shutdown, exists, writable, queue, stack, round, service>>

Test ==
  /\ Goto("test", IF shutdown = 1 THEN "close" ELSE "call")
  /\ UNCHANGED <<shutdown, exists, writable, queue, stack, round, service>>

\* mq_close and mq_unlink: what is still in the queue goes with it.
Close ==
  /\ Goto("close", "exited")
  /\ exists' = FALSE
  /\ queue' = <<>>
  /\ UNCHANGED <<shutdown, writable, stack, round, service>>

---------------------------------------------------------------------------
\* SIGINT, which may come at any time.

\* Mutant: the handler compares with another signal.
handle_signal_ignoring == shutdown' = shutdown

handle_signal == shutdown' = 1

\* The signal finds the scheduler running: the flag is all it changes.
Signal ==
  /\ scheduler \notin {"none", "exited", "sleep"}
  /\ scheduler = "receive" => queue # <<>>
  /\ handle_signal
  /\ UNCHANGED <<scheduler, exists, writable, queue, stack, round, service>>

\* It interrupts the receive, and the loop goes on with the buffer it has.
SignalInReceive ==
  /\ queue = <<>>
  /\ Goto("receive", "parse")
  /\ handle_signal
  /\ task' = None
  /\ UNCHANGED <<exists, writable, queue, stack, msg_buf, save_ptr, stats,
                 token_amount, service>>

\* It interrupts the sleep: main returns EXIT_FAILURE and leaves the queue.
SignalInSleep ==
  /\ Goto("sleep", "exited")
  /\ handle_signal
  /\ UNCHANGED <<exists, writable, queue, stack, round, service>>

---------------------------------------------------------------------------
work == \/ Call \/ Receive \/ Parse \/ Token \/ NoToken \/ Slept \/ Report \/ Test
        \/ Close

Next ==
  \/ Start \/ StartFails
  \/ work
  \/ Signal \/ SignalInReceive \/ SignalInSleep
  \/ \E s \in Services : Open(s) \/ Send(s)

\* The scheduler runs and so does a service that has opened the queue. Nobody
\* needs to start either, and no signal needs to come.
Fairness ==
  /\ WF_vars(work)
  /\ \A s \in Services : WF_vars(Send(s))

Spec == Init /\ [][Next]_vars /\ Fairness

---------------------------------------------------------------------------
InRound == scheduler \in {"parse", "token", "sleep", "report", "test", "close"}

\* The types; the buffer always has a zero to stop at.
TypeOK ==
  /\ scheduler \in {"none", "call", "receive", "parse", "token", "sleep", "report",
                    "test", "close", "exited"}
  /\ shutdown \in {0, 1}
  /\ exists \in BOOLEAN /\ writable \in BOOLEAN
  /\ queue \in Seq(Services)
  /\ msg_buf \in [1 .. MSG_SIZE -> 0 .. 9 \cup {SPACE, NEWLINE, NUL}]
  /\ msg_buf[MSG_SIZE] = NUL
  /\ task \in Services \cup {None}
  /\ save_ptr \in 1 .. MSG_SIZE
  /\ stats.count <= token_amount
  /\ service \in [Services -> {"none", "open", "exited"}]

\* The numbers of a request.
NumbersOf(s) == [k \in 1 .. Len(Request[s].words) |-> Value(Request[s].words[k])]

\* Although nothing ends a message but what is left in the buffer of the one
\* before, a request that ends in a newline is answered with its own numbers:
\* the rest of an older message has no spaces any more, and atoi stops at the
\* newline. (What a first message leaves of the stack may still have some.)
OwnNumbers ==
  (/\ scheduler = "report" /\ task # None
   /\ Request[task].newline
   /\ \A k \in DOMAIN stack : stack[k] # SPACE) =>
     LET numbers == NumbersOf(task)
         values == {numbers[k] : k \in DOMAIN numbers}
     IN
     /\ stats.max \in values /\ \A v \in values : v <= stats.max
     /\ stats.min \in values /\ \A v \in values : v >= stats.min
     /\ stats.sum = Total(numbers, Len(numbers))
     /\ stats.count = Len(numbers)
     /\ token_amount = Len(numbers)

\* A round that no message was received for is the last one: it happens only
\* when the signal has asked for the end, and never twice.
StaleRoundIsLast ==
  /\ InRound /\ task = None => shutdown = 1
  /\ scheduler \in {"call", "receive"} /\ task = None => stats = NoStats

\* A scheduler that SIGINT finds in a round, or takes out of the receive, ends.
\* Only in the gap between the test of the flag and the receive does the signal
\* go unheeded until another request comes. The queue is unlinked on the way out,
\* but for the signal that comes in the sleep: then main returns with it left
\* behind, and the next scheduler begins with what is in it.
ShutdownIsHeeded ==
  /\ shutdown = 1 /\ scheduler \notin {"call", "receive"} ~> scheduler = "exited"
  /\ [][scheduler # "exited" /\ scheduler' = "exited" =>
           (exists' <=> scheduler = "sleep")]_vars

=============================================================================
