--------------------------- MODULE ForkedChildren ---------------------------
(***************************************************************************)
(* The programs that fork children and wait for them.                      *)
(*   "odds"       exercise02/task3: one child for each sum of two dice     *)
(*   "strings"    exercise03/task_2: one child for each argument, to       *)
(*                rotate and upper-case its copy                           *)
(*   "accumulate" exercise03/task_3a: a child adds up in its copy of a     *)
(*                global, then a thread does in the global itself          *)
(*                                                                         *)
(* A child has a copy of all that its parent had when it forked, the loop  *)
(* variable among it, and what it writes its parent never sees.            *)
(***************************************************************************)
EXTENDS Naturals, Sequences, FiniteSets

CONSTANTS
  Eyes,             \* the sides of a die
  Argv,             \* the arguments, argv[0] among them: a sequence of strings
  N,                \* how far "accumulate" adds
  Upper(_)          \* toupper

\* How many times each program forks; child k is the one of the k-th fork.
Forks == [odds |-> 2 * Eyes - 1, strings |-> Len(Argv), accumulate |-> 1]
Programs == DOMAIN Forks
Children == UNION {1 .. Forks[p] : p \in Programs}

VARIABLES
  forking,          \* the program that runs, "none" before
  parent,           \* where the parent is
  forked,           \* how often it has forked
  target,           \* the loop variable: target, or arg_index
  waited,           \* how often it has waited
  memory,           \* the parent's copies of the arguments, and its global
  child,            \* where each child is
  copied,           \* what each child has of the loop variable and of memory,
                    \* and the shifted string it has made
  thread            \* i of the thread of "accumulate"

vars == <<forking, parent, forked, target, waited, memory, child, copied, thread>>

NothingCopied ==
  [target |-> 0, memory |-> [strings |-> <<>>, global |-> 0], shifted |-> <<>>]

Init ==
  /\ forking = "none"
  /\ parent = "none"
  /\ forked = 0
  /\ target = 0
  /\ waited = 0
  /\ memory = [strings |-> Argv, global |-> 0]
  /\ child = [c \in Children |-> "none"]
  /\ copied = [c \in Children |-> NothingCopied]
  /\ thread = 0

\* main checks its arguments and begins the loop; target starts below 2, for it
\* is counted up after the fork.
Start(p) ==
  /\ forking = "none"
  /\ forking' = p
  /\ parent' = "fork"
  /\ target' = IF p = "odds" THEN 1 ELSE 0
  /\ UNCHANGED <<forked, waited, memory, child, copied, thread>>

---------------------------------------------------------------------------
\* The parent

\* The child gets the parent's memory as it is; both go on behind the fork.
Fork ==
  /\ parent = "fork"
  /\ forked < Forks[forking]
  /\ forked' = forked + 1
  /\ target' = target + 1
  /\ child' = [child EXCEPT ![forked + 1] = "running"]
  /\ copied' = [copied EXCEPT ![forked + 1] =
                  [target |-> target, memory |-> memory, shifted |-> <<>>]]
  /\ UNCHANGED <<forking, parent, waited, memory, thread>>

\* The fork fails. "odds" looks for -2 and does not notice the -1; the other
\* programs exit, and leave the children that run to init.
ForkFails ==
  /\ parent = "fork"
  /\ forked < Forks[forking]
  /\ forked' = forked + 1
  /\ IF forking = "odds"
     THEN target' = target + 1 /\ parent' = parent
     ELSE target' = target /\ parent' = "failed"
  /\ UNCHANGED <<forking, waited, memory, child, copied, thread>>

AllForked ==
  /\ parent = "fork"
  /\ forked = Forks[forking]
  /\ parent' = "wait"
  /\ UNCHANGED <<forking, forked, target, waited, memory, child, copied, thread>>

\* The loop waits as often as the loop before has forked.
Enough == waited >= Forks[forking]

\* wait(NULL) collects any child that has exited, and fails if there is none.
Wait ==
  /\ parent = "wait"
  /\ ~Enough
  /\ \/ \E c \in Children :
          /\ child[c] = "exited"
          /\ child' = [child EXCEPT ![c] = "collected"]
     \/ /\ \A c \in Children : child[c] \in {"none", "collected"}
        /\ child' = child
  /\ waited' = waited + 1
  /\ UNCHANGED <<forking, parent, forked, target, memory, copied, thread>>

\* "Done.", and the strings are freed; "accumulate" goes on with a thread.
AllWaited ==
  /\ parent = "wait"
  /\ Enough
  /\ parent' = IF forking = "accumulate" THEN "join" ELSE "done"
  /\ UNCHANGED <<forking, forked, target, waited, memory, child, copied, thread>>

\* The thread of "accumulate" is not created, and main does not notice: it tests
\* for a negative result. It joins a handle that was never written, which ends
\* the process or fails, and then prints the sum without the thread.
NoThread ==
  /\ parent = "wait"
  /\ Enough
  /\ forking = "accumulate"
  /\ parent' \in {"failed", "no_thread"}
  /\ UNCHANGED <<forking, forked, target, waited, memory, child, copied, thread>>

Join ==
  /\ parent = "join"
  /\ thread = N
  /\ parent' = "done"
  /\ UNCHANGED <<forking, forked, target, waited, memory, child, copied, thread>>

---------------------------------------------------------------------------
\* The children and the thread

\* The string behind argv moved right by two places, in an array of its own.
Shifted(s) ==
  LET n == Len(s) IN [k \in 1 .. n |-> s[CHOOSE j \in 1 .. n : (j + 1) % n = k - 1]]

Uppercased(s) == [k \in 1 .. Len(s) |-> Upper(s[k])]

\* 0 + 1 + ... + (n - 1), the loop of accumulate.
Accumulated(n) == (n * (n - 1)) \div 2

\* string_shift_right in the copy `own`: the string itself is upper-cased in
\* place, the shifted one is made from what it was.
string_shift_right(own, k) ==
  [own EXCEPT !.memory.strings[k] = Uppercased(@),
              !.shifted = Shifted(own.memory.strings[k])]

\* Mutant: the loop variable is used before it is counted up.
ResultOneBehind(own) ==
  CASE forking = "odds" -> own
    [] forking = "strings" -> string_shift_right(own, own.target + 1)
    [] forking = "accumulate" -> [own EXCEPT !.memory.global = @ + Accumulated(N)]

\* What a child makes of its copy: the target it simulates, which it has
\* counted up itself, its string (strings are counted from 1 here), the sum.
Result(own) ==
  CASE forking = "odds" -> [own EXCEPT !.target = @ + 1]
    [] forking = "strings" -> string_shift_right(own, own.target + 1)
    [] forking = "accumulate" -> [own EXCEPT !.memory.global = @ + Accumulated(N)]

Work(c) ==
  /\ child[c] = "running"
  /\ child' = [child EXCEPT ![c] = "exited"]
  /\ copied' = [copied EXCEPT ![c] = Result(@)]
  /\ UNCHANGED <<forking, parent, forked, target, waited, memory, thread>>

Accumulate ==
  /\ parent = "join"
  /\ thread < N
  /\ thread' = thread + 1
  /\ memory' = [memory EXCEPT !.global = @ + thread]
  /\ UNCHANGED <<forking, parent, forked, target, waited, child, copied>>

---------------------------------------------------------------------------
main == AllForked \/ Wait \/ AllWaited \/ NoThread \/ Join

Next ==
  \/ \E p \in Programs : Start(p)
  \/ Fork \/ ForkFails
  \/ main
  \/ \E c \in Children : Work(c)
  \/ Accumulate

\* The parent and all its children run.
Fairness ==
  /\ WF_vars(Fork \/ ForkFails \/ main)
  /\ WF_vars(Accumulate)
  /\ \A c \in Children : WF_vars(Work(c))

Spec == Init /\ [][Next]_vars /\ Fairness

---------------------------------------------------------------------------
Worked == {c \in Children : child[c] \in {"exited", "collected"}}

\* The types.
TypeOK ==
  /\ forking \in Programs \cup {"none"}
  /\ parent \in {"none", "fork", "wait", "join", "done", "no_thread", "failed"}
  /\ forked \in 0 .. Cardinality(Children)
  /\ waited \in 0 .. forked
  /\ child \in [Children -> {"none", "running", "exited", "collected"}]

\* 1 + 2 + ... + n, what exercise03/README.md (160, 164) says is accumulated.
DocumentedSum(n) == (n * (n + 1)) \div 2

\* Every child works on something of its own, although all of them begin with
\* the same loop variable their parent still counts up: no target is simulated
\* twice and each is one the dice can show; every string comes out with its last
\* two characters in front. The child that accumulates adds 0 to N - 1, whatever
\* its parent's global is: less by N than 1 to N, which exercise03/README.md asks
\* for.
EachDoesItsOwn ==
  /\ forking = "odds" =>
       LET targets == {copied[c].target : c \in Worked}
       IN /\ targets \subseteq 2 .. 2 * Eyes
          /\ Cardinality(targets) = Cardinality(Worked)
  /\ forking = "strings" =>
       \A c \in Worked :
         LET s == Argv[c]
             m == Len(s) - (IF s = <<>> THEN 0 ELSE 2 % Len(s))
         IN copied[c].shifted = SubSeq(s, m + 1, Len(s)) \o SubSeq(s, 1, m)
  /\ forking = "accumulate" =>
       \A c \in Worked : /\ copied[c].memory.global = Accumulated(N)
                         /\ copied[c].memory.global + N = DocumentedSum(N)

\* "Done." is printed when no child runs any more and none is left behind as a
\* zombie, also when a fork has failed and there is one child less to wait for.
DoneIsLast ==
  parent \in {"join", "done", "no_thread"} =>
    \A c \in Children : child[c] \in {"none", "collected"}

\* What children do to their copies the parent never sees: its strings are what
\* they were, its global is zero after the fork and the sum after the thread, if
\* there is one.
ParentUntouched ==
  /\ memory.strings = Argv
  /\ memory.global =
       IF forking = "accumulate" /\ parent = "done"
       THEN Accumulated(N) ELSE Accumulated(thread)

\* The program ends, whatever forks fail.
Termination == forking # "none" ~> parent \in {"done", "no_thread", "failed"}
=============================================================================
