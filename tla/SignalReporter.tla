--------------------------- MODULE SignalReporter ---------------------------
(***************************************************************************)
(* The program of exercise03 that handles signals: the handler only counts *)
(* them, and every second the main loop prints a line for each and counts  *)
(* down again. Reporting SIGUSR1 switches SIGUSR2 off, reporting SIGUSR2   *)
(* switches SIGUSR1 off, and reporting SIGINT switches both on again.      *)
(*                                                                         *)
(* The handler may run between any two steps of the main loop. `x--` there *)
(* is a load and a store, so what the handler adds between them is lost.   *)
(***************************************************************************)
EXTENDS Naturals

CONSTANTS
  MaxSignals,       \* bound: signals of each kind
  Second            \* ticks of a second, the unit of tv_nsec

\* The signals the program can catch, in the order it reports them; SIGSTOP and
\* SIGKILL, which it has counters for, cannot be caught.
SIGINT == 1
SIGCONT == 2
SIGUSR1 == 3
SIGUSR2 == 4
Signals == SIGINT .. SIGUSR2

VARIABLES
  reporter,         \* where the main loop is
  sig,              \* the signal whose loop it is in, or is setting up
  loaded,           \* what it has read of the counter it decrements
  disposition,      \* of each signal: "default", "handle" or "ignore"
  res,              \* int_res, cont_res, usr1_res, usr2_res
  handled,          \* how often the handler has run for each signal
  printed,          \* how many lines there are for each signal
  tv_sec,           \* work_duration
  tv_nsec

work_duration == <<tv_sec, tv_nsec>>
vars == <<reporter, sig, loaded, disposition, res, handled, printed, work_duration>>

Init ==
  /\ reporter = "none"
  /\ sig = SIGINT
  /\ loaded = 0
  /\ disposition = [s \in Signals |-> "default"]
  /\ res = [s \in Signals |-> 0]
  /\ handled = [s \in Signals |-> 0]
  /\ printed = [s \in Signals |-> 0]
  /\ tv_sec = 1
  /\ tv_nsec = 0

Goto(from, to) ==
  /\ reporter = from
  /\ reporter' = to

---------------------------------------------------------------------------
Start ==
  /\ Goto("none", "setup")
  /\ UNCHANGED <<sig, loaded, disposition, res, handled, printed, work_duration>>

\* main registers the handler for one signal after the other.
Setup ==
  /\ Goto("setup", IF sig = SIGUSR2 THEN "sleep" ELSE "setup")
  /\ disposition' = [disposition EXCEPT ![sig] = "handle"]
  /\ sig' = IF sig = SIGUSR2 THEN SIGINT ELSE sig + 1
  /\ UNCHANGED <<loaded, res, handled, printed, work_duration>>

\* nanosleep is over. Only the seconds of work_duration are put back; the
\* fraction that an interruption has left stays for all the rounds to come.
WakeUp ==
  /\ Goto("sleep", "test")
  /\ tv_sec' = 1
  /\ UNCHANGED <<sig, loaded, disposition, res, handled, printed, tv_nsec>>

\* The loop of one signal is left when its counter is zero.
LoopEnds ==
  /\ res[sig] = 0
  /\ Goto("test", IF sig = SIGUSR2 THEN "sleep" ELSE "test")
  /\ sig' = IF sig = SIGUSR2 THEN SIGINT ELSE sig + 1
  /\ UNCHANGED <<loaded, disposition, res, handled, printed, work_duration>>

\* Mutant: SIGINT brings back only the first of the two.
SwitchedIncompletely ==
  CASE sig = SIGINT -> [disposition EXCEPT ![SIGUSR1] = "handle"]
    [] sig = SIGCONT -> disposition
    [] sig = SIGUSR1 -> [disposition EXCEPT ![SIGUSR2] = "ignore"]
    [] sig = SIGUSR2 -> [disposition EXCEPT ![SIGUSR1] = "ignore"]

\* What the calls of sigaction in the loop of a signal make of the dispositions.
Switched ==
  CASE sig = SIGINT -> [disposition EXCEPT ![SIGUSR1] = "handle", ![SIGUSR2] = "handle"]
    [] sig = SIGCONT -> disposition
    [] sig = SIGUSR1 -> [disposition EXCEPT ![SIGUSR2] = "ignore"]
    [] sig = SIGUSR2 -> [disposition EXCEPT ![SIGUSR1] = "ignore"]

Switch ==
  /\ res[sig] # 0
  /\ Goto("test", "print")
  /\ disposition' = Switched
  /\ UNCHANGED <<sig, loaded, res, handled, printed, work_duration>>

PrintLine ==
  /\ Goto("print", "load")
  /\ printed' = [printed EXCEPT ![sig] = @ + 1]
  /\ UNCHANGED <<sig, loaded, disposition, res, handled, work_duration>>

Load ==
  /\ Goto("load", "store")
  /\ loaded' = res[sig]
  /\ UNCHANGED <<sig, disposition, res, handled, printed, work_duration>>

\* Mutant: the decrement is given up when the handler has run meanwhile.
StoreBack ==
  /\ Goto("store", "test")
  /\ res' = [res EXCEPT ![sig] = IF @ = loaded THEN loaded - 1 ELSE @]
  /\ loaded' = 0
  /\ UNCHANGED <<sig, disposition, handled, printed, work_duration>>

Store ==
  /\ Goto("store", "test")
  /\ res' = [res EXCEPT ![sig] = loaded - 1]
  /\ loaded' = 0
  /\ UNCHANGED <<sig, disposition, handled, printed, work_duration>>

---------------------------------------------------------------------------
\* The handler, which may run before any step of main.

Handle(s) ==
  /\ reporter \in {"setup", "test", "print", "load", "store"}
  /\ disposition[s] = "handle"
  /\ handled[s] < MaxSignals
  /\ handled' = [handled EXCEPT ![s] = @ + 1]
  /\ res' = [res EXCEPT ![s] = @ + 1]
  /\ UNCHANGED <<reporter, sig, loaded, disposition, printed, work_duration>>

\* It interrupts the sleep, which is taken up again with the time remaining.
Interrupt(s) ==
  /\ reporter = "sleep"
  /\ disposition[s] = "handle"
  /\ handled[s] < MaxSignals
  /\ handled' = [handled EXCEPT ![s] = @ + 1]
  /\ res' = [res EXCEPT ![s] = @ + 1]
  /\ \E left \in 0 .. Second * tv_sec + tv_nsec :
       /\ tv_sec' = left \div Second
       /\ tv_nsec' = left % Second
  /\ UNCHANGED <<reporter, sig, loaded, disposition, printed>>

\* A signal whose handler is not there yet ends the process, but for SIGCONT.
Terminate ==
  /\ reporter = "setup"
  /\ \E s \in Signals \ {SIGCONT} : disposition[s] = "default"
  /\ reporter' = "exited"
  /\ UNCHANGED <<sig, loaded, disposition, res, handled, printed, work_duration>>

---------------------------------------------------------------------------
print_recieved_signals == LoopEnds \/ Switch \/ PrintLine \/ Load \/ Store

main == Setup \/ WakeUp \/ print_recieved_signals

Next == Start \/ main \/ Terminate \/ \E s \in Signals : Handle(s) \/ Interrupt(s)

\* The main loop runs, and its sleep is over some time.
Fairness == WF_vars(main)

Spec == Init /\ [][Next]_vars /\ Fairness

---------------------------------------------------------------------------
\* The types; the counter of the loop the program is in is not zero until it
\* has been counted down.
TypeOK ==
  /\ reporter \in {"none", "setup", "sleep", "test", "print", "load", "store", "exited"}
  /\ sig \in Signals
  /\ loaded \in 0 .. MaxSignals
  /\ disposition \in [Signals -> {"default", "handle", "ignore"}]
  /\ res \in [Signals -> 0 .. MaxSignals]
  /\ handled \in [Signals -> 0 .. MaxSignals]
  /\ printed \in [Signals -> 0 .. MaxSignals]
  /\ reporter \in {"print", "load"} => res[sig] > 0
  /\ reporter = "store" => loaded \in 1 .. res[sig]

\* Losing increments is all that goes wrong with the counters: no line is ever
\* printed for a signal that did not come, and what is still counted comes on
\* top of the lines there are.
NoPhantomLine ==
  \A s \in Signals :
    printed[s] + res[s] <= handled[s] + (IF sig = s /\ reporter \in {"load", "store"}
                                         THEN 1 ELSE 0)

\* However often it is interrupted, a sleep is asked for less than two seconds,
\* and a second, or a fraction more, once it is a whole one again.
SleepIsBounded ==
  /\ Second * tv_sec + tv_nsec < 2 * Second
  /\ reporter = "test" => tv_sec = 1

BothHandled == disposition[SIGUSR1] = "handle" /\ disposition[SIGUSR2] = "handle"

\* A SIGINT that is counted is reported later, with both user signals handled
\* again by then, even when its count is lost to the decrement of another. They
\* stay so until a user signal is reported, which is after this report: the
\* order of the loops decides who has the last word in a round.
InterruptReenables ==
  /\ res[SIGINT] > 0 ~> \/ /\ sig = SIGINT
                           /\ reporter \in {"print", "load", "store"}
                           /\ BothHandled
                        \/ reporter = "exited"
  /\ [][BothHandled => \/ BothHandled'
                       \/ sig \in {SIGUSR1, SIGUSR2} /\ reporter' = "print"]_vars
=============================================================================
