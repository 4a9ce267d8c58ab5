----------------------------- MODULE ChatServer -----------------------------
(***************************************************************************)
(* The chat server of exercise08: a listener thread that accepts           *)
(* connections and one thread per conversation, around one mutex,          *)
(* conf_mutex.                                                             *)
(*                                                                         *)
(* Three things of the code shape everything else. The listener holds the  *)
(* mutex while it waits in accept. server_user_is_admin returns true       *)
(* without giving the mutex back, and returns true for a name that differs *)
(* from an admin's. And the branch that would handle /shutdown is for a    *)
(* message number below one, so nobody ever reaches it.                    *)
(*                                                                         *)
(* The result of pthread_create is never looked at: a connection whose     *)
(* thread is not made stays open with nobody behind it, and without the    *)
(* listener main joins a handle that was never written.                    *)
(***************************************************************************)
EXTENDS Naturals, Sequences, FiniteSets

CONSTANTS
  Clients,          \* those who may connect
  Names,            \* user names
  AdminLists,       \* what may stand in argv: sequences of names
  MaxMessages,      \* bound: messages a client sends
  Listener,         \* the listener thread
  None,             \* the owner of a free mutex
  NULL              \* the null pointer

\* The size of config_t.admins.
MAX_ADMINS == 5

ASSUME ChatAssumption ==
  /\ Listener \notin Clients
  /\ None \notin Clients \cup {Listener}
  /\ NULL \notin Names
  /\ IsFiniteSet(Clients)
  /\ AdminLists \subseteq UNION {[1 .. n -> Names] : n \in 1 .. MAX_ADMINS}
  /\ MaxMessages \in Nat

VARIABLES
  process,          \* "starting", "running", "crashed" or "exited"
  admins,           \* config_t.admins, as far as it is written; NULL: no config
  connected_clients,
  mutex,            \* owner of conf_mutex
  listener,         \* where the listener is
  accepted,         \* whose connection it has accepted last
  backlog,          \* connections that wait for accept
  pc,               \* where each conversation is; "no_thread": it has none
  name,             \* conversation_t.name
  told,             \* what was printed behind the name when it connected
  peer,             \* the client's end of the connection
  sent,             \* messages a client has sent
  inbox             \* those of them that the server has not received

server == <<admins, connected_clients, mutex, listener, accepted>>
talk == <<pc, name, told>>
client == <<peer, sent>>
vars == <<process, server, backlog, talk, client, inbox>>

Init ==
  /\ process = "starting"
  /\ admins = NULL
  /\ connected_clients = 0
  /\ mutex = None
  /\ listener = "none"
  /\ accepted = None
  /\ backlog = <<>>
  /\ pc = [c \in Clients |-> "none"]
  /\ name = [c \in Clients |-> NULL]
  /\ told = [c \in Clients |-> "nothing"]
  /\ peer = [c \in Clients |-> "none"]
  /\ sent = [c \in Clients |-> 0]
  /\ inbox = [c \in Clients |-> 0]

ListenerGoto(from, to) ==
  /\ process = "running"
  /\ listener = from
  /\ listener' = to

Goto(c, from, to) ==
  /\ process = "running"
  /\ pc[c] = from
  /\ pc' = [pc EXCEPT ![c] = to]

---------------------------------------------------------------------------
\* main

\* Too few arguments: print the usage and exit.
Usage ==
  /\ process = "starting"
  /\ process' = "exited"
  /\ UNCHANGED <<server, backlog, talk, client, inbox>>

\* config_init fills in as many admins as there are arguments and leaves the
\* rest of the array as malloc found it, or fails: the port is not valid, or
\* the socket cannot be bound. main creates the listener and waits for it.
StartListener ==
  /\ process = "starting"
  /\ process' = "running"
  /\ admins' \in AdminLists \cup {NULL}
  /\ listener' = "lock"
  /\ UNCHANGED <<connected_clients, mutex, accepted, backlog, talk, client, inbox>>

\* The listener is not created and main does not notice: what it joins is a
\* handle as malloc left it, which ends the process one way or the other.
JoinNothing ==
  /\ process = "starting"
  /\ process' \in {"crashed", "exited"}
  /\ UNCHANGED <<server, backlog, talk, client, inbox>>

\* main returns from its join, and with that all threads end.
JoinListener ==
  /\ process = "running"
  /\ listener = "exited"
  /\ process' = "exited"
  /\ UNCHANGED <<server, backlog, talk, client, inbox>>

---------------------------------------------------------------------------
\* listener

Lock ==
  /\ ListenerGoto("lock", "accept")
  /\ mutex = None
  /\ admins # NULL
  /\ mutex' = Listener
  /\ UNCHANGED <<process, admins, connected_clients, accepted, backlog, talk,
                 client, inbox>>

\* Without a config, server->config->fd is a null dereference.
NoConfig ==
  /\ process = "running"
  /\ listener = "lock"
  /\ admins = NULL
  /\ process' = "crashed"
  /\ UNCHANGED <<server, backlog, talk, client, inbox>>

\* Mutant: the mutex is given back by whoever is done with the connection.
AcceptKeepingMutex ==
  /\ ListenerGoto("accept", "init")
  /\ backlog # <<>>
  /\ accepted' = Head(backlog)
  /\ backlog' = Tail(backlog)
  /\ UNCHANGED <<process, admins, connected_clients, mutex, talk, client, inbox>>

\* The mutex is given back only when somebody has connected.
Accept ==
  /\ ListenerGoto("accept", "init")
  /\ backlog # <<>>
  /\ accepted' = Head(backlog)
  /\ backlog' = Tail(backlog)
  /\ mutex' = None
  /\ UNCHANGED <<process, admins, connected_clients, talk, client, inbox>>

\* accept may fail for want of descriptors.
AcceptFails ==
  /\ ListenerGoto("accept", "exited")
  /\ mutex' = None
  /\ UNCHANGED <<process, admins, connected_clients, accepted, backlog, talk,
                 client, inbox>>

\* conversation_init: the count is changed under the mutex.
ConversationInit ==
  /\ ListenerGoto("init", "create")
  /\ mutex = None
  /\ connected_clients' = connected_clients + 1
  /\ UNCHANGED <<process, admins, mutex, accepted, backlog, talk, client, inbox>>

\* The listener goes on whether the thread of the conversation exists or not;
\* without one nobody ever receives from the connection or closes it.
CreateConversation ==
  /\ ListenerGoto("create", "lock")
  /\ \E there \in {"recv", "no_thread"} : pc' = [pc EXCEPT ![accepted] = there]
  /\ accepted' = None
  /\ UNCHANGED <<process, admins, connected_clients, mutex, backlog, name, told,
                 client, inbox>>

---------------------------------------------------------------------------
\* conversation

\* A receive takes one message or several that came together; the first one
\* ever carries the name, what comes with it behind the newline is lost.
Recv(c) ==
  /\ Goto(c, "recv", IF name[c] = NULL THEN "announce" ELSE "recv")
  /\ peer[c] # "reset"
  /\ \E n \in 1 .. inbox[c] : inbox' = [inbox EXCEPT ![c] = @ - n]
  /\ \E n \in Names :
       name' = [name EXCEPT ![c] = IF @ = NULL THEN n ELSE @]
  /\ UNCHANGED <<process, server, backlog, told, client>>

RecvNothing(c) ==
  /\ Goto(c, "recv", "leave")
  /\ peer[c] = "closed"
  /\ inbox[c] = 0
  /\ UNCHANGED <<process, server, backlog, name, told, client, inbox>>

RecvFails(c) ==
  /\ Goto(c, "recv", "exited")
  /\ peer[c] = "reset"
  /\ UNCHANGED <<process, server, backlog, name, told, client, inbox>>

\* Some admin of the list has another name: for server_user_is_admin, an admin.
DiffersFromOne(c) == \E k \in DOMAIN admins : admins[k] # name[c]

\* What server_user_is_admin does with a name. It goes to the end of the
\* array if all admins given have that name; the pointers behind them were
\* never written, so comparing with one may crash or differ.
Verdicts(c) ==
  IF name[c] = NULL THEN {"crash"}
  ELSE IF DiffersFromOne(c) THEN {"admin"}
  ELSE IF Len(admins) = MAX_ADMINS THEN {"user"}
  ELSE {"crash", "admin"}

\* Mutant: the admins are compared without taking the mutex first.
UserIsAdminUnlocked(c, verdict) ==
  /\ verdict \in Verdicts(c)
  /\ mutex' = IF verdict = "user" THEN None ELSE c

\* Lock, compare, and unlock unless the answer is true.
server_user_is_admin(c, verdict) ==
  /\ mutex = None
  /\ verdict \in Verdicts(c)
  /\ mutex' = IF verdict = "user" THEN None ELSE c

\* The line that says who connected is printed when the answer is there.
Announce(c) ==
  /\ Goto(c, "announce", "recv")
  /\ \E verdict \in {"admin", "user"} :
       /\ server_user_is_admin(c, verdict)
       /\ told' = [told EXCEPT ![c] = verdict]
  /\ UNCHANGED <<process, admins, connected_clients, listener, accepted, backlog,
                 name, client, inbox>>

\* The line that says who disconnected; the thread closes its socket and ends.
Leave(c) ==
  /\ Goto(c, "leave", "exited")
  /\ \E verdict \in {"admin", "user"} : server_user_is_admin(c, verdict)
  /\ UNCHANGED <<process, admins, connected_clients, listener, accepted, backlog,
                 name, told, client, inbox>>

\* A comparison with a wild pointer or of a null name ends the process.
Crash(c) ==
  /\ process = "running"
  /\ pc[c] \in {"announce", "leave"}
  /\ server_user_is_admin(c, "crash")
  /\ process' = "crashed"
  /\ UNCHANGED <<admins, connected_clients, listener, accepted, backlog, talk,
                 client, inbox>>

---------------------------------------------------------------------------
\* The clients, which are no part of the program.

Connect(c) ==
  /\ process = "running"
  /\ peer[c] = "none"
  /\ peer' = [peer EXCEPT ![c] = "open"]
  /\ backlog' = Append(backlog, c)
  /\ UNCHANGED <<process, server, talk, sent, inbox>>

Send(c) ==
  /\ process = "running"
  /\ peer[c] = "open"
  /\ sent[c] < MaxMessages
  /\ sent' = [sent EXCEPT ![c] = @ + 1]
  /\ inbox' = [inbox EXCEPT ![c] = @ + 1]
  /\ UNCHANGED <<process, server, backlog, talk, peer>>

Disconnect(c) ==
  /\ process = "running"
  /\ peer[c] = "open"
  /\ \E end \in {"closed", "reset"} : peer' = [peer EXCEPT ![c] = end]
  /\ UNCHANGED <<process, server, backlog, talk, sent, inbox>>

---------------------------------------------------------------------------
main == Usage \/ StartListener \/ JoinNothing \/ JoinListener

listen == Lock \/ NoConfig \/ Accept \/ ConversationInit \/ CreateConversation

conversation(c) ==
  Recv(c) \/ RecvNothing(c) \/ RecvFails(c) \/ Announce(c) \/ Leave(c) \/ Crash(c)

Next ==
  \/ main
  \/ listen
  \/ AcceptFails
  \/ \E c \in Clients : conversation(c) \/ Connect(c) \/ Send(c) \/ Disconnect(c)

\* Threads run, and a mutex that is free again and again is not withheld from
\* any of them for ever. Nobody promises that a client connects, sends or goes.
Fairness ==
  /\ WF_vars(StartListener) /\ WF_vars(JoinListener)
  /\ WF_vars(NoConfig \/ Accept \/ CreateConversation)
  /\ SF_vars(Lock) /\ SF_vars(ConversationInit)
  /\ \A c \in Clients :
       /\ WF_vars(Recv(c) \/ RecvNothing(c) \/ RecvFails(c))
       /\ SF_vars(Announce(c) \/ Leave(c) \/ Crash(c))

Spec == Init /\ [][Next]_vars /\ Fairness

---------------------------------------------------------------------------
\* The types; `accepted` names a client exactly while its conversation is made.
TypeOK ==
  /\ process \in {"starting", "running", "crashed", "exited"}
  /\ admins \in AdminLists \cup {NULL}
  /\ connected_clients \in Nat
  /\ mutex \in Clients \cup {Listener, None}
  /\ listener \in {"none", "lock", "accept", "init", "create", "exited"}
  /\ accepted \in Clients \cup {None}
  /\ (accepted \in Clients) <=> (listener \in {"init", "create"})
  /\ backlog \in Seq(Clients)
  /\ pc \in [Clients -> {"none", "recv", "announce", "leave", "exited", "no_thread"}]
  /\ name \in [Clients -> Names \cup {NULL}]
  /\ told \in [Clients -> {"nothing", "admin", "user"}]
  /\ peer \in [Clients -> {"none", "open", "closed", "reset"}]
  /\ sent \in [Clients -> 0 .. MaxMessages]
  /\ inbox \in [Clients -> 0 .. MaxMessages]

\* Who has conf_mutex, and what it guards, whatever the threads do at the same
\* time. The listener has it exactly while it is in accept. A conversation has
\* it between two calls only if server_user_is_admin has given it the answer
\* true, in the announcement or on leaving, or if the process died in there:
\* never one that receives after "user". connected_clients has counted each
\* accepted connection once; it never counts down, and a connection for which no
\* thread was made is among them.
\* The code keeps the mutex with the answer true (line 124), which no text of
\* the repository asks for: the property allows it and does not require it.
MutexAccountedFor ==
  /\ TypeOK
  /\ mutex = Listener <=> listener = "accept"
  /\ \A c \in Clients :
       mutex = c => told[c] = "admin" \/ pc[c] = "exited" \/ process = "crashed"
  /\ connected_clients =
       Cardinality({c \in Clients : pc[c] # "none"}) + (IF listener = "create" THEN 1 ELSE 0)

\* Somebody who connects is accepted and gets a conversation: accept, the count
\* and the questions of the other threads do not lock each other out. It is not
\* so if no thread could be made for the connection, which the listener does
\* not notice (line 235), if the process ends, or if a conversation keeps the
\* mutex with the answer true.
ConnectionIsServed ==
  \A c \in Clients :
    peer[c] # "none" ~> \/ pc[c] \notin {"none", "no_thread"}
                        \/ pc[c] = "no_thread"
                        \/ process \in {"crashed", "exited"}
                        \/ mutex \in Clients

\* What exercise08/README.md says of a client: its name is received and a line
\* is printed, with or without "(admin)". It need not be: the listener waits
\* in accept with the mutex that the line needs.
NameIsAnnounced ==
  \A c \in Clients :
    pc[c] = "announce" ~> pc[c] # "announce" \/ process \in {"crashed", "exited"}
=============================================================================
