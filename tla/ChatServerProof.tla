-------------------------- MODULE ChatServerProof --------------------------
(***************************************************************************)
(* Proofs about ChatServer, for any clients, names and lists of admins.    *)
(***************************************************************************)
EXTENDS ChatServer, FiniteSetTheorems, TLAPS

---------------------------------------------------------------------------
\* Who asks finds the mutex free and keeps it only with the answer true.
\* Before main has created the listener there is none.
ForAReason(c) == told[c] = "admin" \/ pc[c] = "exited" \/ process = "crashed"
KeptForAReason == \A c \in Clients : mutex = c => ForAReason(c)
ListenerHasIt == mutex = Listener <=> listener = "accept"
NotYetStarted == process = "starting" => listener = "none"

\* What is waiting to be received has been sent.
OnlySentIsReceived == \A c \in Clients : inbox[c] <= sent[c]

\* A connection is on its way to one conversation: who is in the backlog or
\* just accepted has connected and has no conversation yet, nobody is in the
\* backlog twice, and the one just accepted has left it.
OnTheWay(c) == pc[c] = "none" /\ peer[c] # "none"
WaitsOnce ==
  /\ \A c \in Clients : pc[c] # "none" => peer[c] # "none"
  /\ accepted \in Clients => OnTheWay(accepted)
  /\ \A i \in 1 .. Len(backlog) : OnTheWay(backlog[i]) /\ backlog[i] # accepted
  /\ \A i, j \in 1 .. Len(backlog) : i # j => backlog[i] # backlog[j]

Served == {c \in Clients : pc[c] # "none"}
CountsEachOnce ==
  connected_clients = Cardinality(Served) + (IF listener = "create" THEN 1 ELSE 0)

IInv ==
  /\ TypeOK
  /\ KeptForAReason
  /\ ListenerHasIt
  /\ NotYetStarted
  /\ OnlySentIsReceived

CountInv == WaitsOnce /\ CountsEachOnce

LEMMA InvImplies == IInv /\ CountInv => MutexAccountedFor
<1> QED
  BY DEF IInv, KeptForAReason, ForAReason, ListenerHasIt, CountInv, CountsEachOnce,
         Served, MutexAccountedFor

LEMMA InitInv == Init => IInv
<1> SUFFICES ASSUME Init PROVE IInv
  OBVIOUS
<1> USE ChatAssumption DEF Init
<1>1. TypeOK
  BY DEF TypeOK
<1>2. KeptForAReason /\ ListenerHasIt /\ NotYetStarted /\ OnlySentIsReceived
  BY DEF KeptForAReason, ForAReason, ListenerHasIt, NotYetStarted, OnlySentIsReceived
<1> QED BY <1>1, <1>2 DEF IInv

---------------------------------------------------------------------------
\* The steps of main and of the listener: the mutex changes hands only at the
\* two ends of accept.
LEMMA MainInv == ASSUME IInv, main PROVE IInv'
<1> USE ChatAssumption DEF IInv, server, talk, client
<1>1. CASE Usage
  BY <1>1 DEF Usage, TypeOK, KeptForAReason, ForAReason, ListenerHasIt, NotYetStarted, OnlySentIsReceived
<1>2. CASE StartListener
  BY <1>2 DEF StartListener, TypeOK, KeptForAReason, ForAReason, ListenerHasIt, NotYetStarted, OnlySentIsReceived
<1>3. CASE JoinNothing
  BY <1>3 DEF JoinNothing, TypeOK, KeptForAReason, ForAReason, ListenerHasIt, NotYetStarted, OnlySentIsReceived
<1>4. CASE JoinListener
  BY <1>4 DEF JoinListener, TypeOK, KeptForAReason, ForAReason, ListenerHasIt, NotYetStarted, OnlySentIsReceived
<1> QED BY <1>1, <1>2, <1>3, <1>4 DEF main

LEMMA ListenInv == ASSUME IInv, CountInv, listen \/ AcceptFails PROVE IInv'
<1> USE ChatAssumption DEF IInv, server, talk, client, ListenerGoto
<1>1. CASE Lock
  BY <1>1 DEF Lock, TypeOK, KeptForAReason, ForAReason, ListenerHasIt, NotYetStarted, OnlySentIsReceived
<1>2. CASE NoConfig
  BY <1>2 DEF NoConfig, TypeOK, KeptForAReason, ForAReason, ListenerHasIt, NotYetStarted, OnlySentIsReceived
<1>3. CASE Accept
  <2>1. Head(backlog) \in Clients /\ Tail(backlog) \in Seq(Clients)
    BY <1>3 DEF Accept, TypeOK
  <2>2. mutex = Listener
    BY <1>3 DEF Accept, ListenerHasIt
  <2>3. TypeOK'
    BY <1>3, <2>1 DEF Accept, TypeOK
  <2>4. KeptForAReason' /\ ListenerHasIt' /\ NotYetStarted' /\ OnlySentIsReceived'
    BY <1>3, <2>2 DEF Accept, KeptForAReason, ForAReason, ListenerHasIt, NotYetStarted, OnlySentIsReceived
  <2> QED BY <2>3, <2>4
<1>4. CASE AcceptFails
  <2>1. mutex = Listener
    BY <1>4 DEF AcceptFails, ListenerHasIt
  <2> QED
    BY <1>4, <2>1
       DEF AcceptFails, TypeOK, KeptForAReason, ForAReason, ListenerHasIt, NotYetStarted, OnlySentIsReceived
<1>5. CASE ConversationInit
  BY <1>5 DEF ConversationInit, TypeOK, KeptForAReason, ForAReason, ListenerHasIt, NotYetStarted, OnlySentIsReceived
<1>6. CASE CreateConversation
  <2>1. accepted \in Clients /\ pc[accepted] = "none"
    BY <1>6 DEF CreateConversation, TypeOK, CountInv, WaitsOnce, OnTheWay
  <2> QED
    BY <1>6, <2>1
       DEF CreateConversation, TypeOK, KeptForAReason, ForAReason, ListenerHasIt, NotYetStarted, OnlySentIsReceived
<1> QED BY <1>1, <1>2, <1>3, <1>4, <1>5, <1>6 DEF listen

---------------------------------------------------------------------------
\* A conversation that asks finds the mutex free, and keeps it or not.
LEMMA Asking ==
  ASSUME IInv, NEW c \in Clients, NEW verdict, server_user_is_admin(c, verdict)
  PROVE  /\ listener # "accept"
         /\ mutex = None
         /\ mutex' \in {None, c}
         /\ mutex' # Listener
         /\ verdict = "user" => mutex' = None
<1> USE ChatAssumption
<1> QED BY DEF IInv, ListenerHasIt, server_user_is_admin

LEMMA ConversationInv ==
  ASSUME IInv, NEW c \in Clients, conversation(c)
  PROVE  IInv'
<1> USE ChatAssumption DEF IInv, server, talk, client, Goto
<1>1. CASE Recv(c)
  <2>1. inbox' \in [Clients -> 0 .. MaxMessages]
    <3>1. PICK n \in 1 .. inbox[c] : inbox' = [inbox EXCEPT ![c] = @ - n]
      BY <1>1 DEF Recv
    <3>2. inbox[c] - n \in 0 .. MaxMessages
      BY DEF TypeOK
    <3> QED BY <3>1, <3>2 DEF TypeOK
  <2>2. name' \in [Clients -> Names \cup {NULL}]
    <3>1. PICK n \in Names : name' = [name EXCEPT ![c] = IF @ = NULL THEN n ELSE @]
      BY <1>1 DEF Recv
    <3> QED BY <3>1 DEF TypeOK
  <2>3. pc' \in [Clients -> {"none", "recv", "announce", "leave", "exited", "no_thread"}]
    BY <1>1 DEF Recv, TypeOK
  <2>4. TypeOK'
    BY <1>1, <2>1, <2>2, <2>3 DEF Recv, TypeOK
  <2>5. OnlySentIsReceived'
    <3>1. PICK n \in 1 .. inbox[c] : inbox' = [inbox EXCEPT ![c] = @ - n]
      BY <1>1 DEF Recv
    <3> SUFFICES ASSUME NEW d \in Clients PROVE inbox'[d] <= sent[d]
      BY <1>1 DEF Recv, OnlySentIsReceived
    <3>2. inbox[d] <= sent[d] /\ inbox[d] \in Nat /\ sent[d] \in Nat
      BY DEF OnlySentIsReceived, TypeOK
    <3> QED BY <3>1, <3>2 DEF TypeOK
  <2> QED BY <1>1, <2>4, <2>5 DEF Recv, KeptForAReason, ForAReason, ListenerHasIt, NotYetStarted
<1>2. CASE RecvNothing(c)
  BY <1>2 DEF RecvNothing, TypeOK, KeptForAReason, ForAReason, ListenerHasIt, NotYetStarted, OnlySentIsReceived
<1>3. CASE RecvFails(c)
  BY <1>3 DEF RecvFails, TypeOK, KeptForAReason, ForAReason, ListenerHasIt, NotYetStarted, OnlySentIsReceived
<1>4. CASE Announce(c)
  <2>1. PICK verdict \in {"admin", "user"} :
          /\ server_user_is_admin(c, verdict)
          /\ told' = [told EXCEPT ![c] = verdict]
    BY <1>4 DEF Announce
  <2>2. /\ listener # "accept" /\ mutex' # Listener
        /\ mutex = None /\ mutex' \in {None, c}
        /\ verdict = "user" => mutex' = None
    BY <2>1, Asking
  <2>3. TypeOK'
    BY <1>4, <2>1, <2>2 DEF Announce, TypeOK
  <2>4. KeptForAReason'
    BY <2>1, <2>2 DEF KeptForAReason, ForAReason, TypeOK
  <2>5. ListenerHasIt' /\ NotYetStarted' /\ OnlySentIsReceived'
    BY <1>4, <2>2 DEF Announce, ListenerHasIt, NotYetStarted, OnlySentIsReceived
  <2> QED BY <2>3, <2>4, <2>5
<1>5. CASE Leave(c)
  <2>1. PICK verdict \in {"admin", "user"} : server_user_is_admin(c, verdict)
    BY <1>5 DEF Leave
  <2>2. /\ listener # "accept" /\ mutex' # Listener
        /\ mutex' \in {None, c}
    BY <2>1, Asking
  <2>3. TypeOK'
    BY <1>5, <2>2 DEF Leave, TypeOK
  <2>4. KeptForAReason' /\ ListenerHasIt' /\ NotYetStarted' /\ OnlySentIsReceived'
    BY <1>5, <2>2
       DEF Leave, TypeOK, KeptForAReason, ForAReason, ListenerHasIt, NotYetStarted, OnlySentIsReceived
  <2> QED BY <2>3, <2>4
<1>6. CASE Crash(c)
  <2>1. /\ listener # "accept" /\ mutex' # Listener
        /\ mutex' \in {None, c}
    BY <1>6, Asking DEF Crash
  <2>2. TypeOK'
    BY <1>6, <2>1 DEF Crash, TypeOK
  <2>3. KeptForAReason' /\ ListenerHasIt' /\ NotYetStarted' /\ OnlySentIsReceived'
    BY <1>6, <2>1 DEF Crash, KeptForAReason, ForAReason, ListenerHasIt, NotYetStarted, OnlySentIsReceived
  <2> QED BY <2>2, <2>3
<1> QED BY <1>1, <1>2, <1>3, <1>4, <1>5, <1>6 DEF conversation

\* The clients touch nothing of the server but what waits for it.
LEMMA ClientInv ==
  ASSUME IInv, NEW c \in Clients, Connect(c) \/ Send(c) \/ Disconnect(c)
  PROVE  IInv'
<1> USE ChatAssumption DEF IInv, server, talk, client
<1>1. CASE Connect(c)
  <2>1. Append(backlog, c) \in Seq(Clients)
    BY DEF TypeOK
  <2> QED
    BY <1>1, <2>1 DEF Connect, TypeOK, KeptForAReason, ForAReason, ListenerHasIt, NotYetStarted, OnlySentIsReceived
<1>2. CASE Send(c)
  <2>1. /\ sent[c] \in 0 .. MaxMessages /\ sent[c] < MaxMessages
        /\ inbox[c] \in 0 .. MaxMessages /\ inbox[c] <= sent[c]
    BY <1>2 DEF Send, TypeOK, OnlySentIsReceived
  <2>2. sent[c] + 1 \in 0 .. MaxMessages /\ inbox[c] + 1 \in 0 .. MaxMessages
    BY <2>1
  <2>3. TypeOK'
    BY <1>2, <2>2 DEF Send, TypeOK
  <2>4. OnlySentIsReceived'
    <3> SUFFICES ASSUME NEW d \in Clients PROVE inbox'[d] <= sent'[d]
      BY DEF OnlySentIsReceived
    <3>1. inbox[d] <= sent[d] /\ inbox[d] \in Nat /\ sent[d] \in Nat
      BY DEF OnlySentIsReceived, TypeOK
    <3> QED BY <1>2, <3>1 DEF Send, TypeOK
  <2> QED
    BY <1>2, <2>3, <2>4 DEF Send, KeptForAReason, ForAReason, ListenerHasIt, NotYetStarted
<1>3. CASE Disconnect(c)
  BY <1>3 DEF Disconnect, TypeOK, KeptForAReason, ForAReason, ListenerHasIt, NotYetStarted, OnlySentIsReceived
<1> QED BY <1>1, <1>2, <1>3

LEMMA StutterInv == ASSUME IInv, UNCHANGED vars PROVE IInv'
<1> QED
  BY DEF IInv, TypeOK, KeptForAReason, ForAReason, ListenerHasIt, NotYetStarted,
         OnlySentIsReceived, vars, server, talk, client

LEMMA NextInv == ASSUME IInv, CountInv, [Next]_vars PROVE IInv'
<1>1. CASE main
  BY <1>1, MainInv
<1>2. CASE listen \/ AcceptFails
  BY <1>2, ListenInv
<1>3. ASSUME NEW c \in Clients, conversation(c) PROVE IInv'
  BY <1>3, ConversationInv
<1>4. ASSUME NEW c \in Clients, Connect(c) \/ Send(c) \/ Disconnect(c) PROVE IInv'
  BY <1>4, ClientInv
<1>5. CASE UNCHANGED vars
  BY <1>5, StutterInv
<1> QED BY <1>1, <1>2, <1>3, <1>4, <1>5 DEF Next

---------------------------------------------------------------------------
\* Most steps leave alone who waits, who has a conversation and the count.
LEMMA SameCount ==
  ASSUME CountInv, UNCHANGED <<connected_clients, accepted, backlog>>,
         \A c \in Clients : pc'[c] = "none" <=> pc[c] = "none",
         \A c \in Clients : peer'[c] = "none" <=> peer[c] = "none",
         listener' = "create" <=> listener = "create",
         accepted \in Clients \cup {None}, backlog \in Seq(Clients)
  PROVE  CountInv'
<1>1. Served' = Served
  BY DEF Served
<1>2. CountsEachOnce'
  BY <1>1 DEF CountInv, CountsEachOnce
<1>3. \A i \in 1 .. Len(backlog) : backlog[i] \in Clients
  OBVIOUS
<1>4. WaitsOnce'
  BY <1>3 DEF CountInv, WaitsOnce, OnTheWay
<1> QED BY <1>2, <1>4 DEF CountInv

\* Who is accepted leaves the backlog for good.
LEMMA AcceptCount == ASSUME IInv, CountInv, Accept PROVE CountInv'
<1> USE ChatAssumption DEF Accept, ListenerGoto, talk, client
<1>1. /\ backlog \in Seq(Clients) /\ backlog # <<>> /\ Len(backlog) \in Nat \ {0}
      /\ backlog' = Tail(backlog) /\ accepted' = backlog[1] /\ backlog[1] \in Clients
  BY DEF IInv, TypeOK
<1>2. /\ Len(backlog') = Len(backlog) - 1
      /\ \A i \in 1 .. Len(backlog') : backlog'[i] = backlog[i + 1] /\ i + 1 \in 1 .. Len(backlog)
  BY <1>1
<1>3. UNCHANGED <<pc, peer>>
  OBVIOUS
<1>4. /\ \A i \in 1 .. Len(backlog) : OnTheWay(backlog[i])
      /\ \A i, j \in 1 .. Len(backlog) : i # j => backlog[i] # backlog[j]
      /\ \A c \in Clients : pc[c] # "none" => peer[c] # "none"
  BY DEF CountInv, WaitsOnce
<1>5. WaitsOnce'
  <2>1. OnTheWay(accepted)'
    BY <1>1, <1>3, <1>4 DEF OnTheWay
  <2>2. ASSUME NEW i \in 1 .. Len(backlog')
        PROVE  OnTheWay(backlog[i])' /\ backlog'[i] # accepted'
    <3>1. backlog'[i] = backlog[i + 1] /\ i + 1 \in 1 .. Len(backlog) /\ i + 1 # 1
      BY <1>2
    <3>2. 1 \in 1 .. Len(backlog)
      BY <1>1
    <3> QED BY <1>1, <1>3, <1>4, <3>1, <3>2 DEF OnTheWay
  <2>3. ASSUME NEW i \in 1 .. Len(backlog'), NEW j \in 1 .. Len(backlog'), i # j
        PROVE  backlog'[i] # backlog'[j]
    <3>1. /\ backlog'[i] = backlog[i + 1] /\ i + 1 \in 1 .. Len(backlog)
          /\ backlog'[j] = backlog[j + 1] /\ j + 1 \in 1 .. Len(backlog) /\ i + 1 # j + 1
      BY <1>2, <2>3
    <3> QED BY <1>4, <3>1
  <2> QED BY <1>3, <1>4, <2>1, <2>2, <2>3 DEF WaitsOnce
<1>6. CountsEachOnce'
  BY <1>3 DEF CountInv, CountsEachOnce, Served
<1> QED BY <1>5, <1>6 DEF CountInv

\* The one just accepted is counted before its conversation is made, and has
\* none yet.
LEMMA CreateCount ==
  ASSUME IInv, CountInv, ConversationInit \/ CreateConversation
  PROVE  CountInv'
<1> USE ChatAssumption DEF ListenerGoto, talk, client
<1>1. CASE ConversationInit
  <2>1. CountsEachOnce'
    <3>1. Served' = Served /\ connected_clients' = connected_clients + 1
      BY <1>1 DEF ConversationInit, Served
    <3>2. listener = "init" /\ listener' = "create" /\ connected_clients = Cardinality(Served) + 0
      BY <1>1 DEF ConversationInit, CountInv, CountsEachOnce
    <3>3. Cardinality(Served) \in Nat
      BY FS_Subset, FS_CardinalityType DEF Served
    <3> QED BY <3>1, <3>2, <3>3 DEF CountsEachOnce
  <2>2. WaitsOnce'
    BY <1>1 DEF ConversationInit, CountInv, WaitsOnce, OnTheWay
  <2> QED BY <2>1, <2>2 DEF CountInv
<1>2. CASE CreateConversation
  <2>1. /\ accepted \in Clients /\ accepted' = None /\ None \notin Clients
        /\ pc[accepted] = "none" /\ peer[accepted] # "none"
    BY <1>2 DEF CreateConversation, IInv, TypeOK, CountInv, WaitsOnce, OnTheWay
  <2>2. PICK there \in {"recv", "no_thread"} : pc' = [pc EXCEPT ![accepted] = there]
    BY <1>2 DEF CreateConversation
  <2>3. /\ pc'[accepted] # "none"
        /\ \A c \in Clients : c # accepted => pc'[c] = pc[c]
    BY <2>1, <2>2 DEF IInv, TypeOK
  <2>4. Served' = Served \cup {accepted} /\ accepted \notin Served
    BY <2>1, <2>3 DEF Served
  <2>5. IsFiniteSet(Served)
    BY FS_Subset DEF Served
  <2>6. Cardinality(Served') = Cardinality(Served) + 1
    BY <2>4, <2>5, FS_AddElement
  <2>7. CountsEachOnce'
    BY <1>2, <2>5, <2>6, FS_CardinalityType DEF CreateConversation, CountInv, CountsEachOnce
  <2>8. UNCHANGED <<backlog, peer>> /\ \A i \in 1 .. Len(backlog) : backlog[i] \in Clients
    BY <1>2 DEF CreateConversation, IInv, TypeOK
  <2>9. WaitsOnce'
    BY <2>1, <2>3, <2>8 DEF CountInv, WaitsOnce, OnTheWay
  <2> QED BY <2>7, <2>9 DEF CountInv
<1> QED BY <1>1, <1>2

\* Who connects has never connected before, so it stands nowhere yet.
LEMMA ConnectCount ==
  ASSUME IInv, CountInv, NEW c \in Clients, Connect(c)
  PROVE  CountInv'
<1> USE ChatAssumption DEF Connect, server, talk
<1>1. /\ backlog \in Seq(Clients) /\ Len(backlog) \in Nat /\ backlog' = Append(backlog, c)
      /\ peer[c] = "none" /\ peer' = [peer EXCEPT ![c] = "open"]
      /\ UNCHANGED <<pc, accepted, connected_clients, listener>>
      /\ peer \in [Clients -> {"none", "open", "closed", "reset"}]
      /\ accepted \in Clients \cup {None}
  BY DEF IInv, TypeOK
<1>2. /\ Len(backlog') = Len(backlog) + 1 /\ backlog'[Len(backlog) + 1] = c
      /\ \A i \in 1 .. Len(backlog) : backlog'[i] = backlog[i] /\ backlog[i] \in Clients
  BY <1>1
<1>3. /\ pc[c] = "none" /\ accepted # c
      /\ \A i \in 1 .. Len(backlog) : backlog[i] # c
  BY <1>1 DEF CountInv, WaitsOnce, OnTheWay
<1>4. \A d \in Clients : OnTheWay(d) => OnTheWay(d)'
  BY <1>1 DEF OnTheWay
<1>5. OnTheWay(c)'
  BY <1>1, <1>3 DEF OnTheWay
<1>6. \A i \in 1 .. Len(backlog') : i \in 1 .. Len(backlog) \/ i = Len(backlog) + 1
  BY <1>1, <1>2
<1>7. WaitsOnce'
  <2>1. \A d \in Clients : pc'[d] # "none" => peer'[d] # "none"
    BY <1>1 DEF CountInv, WaitsOnce
  <2>2. accepted' \in Clients => OnTheWay(accepted)'
    BY <1>1, <1>4 DEF CountInv, WaitsOnce, OnTheWay
  <2>3. ASSUME NEW i \in 1 .. Len(backlog')
        PROVE  backlog'[i] \in Clients /\ OnTheWay(backlog[i])' /\ backlog'[i] # accepted'
    BY <1>1, <1>2, <1>3, <1>5, <1>6 DEF CountInv, WaitsOnce, OnTheWay
  <2>4. ASSUME NEW i \in 1 .. Len(backlog'), NEW j \in 1 .. Len(backlog'), i # j
        PROVE  backlog'[i] # backlog'[j]
    BY <1>2, <1>3, <1>6, <2>4 DEF CountInv, WaitsOnce
  <2> QED BY <2>1, <2>2, <2>3, <2>4 DEF WaitsOnce
<1>8. CountsEachOnce'
  BY <1>1 DEF CountInv, CountsEachOnce, Served
<1> QED BY <1>7, <1>8 DEF CountInv

LEMMA NextCount == ASSUME IInv, CountInv, [Next]_vars PROVE CountInv'
<1> USE DEF server, talk, client
<1>1. accepted \in Clients \cup {None} /\ backlog \in Seq(Clients)
  BY DEF IInv, TypeOK
<1>2. CASE main
  BY <1>1, <1>2, SameCount
     DEF main, Usage, StartListener, JoinNothing, JoinListener, IInv, NotYetStarted
<1>3. CASE Lock \/ NoConfig \/ AcceptFails
  BY <1>1, <1>3, SameCount DEF Lock, NoConfig, AcceptFails, ListenerGoto
<1>4. ASSUME NEW c \in Clients, conversation(c) PROVE CountInv'
  <2>1. /\ UNCHANGED <<connected_clients, accepted, backlog, peer, listener>>
        /\ \/ UNCHANGED pc
           \/ \E from, to \in {"recv", "announce", "leave", "exited"} : Goto(c, from, to)
    BY <1>4 DEF conversation, Recv, RecvNothing, RecvFails, Announce, Leave, Crash
  <2>2. \A d \in Clients : pc'[d] = "none" <=> pc[d] = "none"
    BY <2>1 DEF Goto, IInv, TypeOK
  <2> QED BY <1>1, <2>1, <2>2, SameCount
<1>5. ASSUME NEW c \in Clients, Send(c) \/ Disconnect(c) PROVE CountInv'
  <2>1. /\ UNCHANGED <<connected_clients, accepted, backlog, pc, listener>>
        /\ \A d \in Clients : peer'[d] = "none" <=> peer[d] = "none"
    BY <1>5 DEF Send, Disconnect, IInv, TypeOK
  <2> QED BY <1>1, <2>1, SameCount
<1>6. CASE UNCHANGED vars
  BY <1>1, <1>6, SameCount DEF vars
<1> QED
  BY <1>2, <1>3, <1>4, <1>5, <1>6, AcceptCount, CreateCount, ConnectCount DEF Next, listen

---------------------------------------------------------------------------
\* The inductive invariant holds for any clients, names, lists of admins and
\* number of messages.
THEOREM Invariance == Spec => [](IInv /\ CountInv)
<1>1. Init => IInv
  BY InitInv
<1>2. Init => CountInv
  <2> SUFFICES ASSUME Init PROVE CountInv
    OBVIOUS
  <2>1. WaitsOnce
    BY ChatAssumption DEF Init, WaitsOnce
  <2>2. Served = {}
    BY DEF Init, Served
  <2>3. CountsEachOnce
    BY <2>2, FS_EmptySet DEF Init, CountsEachOnce
  <2> QED BY <2>1, <2>3 DEF CountInv
<1>3. IInv /\ CountInv /\ [Next]_vars => IInv' /\ CountInv'
  BY NextInv, NextCount
<1> QED BY <1>1, <1>2, <1>3, PTL DEF Spec

\* The listener has conf_mutex exactly while it is in accept, a conversation
\* keeps it only with the answer true, and each accepted connection has been
\* counted once, in every interleaving of the threads (server.c:120-151,
\* 216-243).
THEOREM WhoHasTheMutex == Spec => []MutexAccountedFor
<1>1. IInv /\ CountInv => MutexAccountedFor
  BY InvImplies
<1> QED BY <1>1, Invariance, PTL

=============================================================================
