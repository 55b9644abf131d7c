---------------------------- MODULE ClientThreads ----------------------------
(***************************************************************************)
(* The two threads of a client's networking (network/ClientNetworking.cpp,  *)
(* network/MessageQueue.cpp): the main thread sends, takes messages out of  *)
(* m_incoming_messages and may sleep on its condition variable; the         *)
(* networking thread runs the handlers of m_io_service. One action is one   *)
(* critical section of m_mutex, or what one thread does between two.        *)
(* The server at the other end is what the threads need of it.              *)
(***************************************************************************)
EXTENDS Naturals, Sequences

CONSTANTS MaxSent,         \* bound on the messages of the client
          MaxServed,       \* bound on the server's messages that nobody asked for
          MaxConnections   \* bound on the connections made, one after another

ASSUME ThreadsAssumption == {MaxSent, MaxServed, MaxConnections} \subseteq Nat

VARIABLES
    main,                   \* what the main thread is about to do
    posting,                \* the task it is about to post
    netThread,              \* how far the networking thread has come
    m_connected,
    appConnected,           \* HumanClientApp::m_connected
    m_incoming_messages,
    m_io_service,           \* tasks posted and not yet run
    m_outgoing_messages,
    write,                  \* the asynchronous write of the first of them
    socketOpen, serverOpen, \* the two ends of the connection
    toServer, fromServer,   \* what is on its way
    handled,                \* the messages the main thread has taken
    sent, served,           \* messages numbered so far
    connection,             \* connections made so far
    received, owed          \* the server: last message read, requests unanswered

mainVars == <<main, posting, appConnected, handled, sent>>
socketVars == <<socketOpen, serverOpen, toServer, fromServer, connection>>
netVars == <<netThread, m_connected, m_incoming_messages, m_io_service,
             m_outgoing_messages, write>>
serverSide == <<served, received, owed>>
threadVars == <<mainVars, socketVars, netVars, serverSide>>

Tasks == [type : {"message", "request", "close"}, n : Nat]
Incoming == [synchronous : BOOLEAN, n : Nat, connection : Nat]

-----------------------------------------------------------------------------
(* Main thread. *)

Waiting == main \in {"finding", "asleep"}

(* SendMessage tests m_connected and then posts, outside the mutex;            *)
(* DisconnectFromServer does so with the closing of the socket.                *)
NextTask(type) == [type |-> type, n |-> sent + 1]

SendMessage(type) ==
    /\ main = "idle"
    /\ m_connected
    /\ sent < MaxSent
    /\ posting' = NextTask(type)
    /\ main' = "posting"
    /\ UNCHANGED <<appConnected, handled, sent, socketVars, netVars, serverSide>>

Post ==
    /\ main = "posting"
    /\ m_io_service' = Append(m_io_service, posting)
    /\ main' = IF posting.type = "request" THEN "finding" ELSE "idle"
    /\ sent' = posting.n
    /\ UNCHANGED <<posting, appConnected, handled, socketVars, netThread, m_connected,
                   m_incoming_messages, m_outgoing_messages, write, serverSide>>

(* SendSynchronousMessage waits even when SendMessage has not sent anything.   *)
AskUnconnected ==
    /\ main = "idle"
    /\ ~m_connected
    /\ main' = "finding"
    /\ UNCHANGED <<posting, appConnected, handled, sent, socketVars, netVars, serverSide>>

SynchronousResponse(q, i) ==
    /\ i \in DOMAIN q
    /\ q[i].synchronous
    /\ \A j \in DOMAIN q : j < i => ~q[j].synchronous

(* A mutant: the message at the front goes instead of the one returned.        *)
EraseFront(q, i) == Tail(q)

Erase(q, i) == SubSeq(q, 1, i - 1) \o SubSeq(q, i + 1, Len(q))

EraseFirstSynchronousResponse ==
    /\ main = "finding"
    /\ \/ \E i \in DOMAIN m_incoming_messages :
             /\ SynchronousResponse(m_incoming_messages, i)
             /\ handled' = Append(handled, m_incoming_messages[i])
             /\ m_incoming_messages' = Erase(m_incoming_messages, i)
             /\ main' = "idle"
       \/ /\ \A i \in DOMAIN m_incoming_messages : ~m_incoming_messages[i].synchronous
          /\ main' = "asleep"
          /\ UNCHANGED <<handled, m_incoming_messages>>
    /\ UNCHANGED <<posting, appConnected, sent, socketVars, netThread, m_connected,
                   m_io_service, m_outgoing_messages, write, serverSide>>

(* A wait on a condition variable may end without a notification.              *)
SpuriousWakeup ==
    /\ main = "asleep"
    /\ main' = "finding"
    /\ UNCHANGED <<posting, appConnected, handled, sent, socketVars, netVars, serverSide>>

(* A mutant: a connected client is taken to have a message.                    *)
AvailableIfConnected == m_connected

Available == m_incoming_messages # <<>>

(* GetMessage tests for a message in one critical section ...                  *)
MessageAvailable ==
    /\ main = "idle"
    /\ Available
    /\ main' = "getting"
    /\ UNCHANGED <<posting, appConnected, handled, sent, socketVars, netVars, serverSide>>

(* ... and takes it in another. The front() of an empty list is undefined: the *)
(* process ends, or goes on with a message that holds nothing.                 *)
PopFront ==
    /\ main = "getting"
    /\ \/ /\ m_incoming_messages # <<>>
          /\ handled' = Append(handled, Head(m_incoming_messages))
          /\ m_incoming_messages' = Tail(m_incoming_messages)
          /\ main' = "idle"
       \/ /\ m_incoming_messages = <<>>
          /\ main' \in {"crashed", "idle"}
          /\ UNCHANGED <<handled, m_incoming_messages>>
    /\ UNCHANGED <<posting, appConnected, sent, socketVars, netThread, m_connected,
                   m_io_service, m_outgoing_messages, write, serverSide>>

NoticeDisconnection ==
    /\ main = "idle"
    /\ appConnected /\ ~m_connected
    /\ appConnected' = FALSE
    /\ UNCHANGED <<main, posting, handled, sent, socketVars, netVars, serverSide>>

(* ConnectToServer runs m_io_service in the main thread until it is connected   *)
(* or gives up, perhaps because a task threw. Callers wait until the earlier     *)
(* networking thread has said that it is disconnected.                           *)
ConnectToServer ==
    /\ main = "idle"
    /\ ~m_connected
    /\ connection < MaxConnections
    /\ main' = "connecting"
    /\ UNCHANGED <<posting, appConnected, handled, sent, socketVars, netVars, serverSide>>

(* A task that an earlier connection left runs first: a message is kept for, or  *)
(* written to, the new one; the closing of the socket makes it try again.         *)
RunLeftTask ==
    /\ main = "connecting"
    /\ m_io_service # <<>>
    /\ m_io_service' = Tail(m_io_service)
    /\ m_outgoing_messages' = IF Head(m_io_service).type = "close" THEN m_outgoing_messages
                              ELSE Append(m_outgoing_messages, Head(m_io_service))
    /\ UNCHANGED <<mainVars, socketVars, netThread, m_connected, m_incoming_messages, write,
                   serverSide>>

(* The networking thread is started and writes what m_outgoing_messages holds.   *)
HandleConnection ==
    /\ main = "connecting"
    /\ m_io_service = <<>>
    /\ main' = "idle"
    /\ m_connected' = TRUE /\ appConnected' = TRUE
    /\ netThread' = "running"
    /\ write' = IF m_outgoing_messages = <<>> THEN "none" ELSE "started"
    /\ socketOpen' = TRUE /\ serverOpen' = TRUE
    /\ toServer' = <<>> /\ fromServer' = <<>>
    /\ connection' = connection + 1
    /\ owed' = 0
    /\ UNCHANGED <<posting, handled, sent, m_io_service, m_incoming_messages,
                   m_outgoing_messages, served, received>>

ConnectionRefused ==
    /\ main = "connecting"
    /\ main' = "idle"
    /\ UNCHANGED <<posting, appConnected, handled, sent, socketVars, netVars, serverSide>>

-----------------------------------------------------------------------------
(* Networking thread. *)

Running == netThread = "running"

(* A mutant: every message starts its write at once.                           *)
WriteAtOnce == "started"

(* A mutant: the write is left to whoever sends next.                          *)
WriteLater == write

(* SendMessageImpl starts a write only when none is under way.                 *)
WriteAfterQueueing == IF m_outgoing_messages = <<>> THEN "started" ELSE write

RunTask ==
    /\ Running
    /\ m_io_service # <<>>
    /\ m_io_service' = Tail(m_io_service)
    /\ LET task == Head(m_io_service) IN
       \/ /\ task.type = "close"
          /\ socketOpen' = FALSE
          /\ UNCHANGED <<m_outgoing_messages, write>>
       \/ /\ task.type # "close"
          /\ m_outgoing_messages' = Append(m_outgoing_messages, task)
          /\ write' = WriteAfterQueueing
          /\ UNCHANGED socketOpen
    /\ UNCHANGED <<mainVars, serverOpen, toServer, fromServer, connection, netThread,
                   m_connected, m_incoming_messages, serverSide>>

Transmit ==
    /\ Running
    /\ write = "started" /\ socketOpen /\ serverOpen
    /\ toServer' = Append(toServer, Head(m_outgoing_messages))
    /\ write' = "done"
    /\ UNCHANGED <<mainVars, socketOpen, serverOpen, fromServer, connection, netThread,
                   m_connected, m_incoming_messages, m_io_service, m_outgoing_messages,
                   serverSide>>

HandleMessageWrite ==
    /\ Running
    /\ write = "done"
    /\ m_outgoing_messages' = Tail(m_outgoing_messages)
    /\ write' = IF Tail(m_outgoing_messages) = <<>> THEN "none" ELSE "started"
    /\ UNCHANGED <<mainVars, socketVars, netThread, m_connected, m_incoming_messages,
                   m_io_service, serverSide>>

(* A mutant: the notification is made only when the queue was empty.           *)
NotifiedIfFirst(m) ==
    IF main = "asleep" /\ m.synchronous /\ m_incoming_messages = <<>> THEN "finding" ELSE main

(* The condition variable is notified only by a synchronous response.          *)
Notified(m) == IF main = "asleep" /\ m.synchronous THEN "finding" ELSE main

PushBack ==
    /\ Running
    /\ socketOpen
    /\ fromServer # <<>>
    /\ m_incoming_messages' = Append(m_incoming_messages, Head(fromServer))
    /\ fromServer' = Tail(fromServer)
    /\ main' = Notified(Head(fromServer))
    /\ UNCHANGED <<posting, appConnected, handled, sent, socketOpen, serverOpen, toServer,
                   connection, netThread, m_connected, m_io_service, m_outgoing_messages,
                   write, serverSide>>

(* The error of a read or a write ends run(): what has not been read is lost.  *)
ConnectionFails ==
    /\ Running
    /\ ~(socketOpen /\ serverOpen)
    /\ netThread' = "failed"
    /\ fromServer' = <<>>
    /\ UNCHANGED <<mainVars, socketOpen, serverOpen, toServer, connection, m_connected,
                   m_incoming_messages, m_io_service, m_outgoing_messages, write, serverSide>>

(* A mutant: the messages of the lost connection are kept.                     *)
NotCleared == m_incoming_messages

Cleared == <<>>

ClearQueues ==
    /\ netThread = "failed"
    /\ m_incoming_messages' = Cleared
    /\ m_outgoing_messages' = <<>>
    /\ write' = "none"
    /\ netThread' = "cleared"
    /\ UNCHANGED <<mainVars, socketVars, m_connected, m_io_service, serverSide>>

(* A mutant: the flag is left as it was.                                       *)
StillConnected == m_connected

ConnectedAfterwards == FALSE

(* Nobody is notified that no response is going to come.                       *)
ThreadTerminates ==
    /\ netThread = "cleared"
    /\ m_connected' = ConnectedAfterwards
    /\ netThread' = "stopped"
    /\ UNCHANGED <<mainVars, socketVars, m_incoming_messages, m_io_service,
                   m_outgoing_messages, write, serverSide>>

-----------------------------------------------------------------------------
(* The server. *)

ServerReads ==
    /\ serverOpen
    /\ toServer # <<>>
    /\ toServer' = Tail(toServer)
    /\ received' = Head(toServer).n
    /\ owed' = IF Head(toServer).type = "request" THEN owed + 1 ELSE owed
    /\ UNCHANGED <<mainVars, socketOpen, serverOpen, fromServer, connection, netVars, served>>

ServerMessage(synchronous) ==
    [synchronous |-> synchronous, n |-> served + 1, connection |-> connection]

ServerSends(synchronous) ==
    /\ serverOpen
    /\ IF synchronous THEN owed > 0 ELSE served < MaxServed
    /\ fromServer' = IF Running THEN Append(fromServer, ServerMessage(synchronous))
                                ELSE fromServer
    /\ served' = served + 1
    /\ owed' = IF synchronous THEN owed - 1 ELSE owed
    /\ UNCHANGED <<mainVars, socketOpen, serverOpen, toServer, connection, netVars, received>>

ServerCloses ==
    /\ serverOpen
    /\ serverOpen' = FALSE
    /\ UNCHANGED <<mainVars, socketOpen, toServer, fromServer, connection, netVars, serverSide>>

-----------------------------------------------------------------------------
Init ==
    /\ main = "idle" /\ posting = [type |-> "close", n |-> 0]
    /\ netThread = "stopped" /\ m_connected = FALSE /\ appConnected = FALSE
    /\ m_incoming_messages = <<>> /\ m_io_service = <<>>
    /\ m_outgoing_messages = <<>> /\ write = "none"
    /\ socketOpen = FALSE /\ serverOpen = FALSE
    /\ toServer = <<>> /\ fromServer = <<>>
    /\ handled = <<>> /\ sent = 0 /\ served = 0 /\ connection = 0
    /\ received = 0 /\ owed = 0

NetworkingThread ==
    \/ RunTask \/ Transmit \/ HandleMessageWrite \/ PushBack
    \/ ConnectionFails \/ ClearQueues \/ ThreadTerminates

Next ==
    \/ \E type \in {"message", "request", "close"} : SendMessage(type)
    \/ Post \/ AskUnconnected \/ EraseFirstSynchronousResponse \/ SpuriousWakeup
    \/ MessageAvailable \/ PopFront \/ NoticeDisconnection
    \/ ConnectToServer \/ RunLeftTask \/ HandleConnection \/ ConnectionRefused
    \/ NetworkingThread
    \/ ServerReads \/ ServerCloses \/ \E s \in BOOLEAN : ServerSends(s)

Spec == Init /\ [][Next]_threadVars

(* Both threads are scheduled: the main loop of the GUI runs HandleSystemEvents *)
(* every frame, whatever is done between two frames (the strong fairness), asio  *)
(* completes what the socket allows, and a connection is given up in time. The   *)
(* server reads and answers (the runs of GameSession); nobody is assumed to send *)
(* or to close.                                                                  *)
FairSpec ==
    /\ Spec
    /\ WF_threadVars(Post) /\ WF_threadVars(EraseFirstSynchronousResponse)
    /\ WF_threadVars(PopFront) /\ SF_threadVars(NoticeDisconnection)
    /\ WF_threadVars(HandleConnection \/ ConnectionRefused)
    /\ WF_threadVars(RunTask) /\ WF_threadVars(Transmit \/ HandleMessageWrite)
    /\ WF_threadVars(PushBack)
    /\ WF_threadVars(ConnectionFails \/ ClearQueues \/ ThreadTerminates)
    /\ WF_threadVars(ServerReads) /\ WF_threadVars(ServerSends(TRUE))

-----------------------------------------------------------------------------
(* The values every variable stays within; a write is under way exactly when    *)
(* there is something to write, since AsyncWriteMessage reads the front of the   *)
(* queue and only a write that has ended starts the next.                        *)
ThreadsTypeOK ==
    /\ main \in {"idle", "posting", "finding", "asleep", "getting", "connecting",
               "crashed"}
    /\ posting \in Tasks
    /\ netThread \in {"stopped", "running", "failed", "cleared"}
    /\ write \in {"none", "started", "done"}
    /\ m_connected \in BOOLEAN /\ appConnected \in BOOLEAN
    /\ socketOpen \in BOOLEAN /\ serverOpen \in BOOLEAN
    /\ m_incoming_messages \in Seq(Incoming) /\ fromServer \in Seq(Incoming)
    /\ handled \in Seq(Incoming)
    /\ m_io_service \in Seq(Tasks) /\ m_outgoing_messages \in Seq(Tasks)
    /\ toServer \in Seq(Tasks)
    /\ sent \in Nat /\ served \in Nat /\ connection \in Nat /\ received \in Nat
    /\ owed \in Nat
    /\ Running => (write = "none" <=> m_outgoing_messages = <<>>)

(* PopFront finds the message MessageAvailable has seen as long as the         *)
(* connection lasts: only the networking thread's Clear, when it has ended, can *)
(* come between the two critical sections (ClientNetworking::GetMessage).       *)
AvailableWhileConnected ==
    main = "getting" /\ m_incoming_messages = <<>> => netThread \in {"cleared", "stopped"}

(* The messages of the client reach a server in the order they were sent, each *)
(* at most once, whatever is under way, left over by a lost connection or       *)
(* written again (SendMessageImpl, HandleMessageWrite, NetworkingThread).       *)
Unwritten == IF write = "done" THEN Tail(m_outgoing_messages) ELSE m_outgoing_messages
Upstream == toServer \o Unwritten \o m_io_service

SentInOrder ==
    /\ \A i, j \in DOMAIN Upstream : i < j => Upstream[i].n < Upstream[j].n
    /\ \A i \in DOMAIN Upstream : received < Upstream[i].n

(* What the main thread can take was sent in the present connection: nothing   *)
(* of an earlier game is taken for the answer to a request of the next one      *)
(* (the Clear at the end of NetworkingThread precedes m_connected = false).     *)
NothingStale ==
    \A i \in DOMAIN m_incoming_messages : m_incoming_messages[i].connection = connection

(* The threads implement the channel the rest of the client relies on.         *)
Channel == INSTANCE MessageChannel WITH
    pending <- m_incoming_messages \o fromServer,
    waiting <- Waiting
ImplementsChannel == Channel!ChannelSpec

(* A thread inside SendSynchronousMessage gets its answer, unless the connection *)
(* ends: no notification is lost between its search and its wait.                *)
SleeperAnswered == Waiting ~> ~Waiting \/ ~Running

(* The application comes to know that its connection has ended, unless it sleeps *)
(* for an answer or has made another connection (HandleSystemEvents).            *)
DisconnectionNoticed ==
    netThread = "stopped" ~> ~appConnected \/ Running \/ Waiting \/ main = "crashed"
=============================================================================
