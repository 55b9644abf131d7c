-------------------------- MODULE ClientThreadsProofs --------------------------
(***************************************************************************)
(* Proofs about the two threads of a client, for any number of messages and *)
(* connections: type correctness, GetMessage while connected, nothing of an  *)
(* earlier connection, the order of what is sent, and the channel.           *)
(***************************************************************************)
EXTENDS ClientThreads, SequenceTheorems, TLAPS

-----------------------------------------------------------------------------
(* The invariant of the threads, in parts. *)

Flags ==
    /\ m_connected \in BOOLEAN /\ appConnected \in BOOLEAN
    /\ socketOpen \in BOOLEAN /\ serverOpen \in BOOLEAN

Numbers ==
    /\ sent \in Nat /\ served \in Nat /\ connection \in Nat /\ received \in Nat
    /\ owed \in Nat

Queues ==
    /\ m_incoming_messages \in Seq(Incoming) /\ fromServer \in Seq(Incoming)
    /\ handled \in Seq(Incoming)
    /\ m_io_service \in Seq(Tasks) /\ m_outgoing_messages \in Seq(Tasks)
    /\ toServer \in Seq(Tasks)
    /\ posting \in Tasks

Control ==
    /\ main \in {"idle", "posting", "finding", "asleep", "getting", "connecting",
               "crashed"}
    /\ netThread \in {"stopped", "running", "failed", "cleared"}
    /\ write \in {"none", "started", "done"}

(* A write is under way only with something to write, and always then while the *)
(* thread runs; it has ended when the queues have been cleared.                  *)
WriteInv ==
    /\ write # "none" => m_outgoing_messages # <<>>
    /\ Running /\ m_outgoing_messages # <<>> => write # "none"
    /\ netThread \in {"cleared", "stopped"} => write = "none"

(* m_connected is true from the thread's start to its end; what came over the     *)
(* connection is gone before, and only then is another made.                      *)
ConnectedInv ==
    /\ m_connected <=> netThread # "stopped"
    /\ main = "connecting" => netThread = "stopped"
    /\ ~Running => fromServer = <<>>
    /\ netThread \in {"cleared", "stopped"} => m_incoming_messages = <<>>

OfThisConnection(q) == \A i \in DOMAIN q : q[i].connection = connection

PresentInv == OfThisConnection(m_incoming_messages) /\ OfThisConnection(fromServer)

ThreadsInv ==
    /\ Flags /\ Numbers /\ Queues /\ Control
    /\ WriteInv /\ ConnectedInv /\ PresentInv
    /\ AvailableWhileConnected

LEMMA ThreadsInvImplies == ThreadsInv => ThreadsTypeOK /\ NothingStale
<1>1. Flags /\ Numbers /\ Queues /\ Control /\ WriteInv => ThreadsTypeOK
  BY DEF Flags, Numbers, Queues, Control, WriteInv, ThreadsTypeOK
<1>. QED BY <1>1 DEF ThreadsInv, PresentInv, OfThisConnection, NothingStale

LEMMA ThreadsInvInit == Init => ThreadsInv
<1>. SUFFICES ASSUME Init PROVE ThreadsInv
  OBVIOUS
<1>1. Flags /\ Numbers
  BY DEF Init, Flags, Numbers
<1>2. Queues /\ Control
  BY DEF Init, Queues, Control, Tasks
<1>3. WriteInv /\ ConnectedInv
  BY DEF Init, WriteInv, ConnectedInv, Running
<1>4. PresentInv /\ AvailableWhileConnected
  BY DEF Init, PresentInv, OfThisConnection, AvailableWhileConnected
<1>. QED BY <1>1, <1>2, <1>3, <1>4 DEF ThreadsInv

-----------------------------------------------------------------------------
(* Sequences. *)

(* What is appended to a sequence keeps its type and the rest of its elements.   *)
LEMMA Appended ==
    ASSUME NEW S, NEW s \in Seq(S), NEW x \in S, NEW t, t = Append(s, x)
    PROVE  /\ t \in Seq(S) /\ t # <<>> /\ Len(t) = Len(s) + 1
           /\ \A i \in 1 .. Len(s) : t[i] = s[i]
           /\ t[Len(s) + 1] = x
BY AppendProperties

(* Without its first element a sequence has the elements that followed it.         *)
LEMMA Shortened ==
    ASSUME NEW S, NEW s \in Seq(S), s # <<>>, NEW t, t = Tail(s)
    PROVE  /\ Head(s) \in S /\ Head(s) = s[1]
           /\ t \in Seq(S) /\ Len(t) = Len(s) - 1 /\ Len(s) > 0
           /\ \A i \in 1 .. Len(t) : t[i] = s[i + 1]
BY HeadTailProperties

(* Without any element it has those before and those that followed.                 *)
LEMMA Erased ==
    ASSUME NEW S, NEW s \in Seq(S), NEW i \in DOMAIN s
    PROVE  /\ Erase(s, i) \in Seq(S)
           /\ Len(Erase(s, i)) = Len(s) - 1
           /\ \A j \in 1 .. Len(s) - 1 :
                 Erase(s, i)[j] = IF j < i THEN s[j] ELSE s[j + 1]
<1>. DEFINE a == SubSeq(s, 1, i - 1)
            b == SubSeq(s, i + 1, Len(s))
<1>1. /\ i \in 1 .. Len(s) /\ Len(s) \in Nat
  OBVIOUS
<1>2. /\ a \in Seq(S) /\ Len(a) = i - 1
      /\ \A j \in 1 .. i - 1 : a[j] = s[j]
  BY <1>1, SubSeqProperties
<1>3. /\ b \in Seq(S) /\ Len(b) = Len(s) - i
      /\ \A j \in 1 .. Len(s) - i : b[j] = s[j + i]
  BY <1>1, SubSeqProperties
<1>4. Erase(s, i) = a \o b
  BY DEF Erase
<1>. HIDE DEF a, b
<1>5. /\ a \o b \in Seq(S) /\ Len(a \o b) = Len(a) + Len(b)
      /\ \A j \in 1 .. Len(a) + Len(b) :
            (a \o b)[j] = IF j <= Len(a) THEN a[j] ELSE b[j - Len(a)]
  BY <1>2, <1>3, ConcatProperties
<1>6. ASSUME NEW j \in 1 .. Len(s) - 1
      PROVE  (a \o b)[j] = IF j < i THEN s[j] ELSE s[j + 1]
  <2>0. j \in 1 .. Len(a) + Len(b)
    BY <1>1, <1>2, <1>3
  <2>1. (a \o b)[j] = IF j <= i - 1 THEN a[j] ELSE b[j - (i - 1)]
    BY <1>2, <1>5, <2>0
  <2>2. CASE j < i
    BY <1>1, <1>2, <2>1, <2>2
  <2>3. CASE ~(j < i)
    <3>1. /\ j - (i - 1) \in 1 .. Len(s) - i
          /\ (j - (i - 1)) + i = j + 1
      BY <1>1, <2>3
    <3>. QED BY <1>1, <1>3, <2>1, <2>3, <3>1
  <2>. QED BY <2>2, <2>3
<1>7. Len(a) + Len(b) = Len(s) - 1
  BY <1>1, <1>2, <1>3
<1>. QED BY <1>4, <1>5, <1>6, <1>7

(* The main thread's sending and taking. *)
LEMMA MainThreadStep ==
    ASSUME ThreadsInv,
           \/ \E type \in {"message", "request", "close"} : SendMessage(type)
           \/ Post \/ AskUnconnected \/ EraseFirstSynchronousResponse \/ SpuriousWakeup
           \/ MessageAvailable \/ PopFront \/ NoticeDisconnection
    PROVE  ThreadsInv'
<1>. USE DEF mainVars, socketVars, netVars, serverSide
<1>1. ASSUME NEW type \in {"message", "request", "close"}, SendMessage(type)
      PROVE  ThreadsInv'
  <2>1. Flags' /\ Numbers'
    BY <1>1 DEF ThreadsInv, SendMessage, NextTask, Tasks, Flags, Numbers
  <2>2. Queues'
    BY <1>1 DEF ThreadsInv, SendMessage, NextTask, Tasks, Numbers, Queues
  <2>3. Control' /\ WriteInv'
    BY <1>1 DEF ThreadsInv, SendMessage, NextTask, Tasks, Control, WriteInv, Running
  <2>4. ConnectedInv'
    BY <1>1 DEF ThreadsInv, SendMessage, NextTask, Tasks, ConnectedInv, Running
  <2>5. PresentInv' /\ AvailableWhileConnected'
    BY <1>1 DEF ThreadsInv, SendMessage, NextTask, Tasks, PresentInv, OfThisConnection,
                AvailableWhileConnected, Running
  <2>. QED BY <2>1, <2>2, <2>3, <2>4, <2>5 DEF ThreadsInv
<1>2. CASE Post
  <2>1. Flags' /\ Numbers'
    BY <1>2 DEF ThreadsInv, Post, Tasks, Queues, Flags, Numbers
  <2>2. Queues'
    BY <1>2 DEF ThreadsInv, Post, Tasks, Queues
  <2>3. Control' /\ WriteInv'
    BY <1>2 DEF ThreadsInv, Post, Tasks, Control, WriteInv, Running
  <2>4. ConnectedInv'
    BY <1>2 DEF ThreadsInv, Post, Tasks, ConnectedInv, Running
  <2>5. PresentInv' /\ AvailableWhileConnected'
    BY <1>2 DEF ThreadsInv, Post, Tasks, PresentInv, OfThisConnection,
                AvailableWhileConnected, Running
  <2>. QED BY <2>1, <2>2, <2>3, <2>4, <2>5 DEF ThreadsInv
<1>3. CASE AskUnconnected
  <2>1. Flags' /\ Numbers'
    BY <1>3 DEF ThreadsInv, AskUnconnected, Flags, Numbers
  <2>2. Queues'
    BY <1>3 DEF ThreadsInv, AskUnconnected, Queues
  <2>3. Control' /\ WriteInv'
    BY <1>3 DEF ThreadsInv, AskUnconnected, Control, WriteInv, Running
  <2>4. ConnectedInv'
    BY <1>3 DEF ThreadsInv, AskUnconnected, ConnectedInv, Running
  <2>5. PresentInv' /\ AvailableWhileConnected'
    BY <1>3 DEF ThreadsInv, AskUnconnected, PresentInv, OfThisConnection,
                AvailableWhileConnected, Running
  <2>. QED BY <2>1, <2>2, <2>3, <2>4, <2>5 DEF ThreadsInv
<1>4. CASE EraseFirstSynchronousResponse
  <2>1. Flags' /\ Numbers'
    BY <1>4 DEF ThreadsInv, EraseFirstSynchronousResponse, Flags, Numbers
  <2>2. Queues'
    <3>1. CASE UNCHANGED <<handled, m_incoming_messages>>
      BY <1>4, <3>1 DEF ThreadsInv, EraseFirstSynchronousResponse, Queues
    <3>2. ASSUME NEW i \in DOMAIN m_incoming_messages,
                 handled' = Append(handled, m_incoming_messages[i]),
                 m_incoming_messages' = Erase(m_incoming_messages, i)
          PROVE  Queues'
      <4>1. m_incoming_messages' \in Seq(Incoming) /\ m_incoming_messages[i] \in Incoming
        BY <3>2, Erased DEF ThreadsInv, Queues
      <4>2. handled' \in Seq(Incoming)
        BY <3>2, <4>1, Appended DEF ThreadsInv, Queues
      <4>. QED BY <1>4, <4>1, <4>2 DEF ThreadsInv, EraseFirstSynchronousResponse, Queues
    <3>. QED BY <1>4, <3>1, <3>2 DEF EraseFirstSynchronousResponse, SynchronousResponse
  <2>3. Control' /\ WriteInv'
    BY <1>4 DEF ThreadsInv, EraseFirstSynchronousResponse, Control, WriteInv, Running
  <2>4. ConnectedInv'
    BY <1>4 DEF ThreadsInv, EraseFirstSynchronousResponse, ConnectedInv, Running
  <2>5. PresentInv' /\ AvailableWhileConnected'
    <3>1. CASE UNCHANGED m_incoming_messages
      BY <1>4, <3>1 DEF ThreadsInv, EraseFirstSynchronousResponse, PresentInv, OfThisConnection,
                       AvailableWhileConnected
    <3>2. ASSUME NEW i \in DOMAIN m_incoming_messages,
                 m_incoming_messages' = Erase(m_incoming_messages, i)
          PROVE  OfThisConnection(m_incoming_messages')
      <4>. DEFINE q == Erase(m_incoming_messages, i)
      <4>1. \A j \in DOMAIN q : \E k \in DOMAIN m_incoming_messages : q[j] = m_incoming_messages[k]
        <5>. SUFFICES ASSUME NEW j \in DOMAIN q
                       PROVE  \E k \in DOMAIN m_incoming_messages :
                                 q[j] = m_incoming_messages[k]
          OBVIOUS
        <5>1. /\ j \in 1 .. Len(m_incoming_messages) - 1
              /\ q[j] = IF j < i THEN m_incoming_messages[j] ELSE m_incoming_messages[j + 1]
          <6>1. /\ q \in Seq(Incoming) /\ Len(q) = Len(m_incoming_messages) - 1
                /\ \A k \in 1 .. Len(m_incoming_messages) - 1 :
                      q[k] = IF k < i THEN m_incoming_messages[k] ELSE m_incoming_messages[k + 1]
            BY Erased DEF ThreadsInv, Queues
          <6>. HIDE DEF q
          <6>. QED BY <6>1
        <5>. QED BY <5>1 DEF ThreadsInv, Queues
      <4>. QED BY <3>2, <4>1 DEF ThreadsInv, PresentInv, OfThisConnection
    <3>. QED BY <1>4, <3>1, <3>2 DEF ThreadsInv, EraseFirstSynchronousResponse,
                       SynchronousResponse, PresentInv, OfThisConnection,
                       AvailableWhileConnected
  <2>. QED BY <2>1, <2>2, <2>3, <2>4, <2>5 DEF ThreadsInv
<1>5. CASE SpuriousWakeup
  <2>1. Flags' /\ Numbers'
    BY <1>5 DEF ThreadsInv, SpuriousWakeup, Flags, Numbers
  <2>2. Queues'
    BY <1>5 DEF ThreadsInv, SpuriousWakeup, Queues
  <2>3. Control' /\ WriteInv'
    BY <1>5 DEF ThreadsInv, SpuriousWakeup, Control, WriteInv, Running
  <2>4. ConnectedInv'
    BY <1>5 DEF ThreadsInv, SpuriousWakeup, ConnectedInv, Running
  <2>5. PresentInv' /\ AvailableWhileConnected'
    BY <1>5 DEF ThreadsInv, SpuriousWakeup, PresentInv, OfThisConnection,
                AvailableWhileConnected, Running
  <2>. QED BY <2>1, <2>2, <2>3, <2>4, <2>5 DEF ThreadsInv
<1>6. CASE MessageAvailable
  <2>1. Flags' /\ Numbers'
    BY <1>6 DEF ThreadsInv, MessageAvailable, Available, Flags, Numbers
  <2>2. Queues'
    BY <1>6 DEF ThreadsInv, MessageAvailable, Available, Queues
  <2>3. Control' /\ WriteInv'
    BY <1>6 DEF ThreadsInv, MessageAvailable, Available, Control, WriteInv, Running
  <2>4. ConnectedInv'
    BY <1>6 DEF ThreadsInv, MessageAvailable, Available, ConnectedInv, Running
  <2>5. PresentInv' /\ AvailableWhileConnected'
    BY <1>6 DEF ThreadsInv, MessageAvailable, Available, PresentInv, OfThisConnection,
                AvailableWhileConnected, Running
  <2>. QED BY <2>1, <2>2, <2>3, <2>4, <2>5 DEF ThreadsInv
<1>7. CASE PopFront
  <2>1. Flags' /\ Numbers'
    BY <1>7 DEF ThreadsInv, PopFront, Flags, Numbers
  <2>2. Queues'
    <3>1. CASE m_incoming_messages = <<>>
      BY <1>7, <3>1 DEF ThreadsInv, PopFront, Queues
    <3>2. CASE m_incoming_messages # <<>>
      <4>1. Head(m_incoming_messages) \in Incoming /\ m_incoming_messages' \in Seq(Incoming)
        BY <1>7, <3>2, Shortened DEF ThreadsInv, PopFront, Queues
      <4>2. handled' \in Seq(Incoming)
        BY <1>7, <3>2, <4>1, Appended DEF ThreadsInv, PopFront, Queues
      <4>. QED BY <1>7, <4>1, <4>2 DEF ThreadsInv, PopFront, Queues
    <3>. QED BY <3>1, <3>2
  <2>3. Control' /\ WriteInv'
    BY <1>7 DEF ThreadsInv, PopFront, Control, WriteInv, Running
  <2>4. ConnectedInv'
    BY <1>7 DEF ThreadsInv, PopFront, ConnectedInv, Running
  <2>5. PresentInv' /\ AvailableWhileConnected'
    <3>1. OfThisConnection(m_incoming_messages')
      <4>1. CASE m_incoming_messages' = m_incoming_messages
        BY <4>1 DEF ThreadsInv, PresentInv, OfThisConnection
      <4>2. CASE m_incoming_messages # <<>> /\ m_incoming_messages' = Tail(m_incoming_messages)
        <5>1. /\ m_incoming_messages' \in Seq(Incoming)
              /\ \A j \in 1 .. Len(m_incoming_messages') :
                    /\ m_incoming_messages'[j] = m_incoming_messages[j + 1]
                    /\ j + 1 \in DOMAIN m_incoming_messages
          BY <4>2, Shortened DEF ThreadsInv, Queues
        <5>. QED BY <5>1 DEF ThreadsInv, PresentInv, OfThisConnection
      <4>. QED BY <1>7, <4>1, <4>2 DEF PopFront
    <3>. QED BY <1>7, <3>1 DEF ThreadsInv, PopFront, PresentInv, OfThisConnection,
                       AvailableWhileConnected
  <2>. QED BY <2>1, <2>2, <2>3, <2>4, <2>5 DEF ThreadsInv
<1>8. CASE NoticeDisconnection
  <2>1. Flags' /\ Numbers'
    BY <1>8 DEF ThreadsInv, NoticeDisconnection, Flags, Numbers
  <2>2. Queues'
    BY <1>8 DEF ThreadsInv, NoticeDisconnection, Queues
  <2>3. Control' /\ WriteInv'
    BY <1>8 DEF ThreadsInv, NoticeDisconnection, Control, WriteInv, Running
  <2>4. ConnectedInv'
    BY <1>8 DEF ThreadsInv, NoticeDisconnection, ConnectedInv, Running
  <2>5. PresentInv' /\ AvailableWhileConnected'
    BY <1>8 DEF ThreadsInv, NoticeDisconnection, PresentInv, OfThisConnection,
                AvailableWhileConnected, Running
  <2>. QED BY <2>1, <2>2, <2>3, <2>4, <2>5 DEF ThreadsInv
<1>. QED BY <1>1, <1>2, <1>3, <1>4, <1>5, <1>6, <1>7, <1>8

(* The main thread makes a connection. *)
LEMMA ConnectStep ==
    ASSUME ThreadsInv, ConnectToServer \/ RunLeftTask \/ HandleConnection \/ ConnectionRefused
    PROVE  ThreadsInv'
<1>. USE DEF mainVars, socketVars, netVars, serverSide
<1>1. CASE ConnectToServer
  <2>1. Flags' /\ Numbers'
    BY <1>1 DEF ThreadsInv, ConnectToServer, Flags, Numbers
  <2>2. Queues'
    BY <1>1 DEF ThreadsInv, ConnectToServer, Queues
  <2>3. Control' /\ WriteInv'
    BY <1>1 DEF ThreadsInv, ConnectToServer, Control, WriteInv, Running
  <2>4. ConnectedInv'
    BY <1>1 DEF ThreadsInv, ConnectToServer, ConnectedInv, Running
  <2>5. PresentInv' /\ AvailableWhileConnected'
    BY <1>1 DEF ThreadsInv, ConnectToServer, PresentInv, OfThisConnection,
                AvailableWhileConnected, Running
  <2>. QED BY <2>1, <2>2, <2>3, <2>4, <2>5 DEF ThreadsInv
<1>2. CASE RunLeftTask
  <2>1. Flags' /\ Numbers'
    BY <1>2 DEF ThreadsInv, RunLeftTask, Flags, Numbers
  <2>2. Queues'
    BY <1>2 DEF ThreadsInv, RunLeftTask, Queues
  <2>3. Control' /\ WriteInv'
    BY <1>2 DEF ThreadsInv, RunLeftTask, Control, WriteInv, ConnectedInv, Running
  <2>4. ConnectedInv'
    BY <1>2 DEF ThreadsInv, RunLeftTask, ConnectedInv, Running
  <2>5. PresentInv' /\ AvailableWhileConnected'
    BY <1>2 DEF ThreadsInv, RunLeftTask, PresentInv, OfThisConnection,
                AvailableWhileConnected, Running
  <2>. QED BY <2>1, <2>2, <2>3, <2>4, <2>5 DEF ThreadsInv
<1>3. CASE HandleConnection
  <2>1. Flags' /\ Numbers'
    BY <1>3 DEF ThreadsInv, HandleConnection, Flags, Numbers
  <2>2. Queues'
    BY <1>3 DEF ThreadsInv, HandleConnection, Queues
  <2>3. Control' /\ WriteInv'
    BY <1>3 DEF ThreadsInv, HandleConnection, Control, WriteInv, Running
  <2>4. ConnectedInv'
    BY <1>3 DEF ThreadsInv, HandleConnection, ConnectedInv, Running
  <2>5. PresentInv' /\ AvailableWhileConnected'
    BY <1>3 DEF ThreadsInv, HandleConnection, ConnectedInv, PresentInv, OfThisConnection,
              AvailableWhileConnected, Running
  <2>. QED BY <2>1, <2>2, <2>3, <2>4, <2>5 DEF ThreadsInv
<1>4. CASE ConnectionRefused
  <2>1. Flags' /\ Numbers'
    BY <1>4 DEF ThreadsInv, ConnectionRefused, Flags, Numbers
  <2>2. Queues'
    BY <1>4 DEF ThreadsInv, ConnectionRefused, Queues
  <2>3. Control' /\ WriteInv'
    BY <1>4 DEF ThreadsInv, ConnectionRefused, Control, WriteInv, Running
  <2>4. ConnectedInv'
    BY <1>4 DEF ThreadsInv, ConnectionRefused, ConnectedInv, Running
  <2>5. PresentInv' /\ AvailableWhileConnected'
    BY <1>4 DEF ThreadsInv, ConnectionRefused, PresentInv, OfThisConnection,
                AvailableWhileConnected, Running
  <2>. QED BY <2>1, <2>2, <2>3, <2>4, <2>5 DEF ThreadsInv
<1>. QED BY <1>1, <1>2, <1>3, <1>4

(* The networking thread. *)
LEMMA NetworkingThreadStep ==
    ASSUME ThreadsInv, NetworkingThread
    PROVE  ThreadsInv'
<1>. USE DEF mainVars, socketVars, netVars, serverSide
<1>1. CASE RunTask
  <2>1. Flags' /\ Numbers'
    BY <1>1 DEF ThreadsInv, RunTask, WriteAfterQueueing, Flags, Numbers
  <2>2. Queues'
    <3>1. /\ Head(m_io_service) \in Tasks /\ m_io_service' \in Seq(Tasks)
          /\ \/ m_outgoing_messages' = m_outgoing_messages
             \/ m_outgoing_messages' = Append(m_outgoing_messages, Head(m_io_service))
      BY <1>1, Shortened DEF ThreadsInv, RunTask, Queues
    <3>2. m_outgoing_messages' \in Seq(Tasks)
      BY <3>1, Appended DEF ThreadsInv, Queues
    <3>. QED BY <1>1, <3>1, <3>2 DEF ThreadsInv, RunTask, Queues
  <2>3. Control' /\ WriteInv'
    BY <1>1 DEF ThreadsInv, RunTask, WriteAfterQueueing, Control, WriteInv, Running
  <2>4. ConnectedInv'
    BY <1>1 DEF ThreadsInv, RunTask, WriteAfterQueueing, ConnectedInv, Running
  <2>5. PresentInv' /\ AvailableWhileConnected'
    BY <1>1 DEF ThreadsInv, RunTask, WriteAfterQueueing, PresentInv, OfThisConnection,
                AvailableWhileConnected, Running
  <2>. QED BY <2>1, <2>2, <2>3, <2>4, <2>5 DEF ThreadsInv
<1>2. CASE Transmit
  <2>1. Flags' /\ Numbers'
    BY <1>2 DEF ThreadsInv, Transmit, Flags, Numbers
  <2>2. Queues'
    <3>1. toServer' \in Seq(Tasks)
      BY <1>2, Shortened, Appended DEF ThreadsInv, Transmit, Queues, WriteInv
    <3>. QED BY <1>2, <3>1 DEF ThreadsInv, Transmit, Queues
  <2>3. Control' /\ WriteInv'
    BY <1>2 DEF ThreadsInv, Transmit, Control, WriteInv, Running
  <2>4. ConnectedInv'
    BY <1>2 DEF ThreadsInv, Transmit, ConnectedInv, Running
  <2>5. PresentInv' /\ AvailableWhileConnected'
    BY <1>2 DEF ThreadsInv, Transmit, PresentInv, OfThisConnection, AvailableWhileConnected,
                Running
  <2>. QED BY <2>1, <2>2, <2>3, <2>4, <2>5 DEF ThreadsInv
<1>3. CASE HandleMessageWrite
  <2>1. Flags' /\ Numbers'
    BY <1>3 DEF ThreadsInv, HandleMessageWrite, Flags, Numbers
  <2>2. Queues'
    <3>1. m_outgoing_messages' \in Seq(Tasks)
      BY <1>3, Shortened DEF ThreadsInv, HandleMessageWrite, Queues, WriteInv
    <3>. QED BY <1>3, <3>1 DEF ThreadsInv, HandleMessageWrite, Queues
  <2>3. Control' /\ WriteInv'
    BY <1>3 DEF ThreadsInv, HandleMessageWrite, Control, WriteInv, Running
  <2>4. ConnectedInv'
    BY <1>3 DEF ThreadsInv, HandleMessageWrite, ConnectedInv, Running
  <2>5. PresentInv' /\ AvailableWhileConnected'
    BY <1>3 DEF ThreadsInv, HandleMessageWrite, PresentInv, OfThisConnection,
                AvailableWhileConnected, Running
  <2>. QED BY <2>1, <2>2, <2>3, <2>4, <2>5 DEF ThreadsInv
<1>4. CASE PushBack
  <2>1. Flags' /\ Numbers'
    BY <1>4 DEF ThreadsInv, PushBack, Notified, Flags, Numbers
  <2>2. Queues'
    <3>1. Head(fromServer) \in Incoming /\ fromServer' \in Seq(Incoming)
      BY <1>4, Shortened DEF ThreadsInv, PushBack, Queues
    <3>2. m_incoming_messages' \in Seq(Incoming)
      BY <1>4, <3>1, Appended DEF ThreadsInv, PushBack, Queues
    <3>. QED BY <1>4, <3>1, <3>2 DEF ThreadsInv, PushBack, Queues
  <2>3. Control' /\ WriteInv'
    BY <1>4 DEF ThreadsInv, PushBack, Notified, Control, WriteInv, Running
  <2>4. ConnectedInv'
    BY <1>4 DEF ThreadsInv, PushBack, Notified, ConnectedInv, Running
  <2>5. PresentInv' /\ AvailableWhileConnected'
    <3>1. /\ Head(fromServer) = fromServer[1] /\ 1 \in DOMAIN fromServer
          /\ fromServer' \in Seq(Incoming) /\ Head(fromServer) \in Incoming
          /\ \A j \in 1 .. Len(fromServer') : /\ fromServer'[j] = fromServer[j + 1]
                                               /\ j + 1 \in DOMAIN fromServer
      BY <1>4, Shortened DEF ThreadsInv, PushBack, Queues
    <3>2. /\ m_incoming_messages' \in Seq(Incoming) /\ m_incoming_messages' # <<>>
          /\ Len(m_incoming_messages') = Len(m_incoming_messages) + 1
          /\ \A j \in 1 .. Len(m_incoming_messages) :
                m_incoming_messages'[j] = m_incoming_messages[j]
          /\ m_incoming_messages'[Len(m_incoming_messages) + 1] = Head(fromServer)
      <4>1. m_incoming_messages' = Append(m_incoming_messages, Head(fromServer))
        BY <1>4 DEF PushBack
      <4>2. m_incoming_messages \in Seq(Incoming)
        BY DEF ThreadsInv, Queues
      <4>3. Head(fromServer) \in Incoming
        BY <3>1
      <4>. HIDE DEF Incoming
      <4>. QED BY ONLY <4>1, <4>2, <4>3, Appended
    <3>3. connection' = connection
      BY <1>4 DEF PushBack
    <3>4. OfThisConnection(fromServer)'
      BY <3>1, <3>3 DEF ThreadsInv, PresentInv, OfThisConnection
    <3>5. OfThisConnection(m_incoming_messages)'
      <4>1. /\ Head(fromServer).connection = connection
            /\ \A j \in 1 .. Len(m_incoming_messages) :
                  m_incoming_messages[j].connection = connection
        BY <3>1 DEF ThreadsInv, Queues, PresentInv, OfThisConnection
      <4>2. ASSUME NEW j \in DOMAIN m_incoming_messages'
            PROVE  m_incoming_messages'[j].connection = connection
        <5>1. j \in 1 .. Len(m_incoming_messages) \/ j = Len(m_incoming_messages) + 1
          BY <3>2 DEF ThreadsInv, Queues
        <5>. QED BY <3>2, <4>1, <5>1
      <4>. QED BY <3>3, <4>2 DEF OfThisConnection
    <3>. QED BY <3>2, <3>4, <3>5 DEF PresentInv, AvailableWhileConnected
  <2>. QED BY <2>1, <2>2, <2>3, <2>4, <2>5 DEF ThreadsInv
<1>5. CASE ConnectionFails
  <2>1. Flags' /\ Numbers'
    BY <1>5 DEF ThreadsInv, ConnectionFails, Flags, Numbers
  <2>2. Queues'
    BY <1>5 DEF ThreadsInv, ConnectionFails, Queues
  <2>3. Control' /\ WriteInv'
    BY <1>5 DEF ThreadsInv, ConnectionFails, Control, WriteInv, Running
  <2>4. ConnectedInv'
    BY <1>5 DEF ThreadsInv, ConnectionFails, ConnectedInv, Running
  <2>5. PresentInv' /\ AvailableWhileConnected'
    BY <1>5 DEF ThreadsInv, ConnectionFails, PresentInv, OfThisConnection,
                AvailableWhileConnected, Running
  <2>. QED BY <2>1, <2>2, <2>3, <2>4, <2>5 DEF ThreadsInv
<1>6. CASE ClearQueues
  <2>1. Flags' /\ Numbers'
    BY <1>6 DEF ThreadsInv, ClearQueues, Cleared, Flags, Numbers
  <2>2. Queues'
    BY <1>6 DEF ThreadsInv, ClearQueues, Cleared, Queues
  <2>3. Control' /\ WriteInv'
    BY <1>6 DEF ThreadsInv, ClearQueues, Cleared, Control, WriteInv, Running
  <2>4. ConnectedInv'
    BY <1>6 DEF ThreadsInv, ClearQueues, Cleared, ConnectedInv, Running
  <2>5. PresentInv' /\ AvailableWhileConnected'
    BY <1>6 DEF ThreadsInv, ClearQueues, Cleared, PresentInv, OfThisConnection,
                AvailableWhileConnected, Running
  <2>. QED BY <2>1, <2>2, <2>3, <2>4, <2>5 DEF ThreadsInv
<1>7. CASE ThreadTerminates
  <2>1. Flags' /\ Numbers'
    BY <1>7 DEF ThreadsInv, ThreadTerminates, ConnectedAfterwards, Flags, Numbers
  <2>2. Queues'
    BY <1>7 DEF ThreadsInv, ThreadTerminates, ConnectedAfterwards, Queues
  <2>3. Control' /\ WriteInv'
    BY <1>7 DEF ThreadsInv, ThreadTerminates, ConnectedAfterwards, Control, WriteInv, Running
  <2>4. ConnectedInv'
    BY <1>7 DEF ThreadsInv, ThreadTerminates, ConnectedAfterwards, ConnectedInv, Running
  <2>5. PresentInv' /\ AvailableWhileConnected'
    BY <1>7 DEF ThreadsInv, ThreadTerminates, ConnectedAfterwards, PresentInv,
                OfThisConnection, AvailableWhileConnected, Running
  <2>. QED BY <2>1, <2>2, <2>3, <2>4, <2>5 DEF ThreadsInv
<1>. QED BY <1>1, <1>2, <1>3, <1>4, <1>5, <1>6, <1>7 DEF NetworkingThread

(* The server. *)
LEMMA ServerStep ==
    ASSUME ThreadsInv, ServerReads \/ ServerCloses \/ \E s \in BOOLEAN : ServerSends(s)
    PROVE  ThreadsInv'
<1>. USE DEF mainVars, socketVars, netVars, serverSide
<1>1. CASE ServerReads
  <2>1. Flags' /\ Numbers'
    <3>1. Head(toServer) \in Tasks
      BY <1>1, Shortened DEF ThreadsInv, ServerReads, Queues
    <3>2. received' \in Nat
      BY <1>1, <3>1 DEF ServerReads, Tasks
    <3>3. owed' \in Nat /\ UNCHANGED <<sent, served, connection>>
      BY <1>1 DEF ThreadsInv, ServerReads, Numbers
    <3>4. Flags'
      BY <1>1 DEF ThreadsInv, ServerReads, Flags
    <3>. QED BY <3>2, <3>3, <3>4 DEF ThreadsInv, Numbers
  <2>2. Queues'
    BY <1>1 DEF ThreadsInv, ServerReads, Tasks, Queues
  <2>3. Control' /\ WriteInv'
    BY <1>1 DEF ThreadsInv, ServerReads, Tasks, Control, WriteInv, Running
  <2>4. ConnectedInv'
    BY <1>1 DEF ThreadsInv, ServerReads, Tasks, ConnectedInv, Running
  <2>5. PresentInv' /\ AvailableWhileConnected'
    BY <1>1 DEF ThreadsInv, ServerReads, Tasks, PresentInv, OfThisConnection,
                AvailableWhileConnected, Running
  <2>. QED BY <2>1, <2>2, <2>3, <2>4, <2>5 DEF ThreadsInv
<1>2. CASE ServerCloses
  <2>1. Flags' /\ Numbers'
    BY <1>2 DEF ThreadsInv, ServerCloses, Flags, Numbers
  <2>2. Queues'
    BY <1>2 DEF ThreadsInv, ServerCloses, Queues
  <2>3. Control' /\ WriteInv'
    BY <1>2 DEF ThreadsInv, ServerCloses, Control, WriteInv, Running
  <2>4. ConnectedInv'
    BY <1>2 DEF ThreadsInv, ServerCloses, ConnectedInv, Running
  <2>5. PresentInv' /\ AvailableWhileConnected'
    BY <1>2 DEF ThreadsInv, ServerCloses, PresentInv, OfThisConnection,
                AvailableWhileConnected, Running
  <2>. QED BY <2>1, <2>2, <2>3, <2>4, <2>5 DEF ThreadsInv
<1>3. ASSUME NEW s \in BOOLEAN, ServerSends(s)
      PROVE  ThreadsInv'
  <2>1. Flags' /\ Numbers'
    BY <1>3 DEF ThreadsInv, ServerSends, ServerMessage, Incoming, Flags, Numbers
  <2>2. Queues'
    <3>1. ServerMessage(s) \in Incoming
      BY DEF ThreadsInv, Numbers, ServerMessage, Incoming
    <3>2. fromServer' \in Seq(Incoming)
      BY <1>3, <3>1, Appended DEF ThreadsInv, ServerSends, Queues
    <3>. QED BY <1>3, <3>2 DEF ThreadsInv, ServerSends, Queues
  <2>3. Control' /\ WriteInv'
    BY <1>3 DEF ThreadsInv, ServerSends, ServerMessage, Incoming, Control, WriteInv, Running
  <2>4. ConnectedInv'
    BY <1>3 DEF ThreadsInv, ServerSends, ServerMessage, Incoming, ConnectedInv, Running
  <2>5. PresentInv' /\ AvailableWhileConnected'
    BY <1>3 DEF ThreadsInv, ServerSends, ServerMessage, Incoming, PresentInv,
                OfThisConnection, AvailableWhileConnected, Running
  <2>. QED BY <2>1, <2>2, <2>3, <2>4, <2>5 DEF ThreadsInv
<1>. QED BY <1>1, <1>2, <1>3

(* In every reachable state of any run the invariant holds. *)
THEOREM ThreadsInvariant == Spec => []ThreadsInv
<1>1. ThreadsInv /\ [Next]_threadVars => ThreadsInv'
  <2>1. CASE UNCHANGED threadVars
    BY <2>1 DEF ThreadsInv, threadVars, mainVars, socketVars, netVars, serverSide, Flags,
                Numbers,
             Queues, Control, WriteInv, ConnectedInv, PresentInv, OfThisConnection,
             AvailableWhileConnected, Running
  <2>. QED BY <2>1, MainThreadStep, ConnectStep, NetworkingThreadStep, ServerStep DEF Next
<1>. QED BY <1>1, ThreadsInvInit, PTL DEF Spec

(* The three properties that are parts of the invariant. Type correctness also says *)
(* that the networking thread always has a write under way when it has something    *)
(* to write.                                                                        *)
THEOREM ThreadsTypeCorrect == Spec => []ThreadsTypeOK
BY ThreadsInvariant, ThreadsInvImplies, PTL

(* GetMessage never pops an empty queue while the connection lasts.                 *)
THEOREM StaysAvailable == Spec => []AvailableWhileConnected
<1>1. ThreadsInv => AvailableWhileConnected
  BY DEF ThreadsInv
<1>. QED BY <1>1, ThreadsInvariant, PTL

(* No message of an earlier connection can be taken in a later one.                 *)
THEOREM NeverStale == Spec => []NothingStale
BY ThreadsInvariant, ThreadsInvImplies, PTL

-----------------------------------------------------------------------------
(* The order of the client's messages. *)

Increasing(s) == \A i, j \in DOMAIN s : i < j => s[i].n < s[j].n
AllBelow(s, t) == \A i \in DOMAIN s, j \in DOMAIN t : s[i].n < t[j].n
Within(s, low, high) == \A i \in DOMAIN s : low < s[i].n /\ s[i].n <= high

(* What is on the wire, to be written and posted, one behind the other.             *)
InOrder(a, b, c, low, high) ==
    /\ Increasing(a) /\ Increasing(b) /\ Increasing(c)
    /\ AllBelow(a, b) /\ AllBelow(a, c) /\ AllBelow(b, c)
    /\ Within(a, low, high) /\ Within(b, low, high) /\ Within(c, low, high)

OrderInv ==
    /\ InOrder(toServer, Unwritten, m_io_service, received, sent)
    /\ received <= sent
    /\ main = "posting" => posting.n = sent + 1

(* A part that passes on its first message to the part before keeps the order.       *)
LEMMA MovedUp ==
    ASSUME NEW s \in Seq(Tasks), NEW t \in Seq(Tasks), t # <<>>,
           NEW low \in Nat, NEW high \in Nat,
           Increasing(s), Increasing(t), AllBelow(s, t),
           Within(s, low, high), Within(t, low, high)
    PROVE  LET s2 == Append(s, Head(t)) t2 == Tail(t)
           IN /\ Increasing(s2) /\ Increasing(t2) /\ AllBelow(s2, t2)
              /\ Within(s2, low, high) /\ Within(t2, low, high)
              /\ \A r \in Seq(Tasks) : AllBelow(r, s) /\ AllBelow(r, t)
                                         => AllBelow(r, s2) /\ AllBelow(r, t2)
              /\ \A r \in Seq(Tasks) : AllBelow(s, r) /\ AllBelow(t, r)
                                         => AllBelow(s2, r) /\ AllBelow(t2, r)
<1>. DEFINE s2 == Append(s, Head(t))
            t2 == Tail(t)
<1>1. /\ Head(t) = t[1] /\ Len(t) > 0 /\ Len(t) \in Nat /\ Len(s) \in Nat
      /\ t2 \in Seq(Tasks) /\ Len(t2) = Len(t) - 1
      /\ \A i \in 1 .. Len(t2) : t2[i] = t[i + 1]
  BY Shortened
<1>2. /\ s2 \in Seq(Tasks) /\ Len(s2) = Len(s) + 1
      /\ \A i \in 1 .. Len(s) : s2[i] = s[i]
      /\ s2[Len(s) + 1] = t[1]
  BY <1>1, Shortened, Appended
<1>. HIDE DEF s2, t2
<1>3. ASSUME NEW i \in DOMAIN s2
      PROVE  \/ i \in DOMAIN s /\ s2[i] = s[i]
             \/ i = Len(s) + 1 /\ s2[i] = t[1]
  <2>1. i \in 1 .. Len(s) \/ i = Len(s) + 1
    BY <1>1, <1>2
  <2>. QED BY <1>2, <2>1
<1>4. \A i \in DOMAIN t2 : i + 1 \in DOMAIN t /\ t2[i] = t[i + 1] /\ i \in Nat /\ i > 0
  BY <1>1
<1>5. 1 \in DOMAIN t /\ DOMAIN s = 1 .. Len(s)
  BY <1>1
<1>6. Increasing(s2)
  BY <1>1, <1>3, <1>5 DEF Increasing, AllBelow
<1>7. Increasing(t2) /\ Within(t2, low, high)
  <2>1. ASSUME NEW i \in DOMAIN t2, NEW j \in DOMAIN t2, i < j
        PROVE  t2[i].n < t2[j].n
    <3>1. i + 1 < j + 1
      BY <1>4, <2>1
    <3>. QED BY <1>4, <3>1 DEF Increasing
  <2>. QED BY <1>4, <2>1 DEF Increasing, Within
<1>8. AllBelow(s2, t2)
  BY <1>3, <1>4, <1>5 DEF Increasing, AllBelow
<1>9. Within(s2, low, high)
  BY <1>3, <1>5 DEF Within
<1>10. \A r \in Seq(Tasks) : AllBelow(r, s) /\ AllBelow(r, t)
                               => AllBelow(r, s2) /\ AllBelow(r, t2)
  BY <1>3, <1>4, <1>5 DEF AllBelow
<1>11. \A r \in Seq(Tasks) : AllBelow(s, r) /\ AllBelow(t, r)
                               => AllBelow(s2, r) /\ AllBelow(t2, r)
  BY <1>3, <1>4, <1>5 DEF AllBelow
<1>. QED BY <1>6, <1>7, <1>8, <1>9, <1>10, <1>11 DEF s2, t2

(* The first part without its first message.                                          *)
LEMMA Taken ==
    ASSUME NEW s \in Seq(Tasks), s # <<>>, NEW low \in Nat, NEW high \in Nat,
           Increasing(s), Within(s, low, high)
    PROVE  /\ Head(s) \in Tasks /\ low < Head(s).n
           /\ Increasing(Tail(s)) /\ Within(Tail(s), Head(s).n, high)
           /\ Within(Tail(s), low, high)
           /\ \A r \in Seq(Tasks) : AllBelow(s, r) => AllBelow(Tail(s), r)
           /\ \A r \in Seq(Tasks) : AllBelow(r, s) => AllBelow(r, Tail(s))
           /\ \A r \in Seq(Tasks) : AllBelow(s, r) /\ Within(r, low, high)
                                      => Within(r, Head(s).n, high)
<1>. DEFINE t == Tail(s)
<1>1. /\ Head(s) \in Tasks /\ Head(s) = s[1] /\ Len(s) > 0 /\ Len(s) \in Nat
      /\ t \in Seq(Tasks) /\ Len(t) = Len(s) - 1
      /\ \A i \in 1 .. Len(t) : t[i] = s[i + 1]
  BY Shortened
<1>. HIDE DEF t
<1>2. \A i \in DOMAIN t : i + 1 \in DOMAIN s /\ t[i] = s[i + 1] /\ i \in Nat /\ i > 0
  BY <1>1
<1>3. 1 \in DOMAIN s
  BY <1>1
<1>4. Increasing(t) /\ Within(t, Head(s).n, high) /\ Within(t, low, high)
  <2>1. ASSUME NEW i \in DOMAIN t
        PROVE  /\ s[1].n < t[i].n /\ low < t[i].n /\ t[i].n <= high
               /\ \A j \in DOMAIN t : i < j => t[i].n < t[j].n
    <3>1. 1 < i + 1 /\ \A j \in DOMAIN t : i < j => i + 1 < j + 1
      BY <1>2
    <3>. QED BY <1>2, <1>3, <3>1 DEF Increasing, Within
  <2>. QED BY <1>1, <2>1 DEF Increasing, Within
<1>5. \A r \in Seq(Tasks) : AllBelow(s, r) => AllBelow(t, r)
  BY <1>2 DEF AllBelow
<1>6. \A r \in Seq(Tasks) : AllBelow(r, s) => AllBelow(r, t)
  BY <1>2 DEF AllBelow
<1>7. \A r \in Seq(Tasks) : AllBelow(s, r) /\ Within(r, low, high) => Within(r, Head(s).n, high)
  BY <1>1, <1>3 DEF AllBelow, Within
<1>. QED BY <1>1, <1>3, <1>4, <1>5, <1>6, <1>7 DEF t, Within

(* A message with the next number goes behind all that are there.                      *)
LEMMA Posted ==
    ASSUME NEW a \in Seq(Tasks), NEW b \in Seq(Tasks), NEW c \in Seq(Tasks),
           NEW low \in Nat, NEW high \in Nat, low <= high, InOrder(a, b, c, low, high),
           NEW x \in Tasks, x.n = high + 1
    PROVE  InOrder(a, b, Append(c, x), low, high + 1)
<1>. DEFINE d == Append(c, x)
<1>1. /\ d \in Seq(Tasks) /\ Len(d) = Len(c) + 1 /\ Len(c) \in Nat
      /\ \A i \in 1 .. Len(c) : d[i] = c[i]
      /\ d[Len(c) + 1] = x
  BY Appended
<1>. HIDE DEF d
<1>2. ASSUME NEW i \in DOMAIN d
      PROVE  \/ i \in DOMAIN c /\ d[i] = c[i]
             \/ i = Len(c) + 1 /\ d[i] = x
  <2>1. i \in 1 .. Len(c) \/ i = Len(c) + 1
    BY <1>1
  <2>. QED BY <1>1, <2>1
<1>3. \A s \in Seq(Tasks) : \A i \in DOMAIN s : s[i].n \in Nat
  <2>1. ASSUME NEW s \in Seq(Tasks), NEW i \in DOMAIN s
        PROVE  s[i] \in Tasks
    BY <2>1
  <2>. QED BY <2>1 DEF Tasks
<1>4. ASSUME NEW s \in Seq(Tasks), Within(s, low, high)
      PROVE  Within(s, low, high + 1) /\ \A i \in DOMAIN s : s[i].n < x.n
  BY <1>3, <1>4 DEF Within
<1>5. Within(a, low, high) /\ Within(b, low, high) /\ Within(c, low, high)
  BY DEF InOrder
<1>6. Increasing(d)
  <2>1. Increasing(c) /\ \A i \in DOMAIN c : c[i].n < x.n
    BY <1>4, <1>5 DEF InOrder
  <2>2. \A i \in DOMAIN c : i \in Nat /\ i <= Len(c)
    BY <1>1
  <2>. QED BY <1>1, <1>2, <2>1, <2>2 DEF Increasing
<1>7. AllBelow(a, d) /\ AllBelow(b, d)
  <2>1. /\ AllBelow(a, c) /\ \A i \in DOMAIN a : a[i].n < x.n
        /\ AllBelow(b, c) /\ \A i \in DOMAIN b : b[i].n < x.n
    BY <1>4, <1>5 DEF InOrder
  <2>. QED BY <1>2, <2>1 DEF AllBelow
<1>8. Within(d, low, high + 1)
  <2>1. Within(c, low, high + 1)
    BY <1>4, <1>5
  <2>. QED BY <1>2, <2>1 DEF Within
<1>. QED BY <1>4, <1>5, <1>6, <1>7, <1>8 DEF InOrder, d

(* Three parts in order are one sequence in order.                                       *)
LEMMA Joined ==
    ASSUME NEW s \in Seq(Tasks), NEW t \in Seq(Tasks), NEW low \in Nat, NEW high \in Nat,
           Increasing(s), Increasing(t), AllBelow(s, t),
           Within(s, low, high), Within(t, low, high)
    PROVE  /\ s \o t \in Seq(Tasks)
           /\ Increasing(s \o t) /\ Within(s \o t, low, high)
           /\ \A r \in Seq(Tasks) : AllBelow(s, r) /\ AllBelow(t, r) => AllBelow(s \o t, r)
<1>. DEFINE u == s \o t
<1>1. /\ u \in Seq(Tasks) /\ Len(u) = Len(s) + Len(t) /\ Len(s) \in Nat /\ Len(t) \in Nat
      /\ \A i \in 1 .. Len(s) + Len(t) :
            u[i] = IF i <= Len(s) THEN s[i] ELSE t[i - Len(s)]
  BY ConcatProperties
<1>. HIDE DEF u
<1>2. \A i \in DOMAIN u : \/ i \in DOMAIN s /\ u[i] = s[i]
                          \/ i > Len(s) /\ i - Len(s) \in DOMAIN t /\ u[i] = t[i - Len(s)]
  BY <1>1
<1>3. \A i \in DOMAIN s : i <= Len(s)
  BY <1>1
<1>4. ASSUME NEW i \in DOMAIN u, NEW j \in DOMAIN u, i < j
      PROVE  u[i].n < u[j].n
  <2>1. CASE j \in DOMAIN s
    <3>1. i \in DOMAIN s
      BY <1>1, <1>4, <2>1
    <3>. QED BY <1>1, <1>2, <1>3, <1>4, <2>1, <3>1 DEF Increasing
  <2>2. CASE j \notin DOMAIN s
    <3>1. j > Len(s) /\ j - Len(s) \in DOMAIN t /\ u[j] = t[j - Len(s)]
      BY <1>2, <2>2
    <3>2. CASE i \in DOMAIN s /\ u[i] = s[i]
      BY <3>1, <3>2 DEF AllBelow
    <3>3. CASE i > Len(s) /\ i - Len(s) \in DOMAIN t /\ u[i] = t[i - Len(s)]
      <4>1. i - Len(s) < j - Len(s)
        BY <1>1, <1>4
      <4>. QED BY <3>1, <3>3, <4>1 DEF Increasing
    <3>. QED BY <1>2, <3>2, <3>3
  <2>. QED BY <2>1, <2>2
<1>5. Within(u, low, high)
  BY <1>2 DEF Within
<1>6. \A r \in Seq(Tasks) : AllBelow(s, r) /\ AllBelow(t, r) => AllBelow(u, r)
  BY <1>2 DEF AllBelow
<1>. QED BY <1>1, <1>4, <1>5, <1>6 DEF u, Increasing

LEMMA OrderInit == Init => OrderInv
BY DEF Init, OrderInv, InOrder, Increasing, AllBelow, Within, Unwritten

(* What is being written and what is to be are messages.                              *)
LEMMA UnwrittenTyped ==
    ASSUME ThreadsInv
    PROVE  Unwritten \in Seq(Tasks)
<1>1. m_outgoing_messages \in Seq(Tasks) /\ (write = "done" => m_outgoing_messages # <<>>)
  BY DEF ThreadsInv, Queues, WriteInv
<1>. QED BY <1>1, Shortened DEF Unwritten

(* A task that is run moves from what is posted to what is to be written, or goes.    *)
LEMMA TaskRun ==
    ASSUME ThreadsInv, OrderInv, m_io_service # <<>>, m_io_service' = Tail(m_io_service),
           \/ Unwritten' = Unwritten
           \/ Unwritten' = Append(Unwritten, Head(m_io_service)),
           UNCHANGED <<toServer, received, sent>>
    PROVE  InOrder(toServer, Unwritten, m_io_service, received, sent)'
<1>1. /\ toServer \in Seq(Tasks) /\ Unwritten \in Seq(Tasks) /\ m_io_service \in Seq(Tasks)
      /\ received \in Nat /\ sent \in Nat
  BY UnwrittenTyped DEF ThreadsInv, Queues, Numbers
<1>2. CASE Unwritten' = Unwritten
  BY <1>1, <1>2, Taken DEF OrderInv, InOrder
<1>3. CASE Unwritten' = Append(Unwritten, Head(m_io_service))
  BY <1>1, <1>3, MovedUp DEF OrderInv, InOrder
<1>. QED BY <1>2, <1>3

LEMMA OrderStep == ThreadsInv /\ OrderInv /\ [Next]_threadVars => OrderInv'
<1>. SUFFICES ASSUME ThreadsInv, OrderInv, [Next]_threadVars
              PROVE  OrderInv'
  OBVIOUS
<1>. DEFINE parts == <<toServer, m_outgoing_messages, write, m_io_service, received, sent>>
<1>1. /\ toServer \in Seq(Tasks) /\ Unwritten \in Seq(Tasks) /\ m_io_service \in Seq(Tasks)
      /\ m_outgoing_messages \in Seq(Tasks) /\ received \in Nat /\ sent \in Nat
      /\ posting \in Tasks
  BY UnwrittenTyped DEF ThreadsInv, Queues, Numbers
<1>2. ASSUME UNCHANGED parts, main' = "posting" => main = "posting" /\ UNCHANGED posting
      PROVE  OrderInv'
  BY <1>2 DEF OrderInv, InOrder, Increasing, AllBelow, Within, Unwritten
<1>3. ASSUME NEW type \in {"message", "request", "close"}, SendMessage(type)
      PROVE  OrderInv'
  <2>1. UNCHANGED parts /\ posting'.n = sent' + 1
    BY <1>3 DEF SendMessage, NextTask, socketVars, netVars, serverSide
  <2>. QED BY <2>1 DEF OrderInv, InOrder, Increasing, AllBelow, Within, Unwritten
<1>4. CASE Post
  <2>1. /\ posting.n = sent + 1 /\ sent' = sent + 1 /\ main' # "posting"
        /\ m_io_service' = Append(m_io_service, posting)
        /\ UNCHANGED <<toServer, received, Unwritten>>
    BY <1>4 DEF Post, OrderInv, Unwritten, socketVars, serverSide
  <2>2. InOrder(toServer, Unwritten, m_io_service, received, sent) /\ received <= sent
    BY DEF OrderInv
  <2>3. InOrder(toServer, Unwritten, Append(m_io_service, posting), received, sent + 1)
    BY <1>1, <2>1, <2>2, Posted
  <2>4. InOrder(toServer, Unwritten, m_io_service, received, sent)'
    BY <2>1, <2>3 DEF InOrder, Increasing, AllBelow, Within
  <2>. QED BY <1>1, <2>1, <2>2, <2>4 DEF OrderInv
<1>5. CASE RunLeftTask
  <2>1. write = "none"
    BY <1>5 DEF RunLeftTask, ThreadsInv, ConnectedInv, WriteInv
  <2>2. /\ UNCHANGED <<toServer, received, sent, main>>
        /\ m_io_service # <<>> /\ m_io_service' = Tail(m_io_service)
        /\ \/ Unwritten' = Unwritten
           \/ Unwritten' = Append(Unwritten, Head(m_io_service))
    BY <1>5, <2>1 DEF RunLeftTask, Unwritten, mainVars, socketVars, serverSide
  <2>. QED BY <1>5, <2>2, TaskRun DEF RunLeftTask, OrderInv
<1>6. CASE HandleConnection
  <2>1. write = "none"
    BY <1>6 DEF HandleConnection, ThreadsInv, ConnectedInv, WriteInv
  <2>2. /\ UNCHANGED <<Unwritten, m_io_service, received, sent>>
        /\ toServer' = <<>> /\ main' # "posting"
    BY <1>6, <2>1 DEF HandleConnection, Unwritten
  <2>. QED BY <2>2 DEF OrderInv, InOrder, Increasing, AllBelow, Within
<1>7. CASE RunTask
  <2>1. CASE Head(m_io_service).type = "close"
    <3>1. UNCHANGED <<toServer, received, sent, main, posting, Unwritten>>
      BY <1>7, <2>1 DEF RunTask, Unwritten, mainVars, serverSide
    <3>. QED BY <1>7, <3>1, TaskRun DEF RunTask, OrderInv
  <2>2. CASE Head(m_io_service).type # "close"
    <3>1. /\ m_outgoing_messages' = Append(m_outgoing_messages, Head(m_io_service))
          /\ write' = IF m_outgoing_messages = <<>> THEN "started" ELSE write
          /\ UNCHANGED <<toServer, received, sent, main, posting>>
      BY <1>7, <2>2 DEF RunTask, WriteAfterQueueing, mainVars, serverSide
    <3>2. m_io_service # <<>> /\ Head(m_io_service) \in Tasks /\ m_io_service' = Tail(m_io_service)
      BY <1>1, <1>7, Shortened DEF RunTask
    <3>3. write = "done" => m_outgoing_messages # <<>>
      BY DEF ThreadsInv, WriteInv
    <3>4. write = "done" => Tail(Append(m_outgoing_messages, Head(m_io_service)))
                              = Append(Tail(m_outgoing_messages), Head(m_io_service))
      BY <1>1, <3>2, <3>3, HeadTailAppend
    <3>5. Unwritten' = Append(Unwritten, Head(m_io_service))
      BY <3>1, <3>3, <3>4 DEF Unwritten
    <3>. QED BY <3>1, <3>2, <3>5, TaskRun DEF OrderInv
  <2>. QED BY <2>1, <2>2
<1>8. CASE Transmit
  <2>1. write = "started" /\ m_outgoing_messages # <<>>
    BY <1>8 DEF Transmit, ThreadsInv, WriteInv
  <2>2. /\ Unwritten = m_outgoing_messages /\ Unwritten' = Tail(m_outgoing_messages)
        /\ toServer' = Append(toServer, Head(m_outgoing_messages))
        /\ UNCHANGED <<m_io_service, received, sent, main, posting>>
    BY <1>8, <2>1 DEF Transmit, Unwritten, mainVars, serverSide
  <2>. QED BY <1>1, <2>1, <2>2, MovedUp DEF OrderInv, InOrder
<1>9. CASE HandleMessageWrite
  <2>1. UNCHANGED <<toServer, Unwritten, m_io_service, received, sent, main, posting>>
    BY <1>9 DEF HandleMessageWrite, Unwritten, mainVars, socketVars, serverSide
  <2>. QED BY <2>1 DEF OrderInv, InOrder, Increasing, AllBelow, Within
<1>10. CASE ClearQueues
  <2>1. /\ Unwritten' = <<>>
        /\ UNCHANGED <<toServer, m_io_service, received, sent, main, posting>>
    BY <1>10 DEF ClearQueues, Unwritten, mainVars, socketVars, serverSide
  <2>. QED BY <2>1 DEF OrderInv, InOrder, Increasing, AllBelow, Within
<1>11. CASE ServerReads
  <2>1. /\ toServer # <<>> /\ toServer' = Tail(toServer) /\ received' = Head(toServer).n
        /\ UNCHANGED <<Unwritten, m_io_service, sent, main, posting>>
    BY <1>11 DEF ServerReads, Unwritten, mainVars, netVars
  <2>2. InOrder(toServer, Unwritten, m_io_service, received, sent)'
    BY <1>1, <2>1, Taken DEF OrderInv, InOrder
  <2>3. received' <= sent
    BY <1>1, <2>1, Shortened DEF OrderInv, InOrder, Within
  <2>. QED BY <2>1, <2>2, <2>3 DEF OrderInv
<1>12. CASE \/ AskUnconnected \/ EraseFirstSynchronousResponse \/ SpuriousWakeup
            \/ MessageAvailable \/ PopFront \/ NoticeDisconnection
            \/ ConnectToServer \/ ConnectionRefused
  <2>1. UNCHANGED parts /\ main' # "posting"
    BY <1>12 DEF AskUnconnected, EraseFirstSynchronousResponse, SpuriousWakeup,
                 MessageAvailable, PopFront, NoticeDisconnection, ConnectToServer,
                 ConnectionRefused, socketVars, netVars, serverSide
  <2>. QED BY <1>2, <2>1
<1>13. CASE PushBack \/ ConnectionFails \/ ThreadTerminates \/ ServerCloses
  <2>1. UNCHANGED parts /\ (main' = "posting" => main = "posting" /\ UNCHANGED posting)
    BY <1>13 DEF PushBack, Notified, ConnectionFails, ThreadTerminates, ServerCloses,
                 mainVars, socketVars, netVars, serverSide
  <2>. QED BY <1>2, <2>1
<1>14. ASSUME NEW s \in BOOLEAN, ServerSends(s)
       PROVE  OrderInv'
  <2>1. UNCHANGED parts /\ UNCHANGED <<main, posting>>
    BY <1>14 DEF ServerSends, mainVars, netVars
  <2>. QED BY <1>2, <2>1
<1>15. CASE UNCHANGED threadVars
  <2>1. UNCHANGED parts /\ UNCHANGED <<main, posting>>
    BY <1>15 DEF threadVars, mainVars, socketVars, netVars, serverSide
  <2>. QED BY <1>2, <2>1
<1>. QED BY <1>3, <1>4, <1>5, <1>6, <1>7, <1>8, <1>9, <1>10, <1>11, <1>12, <1>13, <1>14, <1>15
         DEF Next, NetworkingThread

(* Messages reach a server in the order they were sent, each at most once, for any     *)
(* number of messages and connections.                                                 *)
THEOREM OrderKept == Spec => []SentInOrder
<1>1. ThreadsInv /\ OrderInv => SentInOrder
  <2>. SUFFICES ASSUME ThreadsInv, OrderInv
                PROVE  SentInOrder
    OBVIOUS
  <2>. DEFINE front == toServer \o Unwritten
  <2>1. /\ toServer \in Seq(Tasks) /\ Unwritten \in Seq(Tasks) /\ m_io_service \in Seq(Tasks)
        /\ received \in Nat /\ sent \in Nat
    BY UnwrittenTyped DEF ThreadsInv, Queues, Numbers
  <2>2. /\ front \in Seq(Tasks) /\ Increasing(front) /\ Within(front, received, sent)
        /\ AllBelow(front, m_io_service)
    BY <2>1, Joined DEF OrderInv, InOrder
  <2>. HIDE DEF front
  <2>3. /\ front \o m_io_service \in Seq(Tasks) /\ Increasing(front \o m_io_service)
        /\ Within(front \o m_io_service, received, sent)
    BY <2>1, <2>2, Joined DEF OrderInv, InOrder
  <2>4. Upstream = front \o m_io_service
    BY <2>1, ConcatAssociative DEF Upstream, front
  <2>. QED BY <2>3, <2>4 DEF SentInOrder, Increasing, Within
<1>. QED BY <1>1, OrderInit, OrderStep, ThreadsInvariant, PTL DEF Spec

-----------------------------------------------------------------------------
(* The channel. *)

pendingBar == m_incoming_messages \o fromServer

(* A first element that moves from one sequence to the end of another leaves the two  *)
(* joined as they were.                                                                 *)
LEMMA MovedConcat ==
    ASSUME NEW S, NEW s \in Seq(S), NEW t \in Seq(S), t # <<>>
    PROVE  Append(s, Head(t)) \o Tail(t) = s \o t
<1>1. Append(s, Head(t)) = s \o <<Head(t)>> /\ Head(t) \in S /\ Tail(t) \in Seq(S)
  BY Shortened, AppendIsConcat
<1>2. <<Head(t)>> \in Seq(S) /\ <<Head(t)>> \o Tail(t) = t
  BY <1>1, HeadTailProperties, ConcatSimplifications
<1>. QED BY <1>1, <1>2, ConcatAssociative

(* A message at the end of what is on its way is at the end of what is pending.         *)
LEMMA DeliveredConcat ==
    ASSUME NEW S, NEW s \in Seq(S), NEW t \in Seq(S), NEW x \in S
    PROVE  /\ Len(s \o Append(t, x)) = Len(s \o t) + 1
           /\ SubSeq(s \o Append(t, x), 1, Len(s \o t)) = s \o t
<1>. DEFINE u == s \o t
            v == Append(u, x)
<1>1. s \o Append(t, x) = v
  BY ConcatSimplifications, AppendIsConcat, ConcatAssociative
<1>2. u \in Seq(S) /\ Len(u) \in Nat
  BY ConcatProperties
<1>. HIDE DEF u
<1>3. /\ v \in Seq(S) /\ Len(v) = Len(u) + 1
      /\ \A i \in 1 .. Len(u) : v[i] = u[i]
  BY <1>2, Appended
<1>. HIDE DEF v
<1>4. /\ SubSeq(v, 1, Len(u)) \in Seq(S) /\ Len(SubSeq(v, 1, Len(u))) = Len(u)
      /\ \A i \in 1 .. Len(u) : SubSeq(v, 1, Len(u))[i] = v[i]
  BY <1>2, <1>3, SubSeqProperties
<1>5. SubSeq(v, 1, Len(u)) = u
  BY <1>2, <1>3, <1>4, SeqEqual
<1>. QED BY <1>1, <1>3, <1>5 DEF u

(* Erasing in the first of two sequences is erasing in the two joined.                   *)
LEMMA ErasedConcat ==
    ASSUME NEW S, NEW s \in Seq(S), NEW t \in Seq(S), NEW i \in DOMAIN s
    PROVE  Channel!Without(s \o t, i) = Erase(s, i) \o t
<1>. DEFINE u == s \o t
            a == Erase(u, i)
            e == Erase(s, i)
            b == e \o t
<1>1. /\ u \in Seq(S) /\ Len(u) = Len(s) + Len(t) /\ Len(s) \in Nat /\ Len(t) \in Nat
      /\ \A j \in 1 .. Len(s) + Len(t) : u[j] = IF j <= Len(s) THEN s[j] ELSE t[j - Len(s)]
  BY ConcatProperties
<1>2. Channel!Without(u, i) = a
  BY DEF Channel!Without, Erase
<1>3. i \in 1 .. Len(s)
  OBVIOUS
<1>. HIDE DEF u
<1>4. /\ a \in Seq(S) /\ Len(a) = Len(u) - 1
      /\ \A j \in 1 .. Len(u) - 1 : a[j] = IF j < i THEN u[j] ELSE u[j + 1]
  <2>1. i \in DOMAIN u
    BY <1>1, <1>3
  <2>. QED BY <1>1, <2>1, Erased
<1>5. /\ e \in Seq(S) /\ Len(e) = Len(s) - 1
      /\ \A j \in 1 .. Len(s) - 1 : e[j] = IF j < i THEN s[j] ELSE s[j + 1]
  BY Erased
<1>. HIDE DEF a, e
<1>6. /\ b \in Seq(S) /\ Len(b) = Len(e) + Len(t)
      /\ \A j \in 1 .. Len(e) + Len(t) : b[j] = IF j <= Len(e) THEN e[j] ELSE t[j - Len(e)]
  BY <1>5, ConcatProperties
<1>. HIDE DEF b
<1>7. Len(a) = Len(b) /\ Len(a) = Len(s) + Len(t) - 1
  BY <1>1, <1>4, <1>5, <1>6
<1>8. ASSUME NEW j \in 1 .. Len(a)
      PROVE  a[j] = b[j]
  <2>1. j \in 1 .. Len(u) - 1 /\ j \in 1 .. Len(e) + Len(t)
    BY <1>4, <1>6, <1>7
  <2>2. CASE j < i
    <3>1. a[j] = u[j] /\ j <= Len(s) /\ j \in 1 .. Len(s) - 1 /\ j <= Len(e)
      BY <1>1, <1>3, <1>4, <1>5, <2>1, <2>2
    <3>2. u[j] = s[j]
      BY <1>1, <2>1, <3>1
    <3>3. b[j] = e[j] /\ e[j] = s[j]
      BY <1>5, <1>6, <2>1, <2>2, <3>1
    <3>. QED BY <3>1, <3>2, <3>3
  <2>3. CASE ~(j < i) /\ j < Len(s)
    <3>1. a[j] = u[j + 1] /\ j + 1 <= Len(s) /\ j \in 1 .. Len(s) - 1 /\ j <= Len(e)
          /\ j + 1 \in 1 .. Len(s) + Len(t)
      BY <1>1, <1>3, <1>4, <1>5, <2>1, <2>3
    <3>2. u[j + 1] = s[j + 1]
      BY <1>1, <3>1
    <3>3. b[j] = e[j] /\ e[j] = s[j + 1]
      BY <1>5, <1>6, <2>1, <2>3, <3>1
    <3>. QED BY <3>1, <3>2, <3>3
  <2>4. CASE ~(j < Len(s))
    <3>1. a[j] = u[j + 1] /\ ~(j + 1 <= Len(s)) /\ ~(j <= Len(e))
          /\ j + 1 \in 1 .. Len(s) + Len(t) /\ (j + 1) - Len(s) = j - Len(e)
      BY <1>1, <1>3, <1>4, <1>5, <2>1, <2>4
    <3>2. u[j + 1] = t[(j + 1) - Len(s)]
      BY <1>1, <3>1
    <3>3. b[j] = t[j - Len(e)]
      BY <1>6, <2>1, <3>1
    <3>. QED BY <3>1, <3>2, <3>3
  <2>. QED BY <1>3, <2>2, <2>3, <2>4
<1>9. a = b
  BY <1>4, <1>6, <1>7, <1>8, SeqEqual
<1>. QED BY <1>2, <1>9 DEF u, a, b, e

LEMMA ChannelInit == Init => Channel!ChannelInit
BY ConcatEmptySeq DEF Init, Channel!ChannelInit, Waiting

LEMMA ChannelStep == ThreadsInv /\ [Next]_threadVars => [Channel!ChannelNext]_Channel!channelVars
<1>. SUFFICES ASSUME ThreadsInv, [Next]_threadVars
              PROVE  Channel!ChannelNext \/ UNCHANGED <<pendingBar, handled, Waiting>>
  BY DEF Channel!channelVars, pendingBar
<1>1. m_incoming_messages \in Seq(Incoming) /\ fromServer \in Seq(Incoming)
  BY DEF ThreadsInv, Queues
<1>2. ASSUME UNCHANGED <<m_incoming_messages, fromServer, handled>>,
             Waiting' = Waiting
      PROVE  UNCHANGED <<pendingBar, handled, Waiting>>
  BY <1>2 DEF pendingBar
<1>3. ASSUME UNCHANGED <<m_incoming_messages, fromServer, handled>>,
             ~Waiting, Waiting'
      PROVE  Channel!ChannelNext
  BY <1>3 DEF Channel!ChannelNext, Channel!Asked
<1>4. ASSUME NEW type \in {"message", "request", "close"}, SendMessage(type)
      PROVE  UNCHANGED <<pendingBar, handled, Waiting>>
  <2>1. UNCHANGED <<m_incoming_messages, fromServer, handled>> /\ main = "idle" /\ main' = "posting"
    BY <1>4 DEF SendMessage, socketVars, netVars
  <2>. QED BY <1>2, <2>1 DEF Waiting
<1>5. CASE Post
  <2>1. /\ UNCHANGED <<m_incoming_messages, fromServer, handled>>
        /\ main = "posting" /\ main' \in {"finding", "idle"}
    BY <1>5 DEF Post, socketVars
  <2>2. CASE main' = "finding"
    BY <1>3, <2>1, <2>2 DEF Waiting
  <2>3. CASE main' = "idle"
    BY <1>2, <2>1, <2>3 DEF Waiting
  <2>. QED BY <2>1, <2>2, <2>3
<1>6. CASE AskUnconnected
  <2>1. UNCHANGED <<m_incoming_messages, fromServer, handled>> /\ main = "idle" /\ main' = "finding"
    BY <1>6 DEF AskUnconnected, socketVars, netVars
  <2>. QED BY <1>3, <2>1 DEF Waiting
<1>7. CASE EraseFirstSynchronousResponse
  <2>1. ASSUME NEW i \in DOMAIN m_incoming_messages,
               SynchronousResponse(m_incoming_messages, i),
               handled' = Append(handled, m_incoming_messages[i]),
               m_incoming_messages' = Erase(m_incoming_messages, i),
               main' = "idle"
        PROVE  Channel!Answered
    <3>1. Waiting /\ ~Waiting' /\ fromServer' = fromServer
      BY <1>7, <2>1 DEF EraseFirstSynchronousResponse, Waiting, socketVars
    <3>2. /\ i \in DOMAIN pendingBar
          /\ \A j \in DOMAIN pendingBar : j <= i => /\ j \in DOMAIN m_incoming_messages
                                                    /\ pendingBar[j] = m_incoming_messages[j]
      BY <1>1, ConcatProperties DEF pendingBar
    <3>3. Channel!FirstSynchronousResponse(pendingBar, i)
      <4>1. \A j \in DOMAIN pendingBar : j < i => j <= i
        BY <1>1, <3>2, ConcatProperties DEF pendingBar
      <4>. QED BY <1>1, <2>1, <3>2, <4>1 DEF SynchronousResponse,
                            Channel!FirstSynchronousResponse
    <3>4. pendingBar' = Channel!Without(pendingBar, i)
      BY <1>1, <2>1, <3>1, ErasedConcat DEF pendingBar
    <3>5. handled' = Append(handled, pendingBar[i])
      BY <1>1, <2>1, <3>2
    <3>. QED BY <3>1, <3>2, <3>3, <3>4, <3>5 DEF Channel!Answered, pendingBar
  <2>2. ASSUME main' = "asleep", UNCHANGED <<handled, m_incoming_messages>>
        PROVE  UNCHANGED <<pendingBar, handled, Waiting>>
    BY <1>2, <1>7, <2>2 DEF EraseFirstSynchronousResponse, Waiting, socketVars
  <2>. QED BY <1>7, <2>1, <2>2 DEF EraseFirstSynchronousResponse, Channel!ChannelNext
<1>8. CASE PopFront
  <2>1. fromServer' = fromServer /\ ~Waiting /\ Waiting' = Waiting
    BY <1>8 DEF PopFront, Waiting, socketVars
  <2>2. CASE m_incoming_messages = <<>>
    <3>1. UNCHANGED <<handled, m_incoming_messages>>
      BY <1>8, <2>2 DEF PopFront
    <3>. QED BY <1>2, <2>1, <3>1
  <2>3. CASE m_incoming_messages # <<>>
    <3>1. /\ handled' = Append(handled, Head(m_incoming_messages))
          /\ m_incoming_messages' = Tail(m_incoming_messages)
      BY <1>8, <2>3 DEF PopFront
    <3>2. /\ pendingBar # <<>>
          /\ Head(pendingBar) = Head(m_incoming_messages)
          /\ Tail(pendingBar) = Tail(m_incoming_messages) \o fromServer
      BY <1>1, <2>3, ConcatSimplifications, ConcatProperties DEF pendingBar
    <3>. QED BY <2>1, <3>1, <3>2 DEF Channel!ChannelNext, Channel!Taken, pendingBar
  <2>. QED BY <2>2, <2>3
<1>9. CASE HandleConnection
  <2>1. /\ UNCHANGED <<m_incoming_messages, fromServer, handled>>
        /\ main = "connecting" /\ main' = "idle"
    BY <1>9 DEF HandleConnection, ThreadsInv, ConnectedInv, Running
  <2>. QED BY <1>2, <2>1 DEF Waiting
<1>10. CASE PushBack
  <2>1. /\ fromServer # <<>> /\ fromServer' = Tail(fromServer)
        /\ m_incoming_messages' = Append(m_incoming_messages, Head(fromServer))
        /\ handled' = handled
        /\ \/ main' = main
           \/ main = "asleep" /\ main' = "finding"
    BY <1>10 DEF PushBack, Notified
  <2>2. pendingBar' = pendingBar
    BY <1>1, <2>1, MovedConcat DEF pendingBar
  <2>. QED BY <2>1, <2>2 DEF Waiting
<1>11. CASE ConnectionFails
  <2>1. UNCHANGED <<m_incoming_messages, handled, main>> /\ fromServer' = <<>>
    BY <1>11 DEF ConnectionFails, mainVars
  <2>2. /\ pendingBar' = SubSeq(pendingBar, 1, Len(m_incoming_messages))
        /\ Len(m_incoming_messages) \in 0 .. Len(pendingBar)
    BY <1>1, <2>1, ConcatSimplifications, ConcatProperties DEF pendingBar
  <2>. QED BY <2>1, <2>2 DEF Channel!ChannelNext, Channel!Lost, Waiting, pendingBar
<1>12. CASE ClearQueues
  <2>1. UNCHANGED <<handled, main>> /\ m_incoming_messages' = <<>> /\ fromServer' = <<>>
    BY <1>12 DEF ClearQueues, Cleared, mainVars, socketVars, ThreadsInv, ConnectedInv, Running
  <2>2. pendingBar' = SubSeq(pendingBar, 1, 0) /\ 0 \in 0 .. Len(pendingBar)
    BY <1>1, <2>1, ConcatProperties DEF pendingBar
  <2>. QED BY <2>1, <2>2 DEF Channel!ChannelNext, Channel!Lost, Waiting, pendingBar
<1>13. ASSUME NEW s \in BOOLEAN, ServerSends(s)
       PROVE  Channel!ChannelNext \/ UNCHANGED <<pendingBar, handled, Waiting>>
  <2>1. UNCHANGED <<m_incoming_messages, handled, main>>
    BY <1>13 DEF ServerSends, mainVars, netVars
  <2>2. CASE Running
    <3>1. fromServer' = Append(fromServer, ServerMessage(s)) /\ ServerMessage(s) \in Incoming
      BY <1>13, <2>2 DEF ServerSends, ServerMessage, Incoming, ThreadsInv, Numbers
    <3>2. /\ Len(pendingBar') = Len(pendingBar) + 1
          /\ SubSeq(pendingBar', 1, Len(pendingBar)) = pendingBar
      BY <1>1, <2>1, <3>1, DeliveredConcat DEF pendingBar
    <3>. QED BY <2>1, <3>2 DEF Channel!ChannelNext, Channel!Delivered, Waiting, pendingBar
  <2>3. CASE ~Running
    <3>1. fromServer' = fromServer
      BY <1>13, <2>3 DEF ServerSends
    <3>. QED BY <1>2, <2>1, <3>1 DEF Waiting
  <2>. QED BY <2>2, <2>3
<1>14. CASE SpuriousWakeup \/ MessageAvailable \/ NoticeDisconnection
              \/ ConnectToServer \/ RunLeftTask \/ ConnectionRefused
  <2>1. /\ UNCHANGED <<m_incoming_messages, fromServer, handled>>
        /\ \/ main' = main
           \/ main = "asleep" /\ main' = "finding"
           \/ main \notin {"asleep", "finding"} /\ main' \notin {"asleep", "finding"}
    BY <1>14 DEF SpuriousWakeup, MessageAvailable, NoticeDisconnection, ConnectToServer,
                 RunLeftTask, ConnectionRefused, mainVars, socketVars, netVars
  <2>. QED BY <1>2, <2>1 DEF Waiting
<1>15. CASE \/ RunTask \/ Transmit \/ HandleMessageWrite \/ ThreadTerminates
            \/ ServerReads \/ ServerCloses \/ UNCHANGED threadVars
  <2>1. UNCHANGED <<m_incoming_messages, fromServer, handled, main>>
    BY <1>15 DEF RunTask, Transmit, HandleMessageWrite, ThreadTerminates, ServerReads,
                 ServerCloses, threadVars, mainVars, socketVars, netVars
  <2>. QED BY <1>2, <2>1 DEF Waiting
<1>. QED BY <1>4, <1>5, <1>6, <1>7, <1>8, <1>9, <1>10, <1>11, <1>12, <1>13, <1>14, <1>15
         DEF Next, NetworkingThread

(* The two threads, with every interleaving of their critical sections, give the rest   *)
(* of a client the channel of MessageChannel.                                           *)
THEOREM ThreadsImplementChannel == Spec => ImplementsChannel
BY ChannelInit, ChannelStep, ThreadsInvariant, PTL
   DEF Spec, ImplementsChannel, Channel!ChannelSpec
================================================================================
