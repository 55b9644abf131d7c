-------------------------- MODULE GameSessionProofs --------------------------
(***************************************************************************)
(* Proofs about the game session, for any set of players, any bounds and    *)
(* any choice of who may leave: type correctness, the life of the           *)
(* ProcessTurn event, the answers to a save, the refinement of the turn      *)
(* barrier, and the host: who it is, that it is connected, and that the       *)
(* server stops only when the game is over.                                  *)
(***************************************************************************)
EXTENDS GameSession, SequenceTheorems, FiniteSetTheorems, TLAPS

-----------------------------------------------------------------------------
(* Sequences.                                                                *)

(* What is taken out of a sequence leaves a sequence of the same elements.    *)
LEMMA Deletion ==
    ASSUME NEW S, NEW s \in Seq(S), NEW i \in DOMAIN s
    PROVE  SubSeq(s, 1, i - 1) \o SubSeq(s, i + 1, Len(s)) \in Seq(S)
<1>1. i \in 1 .. Len(s) /\ Len(s) \in Nat
  BY LenProperties
<1>2. SubSeq(s, 1, i - 1) \in Seq(S)
  <2>1. \A k \in 1 .. i - 1 : s[k] \in S
    BY <1>1, ElementOfSeq
  <2>. QED BY <1>1, <2>1, SubSeqProperties
<1>3. SubSeq(s, i + 1, Len(s)) \in Seq(S)
  <2>1. \A k \in i + 1 .. Len(s) : s[k] \in S
    BY <1>1, ElementOfSeq
  <2>. QED BY <1>1, <2>1, SubSeqProperties
<1>. QED BY <1>2, <1>3, ConcatProperties

(* A prefix.                                                                  *)
LEMMA Prefix ==
    ASSUME NEW S, NEW s \in Seq(S), NEW n \in 0 .. Len(s)
    PROVE  SubSeq(s, 1, n) \in Seq(S)
<1>1. Len(s) \in Nat
  BY LenProperties
<1>2. \A k \in 1 .. n : s[k] \in S
  BY <1>1, ElementOfSeq
<1>. QED BY <1>1, <1>2, SubSeqProperties

-----------------------------------------------------------------------------
(* Type correctness.                                                         *)

LEMMA TypeInit == Init => TypeOK
<1>. SUFFICES ASSUME Init PROVE TypeOK
  OBVIOUS
<1>. USE DEF Init, ServerInit, ClientInit
<1>1. NullOrders \in TurnEntries
  BY DEF NullOrders, TurnEntries, OrderSets
<1>2. [type |-> "TURN_UPDATE", turn |-> 1] \in ClientMessages
  BY DEF ClientMessages
<1>3. /\ eventQueue \in Seq(Events)
      /\ deferredEvents \in Seq(EventsFrom(DeferredTypes, Players))
      /\ toClient \in [Players -> Seq(ClientMessages)]
      /\ toServer \in ServerChannels
  <2>1. toServer \in ServerChannels
    <3>1. \A p \in Players : toServer[p] = <<>>
      OBVIOUS
    <3>2. /\ toServer \in [Players -> Seq(EventsFrom(ReceivedTypes, Players))]
          /\ \A p \in Players : <<>> \in Seq(EventsFrom(ReceivedTypes, {p}))
      OBVIOUS
    <3>. QED BY <3>1, <3>2 DEF ServerChannels
  <2>. QED BY <1>2, <2>1
<1>4. /\ saveFile \in [turn : Nat, data : Seq(SaveEntries)]
      /\ m_player_save_game_data \in Seq(SaveEntries)
  OBVIOUS
<1>5. m_host_player_id \in Players
  BY DEF HostCandidates
<1>6. /\ m_turn_sequence \in [Empires -> TurnEntries]
      /\ executed \in [Empires -> OrderSets]
      /\ m_orders \in [Players -> OrderSets]
  BY <1>1 DEF OrderSets
<1>. QED BY <1>3, <1>4, <1>5, <1>6 DEF TypeOK

(* What the sending operators and the queue operators keep.                   *)
LEMMA SendToTyped ==
    ASSUME TypeOK, NEW ps, NEW ms \in Seq(ClientMessages), SendTo(ps, ms)
    PROVE  toClient' \in [Players -> Seq(ClientMessages)]
BY DEF TypeOK, SendTo

LEMMA PlayerStatusTyped ==
    ASSUME NEW ps \in SUBSET AIs, NEW w \in BOOLEAN
    PROVE  PlayerStatus(ps, w) \in Seq(ClientMessages)
<1>1. [type |-> "PLAYER_STATUS", players |-> ps, waiting |-> w]
         \in [type : {"PLAYER_STATUS"}, players : SUBSET AIs, waiting : BOOLEAN]
  OBVIOUS
<1>2. [type |-> "PLAYER_STATUS", players |-> ps, waiting |-> w] \in ClientMessages
  BY <1>1, Zenon DEF ClientMessages
<1>. QED BY <1>2 DEF PlayerStatus

LEMMA ChannelTyped ==
    ASSUME NEW f \in ServerChannels, NEW p \in Players
    PROVE  /\ f[p] \in Seq(EventsFrom(ReceivedTypes, {p}))
           /\ \A s \in Seq(EventsFrom(ReceivedTypes, {p})) :
                 [f EXCEPT ![p] = s] \in ServerChannels
<1>1. Seq(EventsFrom(ReceivedTypes, {p})) \subseteq Seq(EventsFrom(ReceivedTypes, Players))
  <2>1. EventsFrom(ReceivedTypes, {p}) \subseteq EventsFrom(ReceivedTypes, Players)
    BY DEF EventsFrom
  <2>. QED BY <2>1, SeqMonotonic
<1>. QED BY <1>1 DEF ServerChannels

LEMMA SendTyped ==
    ASSUME TypeOK, NEW p \in Players, NEW es \in Seq(EventsFrom(ReceivedTypes, {p})), Send(p, es)
    PROVE  toServer' \in ServerChannels
<1>1. toServer[p] \o es \in Seq(EventsFrom(ReceivedTypes, {p}))
  BY ChannelTyped, ConcatProperties DEF TypeOK
<1>. QED BY <1>1, ChannelTyped DEF TypeOK, Send

LEMMA PostedTyped ==
    ASSUME NEW type \in PostedTypes
    PROVE  Posted(type) \in Events
BY DEF Posted, Event, Events, EventsFrom, OrderSets

LEMMA CurrentTyped ==
    ASSUME TypeOK, eventQueue # <<>>
    PROVE  /\ Current \in Events
           /\ Tail(eventQueue) \in Seq(Events)
           /\ Current.turns \in OrderSets
           /\ Current.type \in ReceivedTypes =>
                 Current \in EventsFrom(ReceivedTypes, Players) /\ Current.player \in Players
<1>1. Current \in Events /\ Tail(eventQueue) \in Seq(Events)
  BY HeadTailProperties DEF TypeOK, Current
<1>2. ReceivedTypes \cap PostedTypes = {}
  BY DEF ReceivedTypes, PostedTypes, DeferredTypes
<1>. QED BY <1>1, <1>2 DEF Events, EventsFrom

LEMMA DiscardTyped ==
    ASSUME TypeOK, eventQueue # <<>>
    PROVE  /\ Discard => eventQueue' \in Seq(Events)
           /\ \A type \in PostedTypes : Post(type) => eventQueue' \in Seq(Events)
BY CurrentTyped, PostedTyped DEF Discard, Post

LEMMA LeaveDeferringTyped ==
    ASSUME TypeOK, eventQueue # <<>>, NEW posted \in Seq(Events), LeaveDeferring(posted)
    PROVE  /\ eventQueue' \in Seq(Events)
           /\ deferredEvents' \in Seq(EventsFrom(DeferredTypes, Players))
<1>1. deferredEvents \in Seq(Events)
  BY SeqMonotonic DEF TypeOK, Events, EventsFrom, ReceivedTypes
<1>. QED BY <1>1, CurrentTyped DEF LeaveDeferring

(* Sending to players, some of whom may be gone: the reaction reaches its next   *)
(* state, or it is the server's last.                                          *)
LEMMA WrittenOutcome ==
    ASSUME NEW ps, NEW reached, NEW next, Written(ps, reached, next)
    PROVE  /\ reached \subseteq ps
           /\ fsm' \in {next, "Exited"}
           /\ m_player_connections' \in {m_player_connections, {}}
           /\ fsm' # "Exited" =>
                 fsm' = next /\ UNCHANGED m_player_connections /\ reached = ps
           /\ fsm' = "Exited" => m_player_connections' = {}
           /\ fsm' = "Exited" =>
                 next = "Exited" \/ \E p \in ps : clientState[p] = "Left"
BY DEF Written, Exit

LEMMA ErrorsWrittenOutcome ==
    ASSUME NEW ps, NEW next, ErrorsWritten(ps, next)
    PROVE  /\ fsm' \in {next, "Exited"}
           /\ m_player_connections' \in {m_player_connections, {}}
           /\ fsm' # "Exited" => UNCHANGED m_player_connections
           /\ fsm' = "Exited" => m_player_connections' = {}
           /\ fsm' = "Exited" =>
                 next = "Exited" \/ \E p \in ps : clientState[p] = "Left"
BY WrittenOutcome DEF ErrorsWritten

(* The state a reaction goes on to, unless it is the server's last.             *)
LEMMA GoesOn ==
    ASSUME fsm' # "Exited"
    PROVE  /\ \A c : RejectTurnOrders(c) \/ StoreTurnOrders(c) =>
                       UNCHANGED <<fsm, m_player_connections>>
           /\ ProcessTurn => /\ fsm' = "WaitingForTurnEndIdle"
                             /\ UNCHANGED m_player_connections
           /\ SaveGameRequest \/ ClientSaveData =>
                  /\ fsm' \in {"WaitingForTurnEndIdle", "WaitingForSaveData"}
                  /\ UNCHANGED m_player_connections
           /\ HandleShutdownMessage \/ HandleNonLobbyDisconnection =>
                  UNCHANGED <<fsm, m_player_connections>>
<1>1. \A c : RejectTurnOrders(c) => UNCHANGED <<fsm, m_player_connections>>
  BY ErrorsWrittenOutcome DEF RejectTurnOrders
<1>2. \A c : StoreTurnOrders(c) => UNCHANGED <<fsm, m_player_connections>>
  BY WrittenOutcome DEF StoreTurnOrders
<1>3. ProcessTurn => /\ fsm' = "WaitingForTurnEndIdle"
                     /\ UNCHANGED m_player_connections
  BY WrittenOutcome DEF ProcessTurn
<1>4. SaveGameRequest => /\ fsm' \in {"WaitingForTurnEndIdle", "WaitingForSaveData"}
                         /\ UNCHANGED m_player_connections
  BY WrittenOutcome DEF SaveGameRequest
<1>5. ClientSaveData => /\ fsm' \in {"WaitingForTurnEndIdle", "WaitingForSaveData"}
                        /\ UNCHANGED m_player_connections
  BY ErrorsWrittenOutcome DEF ClientSaveData
<1>6. HandleShutdownMessage => UNCHANGED <<fsm, m_player_connections>>
  BY DEF HandleShutdownMessage, Exit
<1>7. HandleNonLobbyDisconnection => UNCHANGED <<fsm, m_player_connections>>
  <2>1. StateAfterLoss # "Exited" => StateAfterLoss = fsm
    BY DEF StateAfterLoss
  <2>. QED BY <2>1, WrittenOutcome DEF HandleNonLobbyDisconnection
<1>. QED BY <1>1, <1>2, <1>3, <1>4, <1>5, <1>6, <1>7

(* The connections stay what they are, unless the reaction is the last.          *)
LEMMA ReactionConnections ==
    ASSUME React
    PROVE  /\ fsm' # "Exited" => UNCHANGED m_player_connections
           /\ fsm' = "Exited" => m_player_connections' = {}
<1>1. CASE fsm' # "Exited"
  BY <1>1, GoesOn
     DEF React, Deferred, TurnOrders, ModeratorEndsTurn, CheckTurnEndConditions,
         UnconsumedSaveData, DropCheck
<1>2. CASE fsm' = "Exited"
  <2>1. fsm # "Exited"
    BY DEF React, HandleShutdownMessage, Deferred, TurnOrders, CheckTurnEndConditions,
           ProcessTurn, SaveGameRequest, ClientSaveData, UnconsumedSaveData, DropCheck,
           HandleNonLobbyDisconnection, Dispatching
  <2>2. HandleShutdownMessage => m_player_connections' = {}
    BY <1>2, <2>1 DEF HandleShutdownMessage, Exit
  <2>3. TurnOrders => m_player_connections' = {}
    BY <1>2, <2>1, WrittenOutcome, ErrorsWrittenOutcome
       DEF TurnOrders, RejectTurnOrders, ModeratorEndsTurn, StoreTurnOrders
  <2>4. ProcessTurn => m_player_connections' = {}
    BY <1>2, WrittenOutcome DEF ProcessTurn
  <2>5. SaveGameRequest => m_player_connections' = {}
    BY <1>2, <2>1, WrittenOutcome DEF SaveGameRequest
  <2>6. ClientSaveData => m_player_connections' = {}
    BY <1>2, <2>1, ErrorsWrittenOutcome DEF ClientSaveData
  <2>7. HandleNonLobbyDisconnection => m_player_connections' = {}
    BY <1>2, WrittenOutcome DEF HandleNonLobbyDisconnection
  <2>. QED BY <1>2, <2>1, <2>2, <2>3, <2>4, <2>5, <2>6, <2>7
       DEF React, Deferred, CheckTurnEndConditions, UnconsumedSaveData, DropCheck
<1>. QED BY <1>1, <1>2

(* The steps of the server.                                                    *)
LEMMA ServerTypeStep == TypeOK /\ Server => TypeOK'
<1>. SUFFICES ASSUME TypeOK, Server PROVE TypeOK'
  OBVIOUS
<1>. USE DEF Dispatching
<1>1. ASSUME NEW p \in Players, ReadFrom(p) PROVE TypeOK'
  <2>1. /\ Head(toServer[p]) \in EventsFrom(ReceivedTypes, {p})
        /\ Tail(toServer[p]) \in Seq(EventsFrom(ReceivedTypes, {p}))
    BY <1>1, ChannelTyped, HeadTailProperties DEF ReadFrom, TypeOK
  <2>2. eventQueue' \in Seq(Events)
    <3>1. Head(toServer[p]) \in Events
      BY <2>1 DEF Events, EventsFrom
    <3>. QED BY <1>1, <3>1 DEF ReadFrom
  <2>3. toServer' \in ServerChannels
    BY <1>1, <2>1, ChannelTyped DEF ReadFrom, TypeOK
  <2>4. m_player_connections' \subseteq Players
    BY <1>1 DEF ReadFrom, TypeOK
  <2>. QED BY <1>1, <2>2, <2>3, <2>4 DEF ReadFrom, TypeOK, Server, clientVars
<1>2. CASE HandleShutdownMessage
  BY <1>2, DiscardTyped DEF HandleShutdownMessage, Exit, TypeOK, Server, clientVars
<1>3. CASE Deferred
  <2>1. [Current EXCEPT !.dangling = TRUE] \in EventsFrom(DeferredTypes, Players)
    BY <1>3, CurrentTyped DEF Deferred, EventsFrom, ReceivedTypes
  <2>2. deferredEvents' \in Seq(EventsFrom(DeferredTypes, Players))
    BY <1>3, <2>1 DEF Deferred, KeptEvents, TypeOK
  <2>3. eventQueue' \in Seq(Events)
    BY <1>3, DiscardTyped DEF Deferred
  <2>. QED BY <1>3, <2>2, <2>3 DEF Deferred, TypeOK, Server, clientVars
<1>4. CASE TurnOrders
  <2>1. PICK c \in ConnectionOf(Current) :
            RejectTurnOrders(c) \/ ModeratorEndsTurn(c) \/ StoreTurnOrders(c)
    BY <1>4 DEF TurnOrders
  <2>2. eventQueue' \in Seq(Events)
    BY <1>4, <2>1, DiscardTyped
       DEF TurnOrders, RejectTurnOrders, ModeratorEndsTurn, StoreTurnOrders, PostedTypes
  <2>3. m_turn_sequence' \in [Empires -> TurnEntries]
    <3>1. [got |-> TRUE, turns |-> Current.turns] \in TurnEntries
      BY <1>4, CurrentTyped DEF TurnOrders, TurnEntries
    <3>. QED BY <2>1, <3>1 DEF RejectTurnOrders, ModeratorEndsTurn, StoreTurnOrders, TypeOK
  <2>4. toClient' \in [Players -> Seq(ClientMessages)]
    <3>1. PlayerStatus({Current.player} \cap AIs, TRUE) \in Seq(ClientMessages)
      BY PlayerStatusTyped
    <3>. QED BY <2>1, <3>1, SendToTyped
         DEF RejectTurnOrders, ModeratorEndsTurn, StoreTurnOrders, TypeOK
  <2>5. /\ fsm' \in {"WaitingForTurnEndIdle", "ProcessingTurn", "Exited"}
        /\ m_player_connections' \subseteq Players
    <3>1. fsm = "WaitingForTurnEndIdle" /\ m_player_connections \subseteq Players
      BY <1>4 DEF TurnOrders, TypeOK
    <3>2. CASE RejectTurnOrders(c)
      <4>1. ErrorsWritten({Current.player} \cap m_player_connections, fsm)
        BY <3>2 DEF RejectTurnOrders
      <4>. QED BY <3>1, <4>1, ErrorsWrittenOutcome
    <3>3. CASE ModeratorEndsTurn(c)
      BY <3>1, <3>3 DEF ModeratorEndsTurn
    <3>4. CASE StoreTurnOrders(c)
      <4>1. PICK reached : Written(m_player_connections, reached, fsm)
        BY <3>4 DEF StoreTurnOrders
      <4>. QED BY <3>1, <4>1, WrittenOutcome
    <3>. QED BY <2>1, <3>2, <3>3, <3>4
  <2>. QED BY <1>4, <2>2, <2>3, <2>4, <2>5 DEF TurnOrders, TypeOK, Server, clientVars
<1>5. CASE CheckTurnEndConditions
  <2>1. <<Posted("ProcessTurn")>> \in Seq(Events)
    BY PostedTyped DEF PostedTypes
  <2>2. /\ eventQueue' \in Seq(Events)
        /\ deferredEvents' \in Seq(EventsFrom(DeferredTypes, Players))
    BY <1>5, <2>1, DiscardTyped, LeaveDeferringTyped DEF CheckTurnEndConditions, EventsEndingTurn, TypeOK
  <2>. QED BY <1>5, <2>2 DEF CheckTurnEndConditions, TypeOK, Server, clientVars
<1>6. CASE ProcessTurn
  <2>1. NullOrders \in TurnEntries
    BY DEF NullOrders, TurnEntries, OrderSets
  <2>2. m_turn_sequence' \in [Empires -> TurnEntries]
    BY <1>6, <2>1 DEF ProcessTurn, ClearedTurnOrders
  <2>3. executed' \in [Empires -> OrderSets]
    BY <1>6 DEF ProcessTurn, TypeOK, TurnEntries
  <2>4. m_current_turn' \in Nat
    BY <1>6 DEF ProcessTurn, TypeOK
  <2>5. /\ eventQueue' \in Seq(Events)
        /\ deferredEvents' \in Seq(EventsFrom(DeferredTypes, Players))
    <3>1. <<>> \in Seq(Events)
      OBVIOUS
    <3>. QED BY <1>6, <3>1, LeaveDeferringTyped DEF ProcessTurn
  <2>6. toClient' \in [Players -> Seq(ClientMessages)]
    <3>1. << [type |-> "TURN_UPDATE", turn |-> m_current_turn'] >> \in Seq(ClientMessages)
      BY <2>4 DEF ClientMessages
    <3>2. PlayerStatus(m_player_connections \cap AIs, FALSE) \in Seq(ClientMessages)
      BY PlayerStatusTyped
    <3>3. << [type |-> "TURN_UPDATE", turn |-> m_current_turn'] >>
            \o PlayerStatus(m_player_connections \cap AIs, FALSE) \in Seq(ClientMessages)
      BY <3>1, <3>2, ConcatProperties
    <3>. QED BY <1>6, <3>3, SendToTyped DEF ProcessTurn
  <2>7. /\ fsm' \in {"WaitingForTurnEndIdle", "Exited"}
        /\ m_player_connections' \subseteq Players
    BY <1>6, WrittenOutcome DEF ProcessTurn, TypeOK
  <2>. QED BY <1>6, <2>2, <2>3, <2>4, <2>5, <2>6, <2>7 DEF ProcessTurn, TypeOK, Server, clientVars
<1>7. CASE SaveGameRequest
  <2>1. \A p : SaveGameMessage(p) \in ClientMessages
    BY DEF SaveGameMessage, ClientMessages, PlayerIsHost
  <2>2. toClient' \in [Players -> Seq(ClientMessages)]
    <3>1. \A p \in Players : Append(toClient[p], SaveGameMessage(p)) \in Seq(ClientMessages)
      BY <2>1 DEF TypeOK
    <3>2. \A ps : [p \in Players |-> IF p \in ps
                                     THEN Append(toClient[p], SaveGameMessage(p))
                                     ELSE toClient[p]] \in [Players -> Seq(ClientMessages)]
      BY <3>1 DEF TypeOK
    <3>3. \/ UNCHANGED toClient
          \/ \E ps : toClient' = [p \in Players |-> IF p \in ps
                                                   THEN Append(toClient[p], SaveGameMessage(p))
                                                   ELSE toClient[p]]
      BY <1>7 DEF SaveGameRequest
    <3>4. CASE UNCHANGED toClient
      BY <3>4 DEF TypeOK
    <3>. QED BY <3>2, <3>3, <3>4
  <2>3. eventQueue' \in Seq(Events)
    BY <1>7, DiscardTyped DEF SaveGameRequest
  <2>4. /\ fsm' \in {"WaitingForTurnEndIdle", "WaitingForSaveData", "Exited"}
        /\ m_player_connections' \subseteq Players
        /\ m_needed_reponses' \subseteq Players
        /\ m_players_responded' \subseteq Players
        /\ m_player_save_game_data' \in Seq(SaveEntries)
    <3>1. <<>> \in Seq(SaveEntries)
      OBVIOUS
    <3>2. \/ UNCHANGED <<fsm, m_player_connections>>
          \/ \E reached : Written(m_player_connections, reached, "WaitingForSaveData")
      BY <1>7 DEF SaveGameRequest
    <3>3. fsm = "WaitingForTurnEndIdle" /\ m_player_connections \subseteq Players
      BY <1>7 DEF SaveGameRequest, TypeOK
    <3>4. /\ fsm' \in {"WaitingForTurnEndIdle", "WaitingForSaveData", "Exited"}
          /\ m_player_connections' \subseteq Players
      BY <3>2, <3>3, WrittenOutcome
    <3>. QED BY <1>7, <3>1, <3>4 DEF SaveGameRequest, PlayersAsked, TypeOK
  <2>. QED BY <1>7, <2>2, <2>3, <2>4 DEF SaveGameRequest, TypeOK, Server, clientVars
<1>8. CASE ClientSaveData
  <2>1. /\ Current.player \in Players
        /\ Current.turns \in OrderSets
    BY <1>8, CurrentTyped DEF ClientSaveData, ReceivedTypes
  <2>2. SaveEntry(Current.player, Current.turns) \in SaveEntries
    BY <2>1 DEF SaveEntry, SaveEntries, TypeOK, TurnEntries
  <2>3. m_player_save_game_data' \in Seq(SaveEntries)
    BY <1>8, <2>2 DEF ClientSaveData, TypeOK
  <2>4. saveFile' \in [turn : Nat, data : Seq(SaveEntries)]
    <3>1. [turn |-> m_current_turn, data |-> m_player_save_game_data']
            \in [turn : Nat, data : Seq(SaveEntries)]
      BY <2>3 DEF TypeOK
    <3>. QED BY <1>8, <3>1 DEF ClientSaveData, TypeOK
  <2>5. /\ eventQueue' \in Seq(Events)
        /\ deferredEvents' \in Seq(EventsFrom(DeferredTypes, Players))
    <3>1. <<>> \in Seq(Events)
      OBVIOUS
    <3>2. (Discard /\ UNCHANGED deferredEvents) \/ LeaveDeferring(<<>>)
      BY <1>8 DEF ClientSaveData
    <3>. QED BY <1>8, <3>1, <3>2, DiscardTyped, LeaveDeferringTyped DEF ClientSaveData, TypeOK
  <2>6. /\ fsm' \in {"WaitingForTurnEndIdle", "WaitingForSaveData", "Exited"}
        /\ m_player_connections' \subseteq Players
    BY <1>8, ErrorsWrittenOutcome DEF ClientSaveData, TypeOK
  <2>. QED BY <1>8, <2>1, <2>3, <2>4, <2>5, <2>6 DEF ClientSaveData, TypeOK, Server, clientVars
<1>9. CASE UnconsumedSaveData
  BY <1>9, DiscardTyped DEF UnconsumedSaveData, TypeOK, Server, clientVars
<1>10. CASE DropCheck
  BY <1>10, DiscardTyped DEF DropCheck, TypeOK, Server, clientVars
<1>11. CASE HandleNonLobbyDisconnection
  <2>1. m_host_player_id' \in Players \cup {NoPlayer}
    BY <1>11 DEF HandleNonLobbyDisconnection, SelectNewHost, HostCandidates, TypeOK
  <2>2. toClient' \in [Players -> Seq(ClientMessages)]
    <3>1. /\ << [type |-> "END_GAME"] >> \in Seq(ClientMessages)
          /\ << [type |-> "HOST_ID", host |-> m_host_player_id'] >> \in Seq(ClientMessages)
      BY <2>1 DEF ClientMessages
    <3>. QED BY <1>11, <3>1, SendToTyped
         DEF HandleNonLobbyDisconnection, SelectNewHost, TypeOK
  <2>3. eventQueue' \in Seq(Events)
    BY <1>11, DiscardTyped DEF HandleNonLobbyDisconnection
  <2>4. /\ fsm' \in {fsm, "Exited"}
        /\ m_player_connections' \subseteq Players
    <3>1. StateAfterLoss \in {fsm, "Exited"}
      BY DEF StateAfterLoss
    <3>. QED BY <1>11, <3>1, WrittenOutcome DEF HandleNonLobbyDisconnection, TypeOK
  <2>. QED BY <1>11, <2>1, <2>2, <2>3, <2>4
       DEF HandleNonLobbyDisconnection, TypeOK, Server, clientVars
<1>. QED BY <1>1, <1>2, <1>3, <1>4, <1>5, <1>6, <1>7, <1>8, <1>9, <1>10, <1>11
     DEF Server, ServerNext, React

(* The messages of a client, by their type.                                     *)
LEMMA NextMessageTyped ==
    ASSUME TypeOK, NEW p \in Players, NEW type, NextMessage(p, type)
    PROVE  /\ Head(toClient[p]) \in ClientMessages
           /\ Head(toClient[p]).type = type
           /\ type = "TURN_UPDATE" => Head(toClient[p]).turn \in Nat
           /\ type = "PLAYER_STATUS" => Head(toClient[p]).players \in SUBSET AIs
           /\ Take(p) => toClient' \in [Players -> Seq(ClientMessages)]
<1>1. /\ Head(toClient[p]) \in ClientMessages
      /\ Tail(toClient[p]) \in Seq(ClientMessages)
      /\ Head(toClient[p]).type = type
  BY HeadTailProperties DEF NextMessage, TypeOK
<1>2. Take(p) => toClient' \in [Players -> Seq(ClientMessages)]
  BY <1>1 DEF Take, TypeOK
<1>3. /\ type = "TURN_UPDATE" => Head(toClient[p]).turn \in Nat
      /\ type = "PLAYER_STATUS" => Head(toClient[p]).players \in SUBSET AIs
  BY <1>1 DEF ClientMessages
<1>. QED BY <1>1, <1>2, <1>3

LEMMA ReceivedTyped ==
    ASSUME NEW type \in ReceivedTypes, NEW p \in Players, NEW turns \in OrderSets
    PROVE  Event(type, p, turns) \in EventsFrom(ReceivedTypes, {p})
BY DEF Event, EventsFrom

LEMMA GoodbyeTyped ==
    ASSUME NEW p \in Players
    PROVE  /\ Event("Disconnection", p, {}) \in EventsFrom(ReceivedTypes, {p})
           /\ Goodbye(p) \in Seq(EventsFrom(ReceivedTypes, {p}))
<1>1. /\ Event("Disconnection", p, {}) \in EventsFrom(ReceivedTypes, {p})
      /\ Event("Shutdown", p, {}) \in EventsFrom(ReceivedTypes, {p})
  BY ReceivedTyped DEF ReceivedTypes, OrderSets
<1>2. /\ <<Event("Disconnection", p, {})>> \in Seq(EventsFrom(ReceivedTypes, {p}))
      /\ <<Event("Shutdown", p, {})>> \in Seq(EventsFrom(ReceivedTypes, {p}))
      /\ <<>> \in Seq(EventsFrom(ReceivedTypes, {p}))
  BY <1>1
<1>. QED BY <1>1, <1>2, ConcatProperties DEF Goodbye

LEMMA LeaveTyped ==
    ASSUME TypeOK, NEW p \in Players, Leave(p),
           toClient' \in [Players -> Seq(ClientMessages)],
           toServer' \in ServerChannels
    PROVE  TypeOK'
BY DEF Leave, TypeOK, serverVars

(* The steps of the clients.                                                    *)
LEMMA ClientTypeStep ==
    ASSUME TypeOK, NEW p \in Players, ClientNext(p)
    PROVE  TypeOK'
<1>1. SaveData(p) \in EventsFrom(ReceivedTypes, {p})
  BY ReceivedTyped DEF SaveData, ReceivedTypes, TypeOK
<1>2. CASE IssueOrder(p)
  <2>1. m_orders' \in [Players -> OrderSets]
    BY <1>2 DEF IssueOrder, TypeOK, OrderSets
  <2>. QED BY <1>2, <2>1 DEF IssueOrder, TypeOK, serverVars
<1>3. CASE EndTurn(p)
  <2>1. <<Event("TurnOrders", p, m_orders[p])>> \in Seq(EventsFrom(ReceivedTypes, {p}))
    <3>1. m_orders[p] \in OrderSets
      BY DEF TypeOK
    <3>2. Event("TurnOrders", p, m_orders[p]) \in EventsFrom(ReceivedTypes, {p})
      BY <3>1, ReceivedTyped DEF ReceivedTypes, DeferredTypes
    <3>. QED BY <3>2
  <2>2. toServer' \in ServerChannels
    BY <1>3, <2>1, SendTyped DEF EndTurn
  <2>3. m_orders' \in [Players -> OrderSets]
    BY <1>3 DEF EndTurn, TypeOK, OrderSets
  <2>. QED BY <1>3, <2>2, <2>3 DEF EndTurn, TypeOK, serverVars
<1>4. CASE MenuSave(p)
  <2>1. <<Event("SaveGameRequest", p, {})>> \in Seq(EventsFrom(ReceivedTypes, {p}))
    BY ReceivedTyped DEF ReceivedTypes, DeferredTypes, OrderSets
  <2>2. toServer' \in ServerChannels
    BY <1>4, <2>1, SendTyped DEF MenuSave
  <2>3. blocked' \in [Players -> BOOLEAN] /\ menuSaves' \in Nat
    BY <1>4 DEF MenuSave, TypeOK
  <2>. QED BY <1>4, <2>2, <2>3 DEF MenuSave, TypeOK, serverVars
<1>5. CASE Quit(p)
  BY <1>5, GoodbyeTyped, SendTyped, LeaveTyped DEF Quit, TypeOK
<1>6. CASE Crash(p)
  <2>1. PICK n \in 0 .. Len(toServer[p]), noticed \in {<<>>, <<Event("Disconnection", p, {})>>} :
          toServer' = [toServer EXCEPT ![p] = SubSeq(@, 1, n) \o noticed]
    BY <1>6 DEF Crash
  <2>2. SubSeq(toServer[p], 1, n) \o noticed \in Seq(EventsFrom(ReceivedTypes, {p}))
    <3>1. toServer[p] \in Seq(EventsFrom(ReceivedTypes, {p}))
      BY ChannelTyped DEF TypeOK
    <3>2. SubSeq(toServer[p], 1, n) \in Seq(EventsFrom(ReceivedTypes, {p}))
      BY <3>1, Prefix
    <3>3. noticed \in Seq(EventsFrom(ReceivedTypes, {p}))
      <4>1. /\ <<>> \in Seq(EventsFrom(ReceivedTypes, {p}))
            /\ <<Event("Disconnection", p, {})>> \in Seq(EventsFrom(ReceivedTypes, {p}))
        BY GoodbyeTyped
      <4>. QED BY <4>1
    <3>. QED BY <3>2, <3>3, ConcatProperties
  <2>3. toServer' \in ServerChannels
    BY <2>1, <2>2, ChannelTyped DEF TypeOK
  <2>. QED BY <1>6, <2>3, LeaveTyped DEF Crash, TypeOK
<1>7. CASE StartTurn(p)
  <2>1. Head(toClient[p]).turn \in Nat /\ toClient' \in [Players -> Seq(ClientMessages)]
    BY <1>7, NextMessageTyped DEF StartTurn
  <2>2. <<Event("SaveGameRequest", p, {})>> \in Seq(EventsFrom(ReceivedTypes, {p}))
    BY ReceivedTyped DEF ReceivedTypes, DeferredTypes, OrderSets
  <2>3. toServer' \in ServerChannels
    BY <1>7, <2>2, SendTyped DEF StartTurn, TypeOK
  <2>4. clientTurn' \in [Players -> Nat]
    BY <1>7, <2>1 DEF StartTurn, TypeOK
  <2>5. clientState' \in [Players -> {"WaitingForTurnData", "PlayingTurn", "Left"}]
    BY <1>7 DEF StartTurn, TypeOK
  <2>6. blocked' \in [Players -> BOOLEAN]
    BY <1>7 DEF StartTurn, TypeOK
  <2>. QED BY <1>7, <2>1, <2>3, <2>4, <2>5, <2>6 DEF StartTurn, TypeOK, serverVars
<1>8. CASE ReceiveResponse(p)
  <2>1. PICK i \in DOMAIN toClient[p] :
          toClient' = [toClient EXCEPT
                ![p] = SubSeq(@, 1, i - 1) \o SubSeq(@, i + 1, Len(@))]
    BY <1>8 DEF ReceiveResponse
  <2>2. toClient' \in [Players -> Seq(ClientMessages)]
    BY <2>1, Deletion DEF TypeOK
  <2>3. toServer' \in ServerChannels
    <3>1. <<SaveData(p)>> \in Seq(EventsFrom(ReceivedTypes, {p}))
      BY <1>1
    <3>. QED BY <1>8, <3>1, SendTyped DEF ReceiveResponse
  <2>4. blocked' \in [Players -> BOOLEAN]
    BY <1>8 DEF ReceiveResponse, TypeOK
  <2>. QED BY <1>8, <2>2, <2>3, <2>4 DEF ReceiveResponse, TypeOK, serverVars
<1>9. CASE AnswerSaveGame(p)
  <2>1. toClient' \in [Players -> Seq(ClientMessages)]
    BY <1>9, NextMessageTyped DEF AnswerSaveGame
  <2>2. toServer' \in ServerChannels
    <3>1. <<SaveData(p)>> \in Seq(EventsFrom(ReceivedTypes, {p}))
      BY <1>1
    <3>2. Send(p, <<SaveData(p)>>)
      BY <1>9 DEF AnswerSaveGame
    <3>. QED BY <3>1, <3>2, SendTyped
  <2>. QED BY <1>9, <2>1, <2>2 DEF AnswerSaveGame, TypeOK, serverVars, clientVars
<1>10. CASE ReceiveHostID(p)
  <2>1. toClient' \in [Players -> Seq(ClientMessages)]
    BY <1>10, NextMessageTyped DEF ReceiveHostID
  <2>2. isHost' \in [Players -> BOOLEAN]
    BY <1>10 DEF ReceiveHostID, TypeOK
  <2>. QED BY <1>10, <2>1, <2>2 DEF ReceiveHostID, TypeOK, serverVars
<1>11. CASE ReceivePlayerStatus(p)
  <2>1. /\ toClient' \in [Players -> Seq(ClientMessages)]
        /\ Head(toClient[p]).players \in SUBSET AIs
    BY <1>11, NextMessageTyped DEF ReceivePlayerStatus
  <2>2. aisWaiting' \in [Players -> SUBSET AIs]
    BY <1>11, <2>1 DEF ReceivePlayerStatus, TypeOK
  <2>. QED BY <1>11, <2>1, <2>2 DEF ReceivePlayerStatus, TypeOK, serverVars
<1>12. CASE ReceiveEndGame(p)
  BY <1>12, NextMessageTyped, GoodbyeTyped, SendTyped, LeaveTyped DEF ReceiveEndGame
<1>13. CASE LoseServer(p)
  BY <1>13, LeaveTyped DEF LoseServer, TypeOK
<1>. QED BY <1>2, <1>3, <1>4, <1>5, <1>6, <1>7, <1>8, <1>9, <1>10, <1>11, <1>12, <1>13
     DEF ClientNext, Responds

LEMMA TypeStep == TypeOK /\ [Next]_vars => TypeOK'
<1>1. TypeOK /\ Next => TypeOK'
  BY ServerTypeStep, ClientTypeStep DEF Next
<1>2. TypeOK /\ UNCHANGED vars => TypeOK'
  BY DEF TypeOK, vars, serverVars, clientVars
<1>. QED BY <1>1, <1>2

(* Type correctness of the server, its queues, the connections and clients.     *)
THEOREM TypeCorrect == Spec => []TypeOK
BY TypeInit, TypeStep, PTL DEF Spec

-----------------------------------------------------------------------------
(* The ProcessTurn event. Whether a queue holds none, or exactly one.           *)

NoProcessTurn(s) == \A i \in DOMAIN s : s[i].type # "ProcessTurn"
OneProcessTurn(s) ==
    \E k \in DOMAIN s : /\ s[k].type = "ProcessTurn"
                        /\ \A i \in DOMAIN s : s[i].type = "ProcessTurn" => i = k

LEMMA PendingAsQueue ==
    ASSUME fsm # "Exited"
    PROVE  ProcessTurnPending <=>
              \/ fsm = "ProcessingTurn" /\ OneProcessTurn(eventQueue)
              \/ fsm # "ProcessingTurn" /\ NoProcessTurn(eventQueue)
BY DEF ProcessTurnPending, Queued, OneProcessTurn, NoProcessTurn

LEMMA TailOfQueue ==
    ASSUME NEW s \in Seq(Events), s # <<>>
    PROVE  /\ NoProcessTurn(s) => NoProcessTurn(Tail(s))
           /\ OneProcessTurn(s) /\ Head(s).type = "ProcessTurn" => NoProcessTurn(Tail(s))
           /\ OneProcessTurn(s) /\ Head(s).type # "ProcessTurn" => OneProcessTurn(Tail(s))
<1>1. /\ Len(s) \in Nat \ {0}
      /\ DOMAIN s = 1 .. Len(s)
      /\ Head(s) = s[1]
      /\ DOMAIN Tail(s) = 1 .. Len(s) - 1
      /\ \A i \in 1 .. Len(s) - 1 : Tail(s)[i] = s[i + 1]
  BY HeadTailProperties, LenProperties, EmptySeq
<1>2. NoProcessTurn(s) => NoProcessTurn(Tail(s))
  BY <1>1 DEF NoProcessTurn
<1>3. OneProcessTurn(s) /\ Head(s).type = "ProcessTurn" => NoProcessTurn(Tail(s))
  BY <1>1 DEF NoProcessTurn, OneProcessTurn
<1>4. ASSUME OneProcessTurn(s), Head(s).type # "ProcessTurn"
      PROVE  OneProcessTurn(Tail(s))
  <2>1. PICK k \in 1 .. Len(s) : /\ s[k].type = "ProcessTurn"
                                 /\ \A i \in 1 .. Len(s) : s[i].type = "ProcessTurn" => i = k
    BY <1>1, <1>4 DEF OneProcessTurn
  <2>2. k - 1 \in 1 .. Len(s) - 1 /\ Tail(s)[k - 1] = s[k]
    BY <1>1, <1>4, <2>1
  <2>3. \A i \in 1 .. Len(s) - 1 : Tail(s)[i].type = "ProcessTurn" => i = k - 1
    BY <1>1, <2>1
  <2>. QED BY <1>1, <2>1, <2>2, <2>3 DEF OneProcessTurn
<1>. QED BY <1>2, <1>3, <1>4

LEMMA ConcatOfQueues ==
    ASSUME NEW s \in Seq(Events), NEW t \in Seq(Events), NoProcessTurn(s), NoProcessTurn(t)
    PROVE  NoProcessTurn(s \o t)
<1>1. /\ DOMAIN s = 1 .. Len(s) /\ Len(s) \in Nat
      /\ DOMAIN t = 1 .. Len(t) /\ Len(t) \in Nat
      /\ DOMAIN (s \o t) = 1 .. Len(s) + Len(t)
      /\ \A i \in 1 .. Len(s) + Len(t) :
            (s \o t)[i] = IF i <= Len(s) THEN s[i] ELSE t[i - Len(s)]
  BY ConcatProperties, LenProperties
<1>. QED BY <1>1 DEF NoProcessTurn

LEMMA PostToQueue ==
    ASSUME NEW s \in Seq(Events), NoProcessTurn(s)
    PROVE  /\ OneProcessTurn(Append(s, Posted("ProcessTurn")))
           /\ NoProcessTurn(Append(s, Posted("CheckTurnEndConditions")))
<1>1. \A e \in Events : /\ DOMAIN Append(s, e) = 1 .. Len(s) + 1
                        /\ Append(s, e)[Len(s) + 1] = e
                        /\ \A i \in 1 .. Len(s) : Append(s, e)[i] = s[i]
  OBVIOUS
<1>2. /\ Posted("ProcessTurn") \in Events
      /\ Posted("ProcessTurn").type = "ProcessTurn"
      /\ Posted("CheckTurnEndConditions") \in Events
      /\ Posted("CheckTurnEndConditions").type = "CheckTurnEndConditions"
  BY PostedTyped DEF Posted, Event, PostedTypes
<1>3. DOMAIN s = 1 .. Len(s) /\ Len(s) \in Nat
  BY LenProperties
<1>. QED BY <1>1, <1>2, <1>3 DEF OneProcessTurn, NoProcessTurn

(* What is deferred is never a ProcessTurn event.                               *)
LEMMA DeferredQueue ==
    ASSUME TypeOK
    PROVE  deferredEvents \in Seq(Events) /\ NoProcessTurn(deferredEvents)
<1>1. deferredEvents \in Seq(Events)
  BY SeqMonotonic DEF TypeOK, Events, EventsFrom, ReceivedTypes
<1>2. \A i \in DOMAIN deferredEvents : deferredEvents[i] \in EventsFrom(DeferredTypes, Players)
  BY ElementOfSeq, LenProperties DEF TypeOK
<1>. QED BY <1>1, <1>2 DEF NoProcessTurn, EventsFrom, DeferredTypes

LEMMA PendingInit == Init => ProcessTurnPending
BY DEF Init, ServerInit, ProcessTurnPending, Queued

LEMMA PendingStep ==
    TypeOK /\ ProcessTurnPending /\ [Next]_vars => ProcessTurnPending'
<1>. SUFFICES ASSUME TypeOK, ProcessTurnPending, [Next]_vars PROVE ProcessTurnPending'
  OBVIOUS
<1>. DEFINE Good == \/ fsm = "ProcessingTurn" /\ OneProcessTurn(eventQueue)
                    \/ fsm # "ProcessingTurn" /\ NoProcessTurn(eventQueue)
<1>a. CASE fsm' = "Exited"
  BY <1>a DEF ProcessTurnPending
<1>b. CASE fsm' # "Exited" /\ UNCHANGED <<fsm, eventQueue>>
  BY <1>b DEF ProcessTurnPending, Queued
<1>c. CASE fsm' # "Exited" /\ Server
  <2>0. SUFFICES Good'
    BY <1>c, PendingAsQueue DEF ProcessTurnPending, Queued, OneProcessTurn, NoProcessTurn
  <2>. USE DEF Dispatching
  <2>1. fsm # "Exited"
    BY <1>c DEF Server, ServerNext, React, ReadFrom, HandleShutdownMessage, Deferred, TurnOrders,
                CheckTurnEndConditions, ProcessTurn, SaveGameRequest, ClientSaveData,
                UnconsumedSaveData, DropCheck, HandleNonLobbyDisconnection
  <2>2. Good
    BY <2>1, PendingAsQueue
  <2>3. eventQueue # <<>> => /\ NoProcessTurn(eventQueue) => NoProcessTurn(Tail(eventQueue))
                            /\ eventQueue \in Seq(Events)
                            /\ Tail(eventQueue) \in Seq(Events)
    BY TailOfQueue, CurrentTyped DEF TypeOK
  <2>4. ASSUME eventQueue # <<>>, Current.type # "ProcessTurn", Discard, fsm' = fsm
        PROVE  Good'
    BY <2>2, <2>4, TailOfQueue DEF Discard, Current, TypeOK
  <2>5. ASSUME NEW p \in Players, ReadFrom(p) PROVE Good'
    <3>1. Head(toServer[p]).type \in ReceivedTypes
      <4>1. Head(toServer[p]) \in EventsFrom(ReceivedTypes, {p})
        BY <2>5, ChannelTyped, HeadTailProperties DEF ReadFrom, TypeOK
      <4>. QED BY <4>1 DEF EventsFrom
    <3>2. NoProcessTurn(<<Head(toServer[p])>>)
      BY <3>1 DEF NoProcessTurn, ReceivedTypes, DeferredTypes
    <3>3. fsm # "ProcessingTurn"
      BY <2>2, <2>5 DEF ReadFrom, OneProcessTurn
    <3>. QED BY <2>5, <3>2, <3>3 DEF ReadFrom
  <2>6. CASE HandleShutdownMessage
    BY <1>c, <2>4, <2>6, GoesOn DEF HandleShutdownMessage
  <2>7. CASE Deferred
    BY <2>4, <2>7 DEF Deferred, DeferredTypes
  <2>8. CASE TurnOrders
    <3>1. PICK c \in ConnectionOf(Current) :
              RejectTurnOrders(c) \/ ModeratorEndsTurn(c) \/ StoreTurnOrders(c)
      BY <2>8 DEF TurnOrders
    <3>2. NoProcessTurn(Tail(eventQueue))
      BY <2>2, <2>3, <2>8 DEF TurnOrders
    <3>3. CASE RejectTurnOrders(c)
      BY <1>c, <2>4, <2>8, <3>3, GoesOn DEF TurnOrders, RejectTurnOrders
    <3>4. CASE ModeratorEndsTurn(c)
      BY <2>3, <2>8, <3>2, <3>4, PostToQueue DEF TurnOrders, ModeratorEndsTurn, Post
    <3>5. CASE StoreTurnOrders(c)
      <4>1. fsm' # "ProcessingTurn"
        BY <1>c, <2>8, <3>5, GoesOn DEF TurnOrders
      <4>. QED BY <2>3, <2>8, <3>2, <3>5, <4>1, PostToQueue
           DEF TurnOrders, StoreTurnOrders, Post
    <3>. QED BY <3>1, <3>3, <3>4, <3>5
  <2>9. CASE CheckTurnEndConditions
    <3>1. NoProcessTurn(Tail(eventQueue))
      BY <2>2, <2>3, <2>9 DEF CheckTurnEndConditions
    <3>2. CASE ~ModeratorsInGame /\ AllOrdersReceived
      <4>1. /\ deferredEvents \o Tail(eventQueue) \in Seq(Events)
            /\ NoProcessTurn(deferredEvents \o Tail(eventQueue))
        BY <2>3, <2>9, <3>1, DeferredQueue, ConcatOfQueues, ConcatProperties
           DEF CheckTurnEndConditions
      <4>2. eventQueue' = Append(deferredEvents \o Tail(eventQueue), Posted("ProcessTurn"))
        <5>. DEFINE given == deferredEvents \o Tail(eventQueue)
                    e == Posted("ProcessTurn")
        <5>1. eventQueue' = given \o <<e>>
          BY <2>9, <3>2 DEF CheckTurnEndConditions, EventsEndingTurn, LeaveDeferring
        <5>2. given \in Seq(Events)
          BY <4>1
        <5>3. given \o <<e>> = Append(given, e)
          <6>. HIDE DEF given, e
          <6>. QED BY <5>2
        <5>. QED BY <5>1, <5>3
      <4>3. fsm' = "ProcessingTurn"
        BY <2>9, <3>2 DEF CheckTurnEndConditions
      <4>. QED BY <4>1, <4>2, <4>3, PostToQueue
    <3>3. CASE ~(~ModeratorsInGame /\ AllOrdersReceived)
      BY <2>4, <2>9, <3>3 DEF CheckTurnEndConditions
    <3>. QED BY <3>2, <3>3
  <2>10. CASE ProcessTurn
    <3>1. NoProcessTurn(Tail(eventQueue))
      BY <2>2, <2>10, TailOfQueue DEF ProcessTurn, Current, TypeOK
    <3>2. eventQueue' = (deferredEvents \o Tail(eventQueue)) \o <<>>
      BY <2>10 DEF ProcessTurn, LeaveDeferring
    <3>3. eventQueue' = deferredEvents \o Tail(eventQueue)
      BY <2>3, <2>10, <3>2, DeferredQueue, ConcatProperties, ConcatEmptySeq DEF ProcessTurn
    <3>4. fsm' # "ProcessingTurn"
      BY <1>c, <2>10, GoesOn
    <3>. QED BY <2>3, <2>10, <3>1, <3>3, <3>4, DeferredQueue, ConcatOfQueues DEF ProcessTurn
  <2>11. CASE SaveGameRequest
    <3>1. NoProcessTurn(Tail(eventQueue))
      BY <2>2, <2>3, <2>11 DEF SaveGameRequest
    <3>2. fsm' # "ProcessingTurn" /\ eventQueue' = Tail(eventQueue)
      BY <1>c, <2>11, GoesOn DEF SaveGameRequest, Discard
    <3>. QED BY <3>1, <3>2
  <2>12. CASE ClientSaveData
    <3>1. NoProcessTurn(Tail(eventQueue))
      BY <2>2, <2>3, <2>12 DEF ClientSaveData
    <3>2. fsm' # "ProcessingTurn"
      BY <1>c, <2>12, GoesOn
    <3>3. CASE Discard
      BY <3>1, <3>2, <3>3 DEF Discard
    <3>4. CASE LeaveDeferring(<<>>)
      <4>1. eventQueue' = deferredEvents \o Tail(eventQueue)
        BY <2>3, <2>12, <3>4, DeferredQueue, ConcatProperties, ConcatEmptySeq
           DEF ClientSaveData, LeaveDeferring
      <4>. QED BY <2>3, <2>12, <3>1, <3>2, <4>1, DeferredQueue, ConcatOfQueues
           DEF ClientSaveData
    <3>. QED BY <2>12, <3>3, <3>4 DEF ClientSaveData
  <2>13. CASE UnconsumedSaveData
    BY <2>4, <2>13 DEF UnconsumedSaveData
  <2>14. CASE DropCheck
    BY <2>4, <2>14 DEF DropCheck
  <2>15. CASE HandleNonLobbyDisconnection
    BY <1>c, <2>4, <2>15, GoesOn DEF HandleNonLobbyDisconnection
  <2>. QED BY <1>c, <2>5, <2>6, <2>7, <2>8, <2>9, <2>10, <2>11, <2>12, <2>13, <2>14, <2>15
       DEF Server, ServerNext, React
<1>d. ASSUME NEW p \in Players, ClientNext(p) PROVE UNCHANGED <<fsm, eventQueue>>
  BY <1>d DEF ClientNext, Responds, IssueOrder, EndTurn, MenuSave, Quit, Crash, StartTurn,
              ReceiveResponse, AnswerSaveGame, ReceiveHostID, ReceivePlayerStatus,
              ReceiveEndGame, LoseServer, Leave, serverVars
<1>. QED BY <1>a, <1>b, <1>c, <1>d DEF Next, vars, serverVars

(* ProcessingTurn is never left waiting without its ProcessTurn event, and no    *)
(* other state ever meets one.                                                   *)
THEOREM ProcessTurnIsPending == Spec => []ProcessTurnPending
BY PendingInit, PendingStep, TypeCorrect, PTL DEF Spec

-----------------------------------------------------------------------------
(* The answers to a save.                                                        *)

(* Save data in the event queue comes from players still connected, and while a  *)
(* save is gathered everybody connected was asked: connections only ever leave.  *)
SaveDataConnected(s) ==
    \A i \in DOMAIN s : s[i].type = "ClientSaveData" => s[i].player \in m_player_connections
AskedInv ==
    fsm # "Exited" =>
        /\ SaveDataConnected(eventQueue)
        /\ fsm = "WaitingForSaveData" => /\ m_player_connections \subseteq m_needed_reponses
                                         /\ m_players_responded \subseteq m_needed_reponses

LEMMA SaveDataInTail ==
    ASSUME TypeOK, eventQueue # <<>>, SaveDataConnected(eventQueue)
    PROVE  /\ SaveDataConnected(Tail(eventQueue))
           /\ Current.type = "ClientSaveData" => Current.player \in m_player_connections
<1>1. /\ Len(eventQueue) \in Nat \ {0}
      /\ DOMAIN eventQueue = 1 .. Len(eventQueue)
      /\ Head(eventQueue) = eventQueue[1]
      /\ DOMAIN Tail(eventQueue) = 1 .. Len(eventQueue) - 1
      /\ \A i \in 1 .. Len(eventQueue) - 1 : Tail(eventQueue)[i] = eventQueue[i + 1]
  BY HeadTailProperties, LenProperties, EmptySeq DEF TypeOK
<1>. QED BY <1>1 DEF SaveDataConnected, Current

LEMMA SaveDataInConcat ==
    ASSUME NEW s \in Seq(Events), NEW t \in Seq(Events),
           SaveDataConnected(s), SaveDataConnected(t)
    PROVE  SaveDataConnected(s \o t)
<1>1. /\ DOMAIN s = 1 .. Len(s) /\ Len(s) \in Nat
      /\ DOMAIN t = 1 .. Len(t) /\ Len(t) \in Nat
      /\ DOMAIN (s \o t) = 1 .. Len(s) + Len(t)
      /\ \A i \in 1 .. Len(s) + Len(t) :
            (s \o t)[i] = IF i <= Len(s) THEN s[i] ELSE t[i - Len(s)]
  BY ConcatProperties, LenProperties
<1>. QED BY <1>1 DEF SaveDataConnected

LEMMA NoSaveDataDeferred ==
    ASSUME TypeOK
    PROVE  SaveDataConnected(deferredEvents)
<1>1. \A i \in DOMAIN deferredEvents : deferredEvents[i] \in EventsFrom(DeferredTypes, Players)
  BY ElementOfSeq, LenProperties DEF TypeOK
<1>. QED BY <1>1 DEF SaveDataConnected, EventsFrom, DeferredTypes

LEMMA NoSaveDataPosted ==
    /\ \A type \in PostedTypes : /\ <<Posted(type)>> \in Seq(Events)
                               /\ SaveDataConnected(<<Posted(type)>>)
    /\ <<>> \in Seq(Events) /\ SaveDataConnected(<<>>)
<1>1. \A type \in PostedTypes : Posted(type) \in Events /\ Posted(type).type = type
  BY PostedTyped DEF Posted, Event
<1>. QED BY <1>1 DEF SaveDataConnected, PostedTypes

LEMMA AskedStep == TypeOK /\ AskedInv /\ [Next]_vars => AskedInv'
<1>. SUFFICES ASSUME TypeOK, AskedInv, [Next]_vars, fsm' # "Exited" PROVE AskedInv'
  BY DEF AskedInv
<1>. USE DEF Dispatching
<1>1. ASSUME UNCHANGED <<fsm, eventQueue, m_player_connections, m_needed_reponses,
                         m_players_responded>>
      PROVE  AskedInv'
  BY <1>1 DEF AskedInv, SaveDataConnected
<1>2. ASSUME Server PROVE AskedInv'
  <2>1. /\ fsm # "Exited"
        /\ SaveDataConnected(eventQueue)
        /\ fsm = "WaitingForSaveData" => /\ m_player_connections \subseteq m_needed_reponses
                                         /\ m_players_responded \subseteq m_needed_reponses
    BY <1>2 DEF Server, ServerNext, React, ReadFrom, HandleShutdownMessage, Deferred, TurnOrders,
                CheckTurnEndConditions, ProcessTurn, SaveGameRequest, ClientSaveData,
                UnconsumedSaveData, DropCheck, HandleNonLobbyDisconnection, AskedInv
  <2>2. ASSUME UNCHANGED m_player_connections, SaveDataConnected(eventQueue')
        PROVE  SaveDataConnected(eventQueue)'
    BY <2>2 DEF SaveDataConnected
  <2>3. eventQueue # <<>> =>
           /\ Tail(eventQueue) \in Seq(Events)
           /\ SaveDataConnected(Tail(eventQueue))
           /\ Current.type = "ClientSaveData" => Current.player \in m_player_connections
    BY <2>1, SaveDataInTail, CurrentTyped
  <2>4. ASSUME eventQueue # <<>>, Discard
        PROVE  SaveDataConnected(eventQueue')
    BY <2>3, <2>4 DEF Discard
  <2>5. ASSUME eventQueue # <<>>, NEW type \in PostedTypes, Post(type)
        PROVE  SaveDataConnected(eventQueue')
    <3>1. Append(Tail(eventQueue), Posted(type)) = Tail(eventQueue) \o <<Posted(type)>>
      BY <2>3, <2>5, PostedTyped
    <3>. QED BY <2>3, <2>5, <3>1, NoSaveDataPosted, SaveDataInConcat DEF Post
  <2>6. ASSUME eventQueue # <<>>, NEW posted \in Seq(Events), SaveDataConnected(posted),
               LeaveDeferring(posted)
        PROVE  SaveDataConnected(eventQueue')
    <3>1. /\ deferredEvents \o Tail(eventQueue) \in Seq(Events)
          /\ SaveDataConnected(deferredEvents \o Tail(eventQueue))
      BY <2>3, <2>6, DeferredQueue, NoSaveDataDeferred, SaveDataInConcat, ConcatProperties
    <3>. QED BY <2>6, <3>1, SaveDataInConcat DEF LeaveDeferring
  <2>7. ASSUME NEW p \in Players, ReadFrom(p) PROVE AskedInv'
    <3>1. Head(toServer[p]) \in EventsFrom(ReceivedTypes, {p})
      BY <2>7, ChannelTyped, HeadTailProperties DEF ReadFrom, TypeOK
    <3>2. /\ p \in m_player_connections
          /\ eventQueue' = <<Head(toServer[p])>>
          /\ Head(toServer[p]).type # "Disconnection" => UNCHANGED m_player_connections
          /\ m_player_connections' \subseteq m_player_connections
          /\ UNCHANGED <<fsm, m_needed_reponses, m_players_responded>>
      BY <2>7 DEF ReadFrom
    <3>3. SaveDataConnected(eventQueue)'
      BY <3>1, <3>2 DEF SaveDataConnected, EventsFrom
    <3>. QED BY <2>1, <3>2, <3>3 DEF AskedInv
  <2>8. CASE HandleShutdownMessage
    BY <2>1, <2>2, <2>4, <2>8, GoesOn DEF HandleShutdownMessage, AskedInv
  <2>9. CASE Deferred
    BY <2>1, <2>2, <2>4, <2>9 DEF Deferred, AskedInv
  <2>10. CASE TurnOrders
    <3>1. /\ fsm' # "WaitingForSaveData"
          /\ UNCHANGED m_player_connections
          /\ Discard \/ Post("ProcessTurn") \/ Post("CheckTurnEndConditions")
      BY <2>10, GoesOn DEF TurnOrders, RejectTurnOrders, ModeratorEndsTurn, StoreTurnOrders
    <3>2. SaveDataConnected(eventQueue')
      BY <2>4, <2>5, <2>10, <3>1 DEF TurnOrders, PostedTypes
    <3>. QED BY <2>2, <3>1, <3>2 DEF AskedInv
  <2>11. CASE CheckTurnEndConditions
    <3>1. \/ Discard /\ UNCHANGED fsm
          \/ LeaveDeferring(<<Posted("ProcessTurn")>>) /\ fsm' = "ProcessingTurn"
      BY <2>11 DEF CheckTurnEndConditions, EventsEndingTurn
    <3>2. SaveDataConnected(eventQueue')
      BY <2>4, <2>6, <2>11, <3>1, NoSaveDataPosted DEF CheckTurnEndConditions, PostedTypes
    <3>. QED BY <2>1, <2>2, <2>11, <3>1, <3>2 DEF CheckTurnEndConditions, AskedInv
  <2>12. CASE ProcessTurn
    <3>1. SaveDataConnected(eventQueue')
      BY <2>6, <2>12, NoSaveDataPosted DEF ProcessTurn
    <3>. QED BY <2>2, <2>12, <3>1, GoesOn DEF AskedInv
  <2>13. CASE SaveGameRequest
    <3>1. SaveDataConnected(eventQueue')
      BY <2>4, <2>13 DEF SaveGameRequest
    <3>2. /\ UNCHANGED m_player_connections
          /\ fsm' = "WaitingForSaveData" =>
                m_needed_reponses' = m_player_connections /\ m_players_responded' = {}
      <4>1. UNCHANGED m_player_connections
        BY <2>13, GoesOn
      <4>. QED BY <2>13, <4>1 DEF SaveGameRequest, PlayersAsked
    <3>. QED BY <2>2, <3>1, <3>2 DEF AskedInv
  <2>14. CASE ClientSaveData
    <3>1. Current.player \in m_needed_reponses
      BY <2>1, <2>3, <2>14 DEF ClientSaveData
    <3>2. Discard \/ LeaveDeferring(<<>>)
      BY <2>14 DEF ClientSaveData
    <3>3. SaveDataConnected(eventQueue')
      BY <2>4, <2>6, <2>14, <3>2, NoSaveDataPosted DEF ClientSaveData
    <3>4. UNCHANGED m_player_connections
      BY <2>14, GoesOn
    <3>. QED BY <2>1, <2>2, <2>14, <3>1, <3>3, <3>4 DEF ClientSaveData, AskedInv
  <2>15. CASE UnconsumedSaveData
    BY <2>1, <2>2, <2>4, <2>15 DEF UnconsumedSaveData, AskedInv
  <2>16. CASE DropCheck
    BY <2>1, <2>2, <2>4, <2>16 DEF DropCheck, AskedInv
  <2>17. CASE HandleNonLobbyDisconnection
    BY <2>1, <2>2, <2>4, <2>17, GoesOn DEF HandleNonLobbyDisconnection, AskedInv
  <2>. QED BY <1>2, <2>7, <2>8, <2>9, <2>10, <2>11, <2>12, <2>13, <2>14, <2>15, <2>16, <2>17
       DEF Server, ServerNext, React
<1>3. ASSUME NEW p \in Players, ClientNext(p)
      PROVE  UNCHANGED <<fsm, eventQueue, m_player_connections, m_needed_reponses,
                         m_players_responded>>
  BY <1>3 DEF ClientNext, Responds, IssueOrder, EndTurn, MenuSave, Quit, Crash, StartTurn,
              ReceiveResponse, AnswerSaveGame, ReceiveHostID, ReceivePlayerStatus,
              ReceiveEndGame, LoseServer, Leave, serverVars
<1>. QED BY <1>1, <1>2, <1>3 DEF Next, vars, serverVars

(* Only players that were asked are counted as having answered a save, so the    *)
(* comparison that completes the save can come out equal.                        *)
THEOREM OnlyAskedRespond == Spec => []ResponsesAsked
<1>1. Init => AskedInv
  BY DEF Init, ServerInit, AskedInv, SaveDataConnected
<1>2. AskedInv => ResponsesAsked
  BY DEF AskedInv, ResponsesAsked
<1>. QED BY <1>1, <1>2, AskedStep, TypeCorrect, PTL DEF Spec

-----------------------------------------------------------------------------
(* The elements of sequences.                                                *)

LEMMA ElementsOfTail ==
    ASSUME NEW S, NEW s \in Seq(S), s # <<>>
    PROVE  /\ Head(s) \in EventsOf(s)
           /\ EventsOf(Tail(s)) \subseteq EventsOf(s)
<1>1. /\ Len(s) \in Nat \ {0}
      /\ DOMAIN s = 1 .. Len(s)
      /\ Head(s) = s[1]
      /\ DOMAIN Tail(s) = 1 .. Len(s) - 1
      /\ \A i \in 1 .. Len(s) - 1 : Tail(s)[i] = s[i + 1]
  BY HeadTailProperties, LenProperties, EmptySeq
<1>2. 1 \in DOMAIN s /\ \A i \in DOMAIN Tail(s) : i + 1 \in DOMAIN s
  BY <1>1
<1>. QED BY <1>1, <1>2 DEF EventsOf

LEMMA ElementsOfConcat ==
    ASSUME NEW S, NEW s \in Seq(S), NEW t \in Seq(S)
    PROVE  EventsOf(s \o t) = EventsOf(s) \cup EventsOf(t)
<1>1. /\ DOMAIN s = 1 .. Len(s) /\ Len(s) \in Nat
      /\ DOMAIN t = 1 .. Len(t) /\ Len(t) \in Nat
      /\ DOMAIN (s \o t) = 1 .. Len(s) + Len(t)
      /\ \A i \in 1 .. Len(s) + Len(t) :
            (s \o t)[i] = IF i <= Len(s) THEN s[i] ELSE t[i - Len(s)]
  BY ConcatProperties, LenProperties
<1>2. ASSUME NEW i \in DOMAIN (s \o t) PROVE (s \o t)[i] \in EventsOf(s) \cup EventsOf(t)
  <2>1. CASE i <= Len(s)
    BY <1>1, <2>1 DEF EventsOf
  <2>2. CASE ~(i <= Len(s))
    <3>1. i - Len(s) \in DOMAIN t
      BY <1>1, <2>2
    <3>. QED BY <1>1, <2>2, <3>1 DEF EventsOf
  <2>. QED BY <2>1, <2>2
<1>3. ASSUME NEW i \in DOMAIN s PROVE s[i] \in EventsOf(s \o t)
  <2>1. i \in DOMAIN (s \o t) /\ (s \o t)[i] = s[i]
    BY <1>1
  <2>. QED BY <2>1 DEF EventsOf
<1>4. ASSUME NEW i \in DOMAIN t PROVE t[i] \in EventsOf(s \o t)
  <2>1. i + Len(s) \in DOMAIN (s \o t) /\ (s \o t)[i + Len(s)] = t[i]
    BY <1>1
  <2>. QED BY <2>1 DEF EventsOf
<1>. QED BY <1>2, <1>3, <1>4 DEF EventsOf

LEMMA ElementsOfAppend ==
    ASSUME NEW S, NEW s \in Seq(S), NEW x \in S
    PROVE  EventsOf(Append(s, x)) = EventsOf(s) \cup {x}
<1>1. Append(s, x) = s \o <<x>> /\ <<x>> \in Seq(S)
  OBVIOUS
<1>2. EventsOf(<<x>>) = {x}
  BY DEF EventsOf
<1>3. EventsOf(s \o <<x>>) = EventsOf(s) \cup EventsOf(<<x>>)
  BY <1>1, ElementsOfConcat
<1>. QED BY <1>1, <1>2, <1>3, Zenon

LEMMA ElementsOfSub ==
    ASSUME NEW S, NEW s \in Seq(S), NEW m \in Nat \ {0}, NEW n \in 0 .. Len(s)
    PROVE  EventsOf(SubSeq(s, m, n)) \subseteq EventsOf(s)
<1>1. Len(s) \in Nat /\ DOMAIN s = 1 .. Len(s)
  BY LenProperties
<1>2. \A k \in m .. n : s[k] \in S
  BY <1>1, ElementOfSeq
<1>3. /\ DOMAIN SubSeq(s, m, n) = 1 .. Len(SubSeq(s, m, n))
      /\ Len(SubSeq(s, m, n)) = IF m <= n THEN n - m + 1 ELSE 0
      /\ \A i \in 1 .. n - m + 1 : SubSeq(s, m, n)[i] = s[m + i - 1]
  BY <1>1, <1>2, SubSeqProperties, LenProperties
<1>4. \A i \in DOMAIN SubSeq(s, m, n) :
         m + i - 1 \in DOMAIN s /\ SubSeq(s, m, n)[i] = s[m + i - 1]
  BY <1>1, <1>3
<1>. QED BY <1>4 DEF EventsOf

LEMMA ElementsOfDeletion ==
    ASSUME NEW S, NEW s \in Seq(S), NEW i \in DOMAIN s
    PROVE  EventsOf(SubSeq(s, 1, i - 1) \o SubSeq(s, i + 1, Len(s))) \subseteq EventsOf(s)
<1>1. i \in 1 .. Len(s) /\ Len(s) \in Nat
  BY LenProperties
<1>2. \A k \in 1 .. Len(s) : s[k] \in S
  BY <1>1, ElementOfSeq
<1>3. SubSeq(s, 1, i - 1) \in Seq(S) /\ SubSeq(s, i + 1, Len(s)) \in Seq(S)
  BY <1>1, <1>2, SubSeqProperties
<1>4. /\ EventsOf(SubSeq(s, 1, i - 1)) \subseteq EventsOf(s)
      /\ EventsOf(SubSeq(s, i + 1, Len(s))) \subseteq EventsOf(s)
  BY <1>1, ElementsOfSub
<1>5. EventsOf(SubSeq(s, 1, i - 1) \o SubSeq(s, i + 1, Len(s)))
         = EventsOf(SubSeq(s, 1, i - 1)) \cup EventsOf(SubSeq(s, i + 1, Len(s)))
  BY <1>3, ElementsOfConcat
<1>. QED BY <1>4, <1>5, Zenon

-----------------------------------------------------------------------------
(* What a step of the server changes.                                        *)

LEMMA QueueMoves ==
    ASSUME React
    PROVE  /\ fsm # "Exited" /\ eventQueue # <<>>
           /\ \/ Discard
              \/ Post("ProcessTurn")
              \/ Post("CheckTurnEndConditions")
              \/ LeaveDeferring(<<>>)
              \/ LeaveDeferring(<<Posted("ProcessTurn")>>)
BY DEF React, HandleShutdownMessage, Deferred, TurnOrders, RejectTurnOrders, ModeratorEndsTurn,
       StoreTurnOrders, CheckTurnEndConditions, EventsEndingTurn, ProcessTurn, SaveGameRequest,
       ClientSaveData, UnconsumedSaveData, DropCheck, HandleNonLobbyDisconnection, Dispatching

(* Whatever the server does, its queue holds afterwards what it held, what was  *)
(* deferred and what it posts.                                                  *)
LEMMA QueueElements ==
    ASSUME TypeOK, React, NEW e \in EventsOf(eventQueue')
    PROVE  \/ e \in EventsOf(Tail(eventQueue))
           \/ e \in EventsOf(deferredEvents)
           \/ e.type \in PostedTypes
<1>1. eventQueue # <<>> /\ Tail(eventQueue) \in Seq(Events) /\ deferredEvents \in Seq(Events)
  BY QueueMoves, CurrentTyped, DeferredQueue
<1>2. \A type \in PostedTypes : Posted(type) \in Events /\ Posted(type).type = type
  BY PostedTyped DEF Posted, Event
<1>3. ASSUME NEW type \in PostedTypes, Post(type)
      PROVE  e \in EventsOf(Tail(eventQueue)) \/ e.type \in PostedTypes
  <2>1. EventsOf(Append(Tail(eventQueue), Posted(type)))
           = EventsOf(Tail(eventQueue)) \cup {Posted(type)}
    BY <1>1, <1>2, ElementsOfAppend
  <2>. QED BY <1>2, <1>3, <2>1 DEF Post
<1>4. ASSUME NEW posted \in Seq(Events), \A x \in EventsOf(posted) : x.type \in PostedTypes,
             LeaveDeferring(posted)
      PROVE  \/ e \in EventsOf(Tail(eventQueue))
             \/ e \in EventsOf(deferredEvents)
             \/ e.type \in PostedTypes
  <2>1. deferredEvents \o Tail(eventQueue) \in Seq(Events)
    BY <1>1, ConcatProperties
  <2>2. EventsOf(eventQueue') = EventsOf(deferredEvents \o Tail(eventQueue)) \cup EventsOf(posted)
    <3>. DEFINE given == deferredEvents \o Tail(eventQueue)
    <3>1. eventQueue' = given \o posted
      BY <1>4 DEF LeaveDeferring
    <3>. HIDE DEF given
    <3>2. EventsOf(given \o posted) = EventsOf(given) \cup EventsOf(posted)
      <4>1. given \in Seq(Events)
        BY <2>1 DEF given
      <4>. QED BY <1>4, <4>1, ElementsOfConcat
    <3>. QED BY <3>1, <3>2 DEF given
  <2>3. EventsOf(deferredEvents \o Tail(eventQueue))
           = EventsOf(deferredEvents) \cup EventsOf(Tail(eventQueue))
    BY <1>1, ElementsOfConcat
  <2>. QED BY <1>4, <2>2, <2>3
<1>5. /\ <<>> \in Seq(Events) /\ EventsOf(<<>>) = {}
      /\ <<Posted("ProcessTurn")>> \in Seq(Events)
      /\ EventsOf(<<Posted("ProcessTurn")>>) = {Posted("ProcessTurn")}
  BY <1>2 DEF EventsOf, PostedTypes
<1>6. \A x \in EventsOf(<<Posted("ProcessTurn")>>) : x.type \in PostedTypes
  BY <1>2, <1>5 DEF PostedTypes
<1>7. CASE Discard
  BY <1>7 DEF Discard
<1>. QED BY <1>3, <1>4, <1>5, <1>6, <1>7, QueueMoves DEF PostedTypes

(* A disconnection in the queue was there before, behind the event dispatched.   *)
LEMMA QueuedDisconnection ==
    ASSUME TypeOK, React, NEW e \in EventsOf(eventQueue'), e.type = "Disconnection"
    PROVE  e \in EventsOf(Tail(eventQueue)) /\ e \in EventsOf(eventQueue)
<1>1. eventQueue # <<>> /\ eventQueue \in Seq(Events) /\ deferredEvents \in Seq(EventsFrom(DeferredTypes, Players))
  BY QueueMoves DEF TypeOK
<1>2. \A x \in EventsOf(deferredEvents) : x.type \in DeferredTypes
  <2>1. \A i \in DOMAIN deferredEvents : deferredEvents[i] \in EventsFrom(DeferredTypes, Players)
    BY <1>1, ElementOfSeq, LenProperties
  <2>. QED BY <2>1 DEF EventsOf, EventsFrom
<1>3. e \in EventsOf(Tail(eventQueue))
  BY <1>2, QueueElements DEF DeferredTypes, PostedTypes
<1>. QED BY <1>1, <1>3, ElementsOfTail

LEMMA SentElements ==
    ASSUME TypeOK, NEW ps, NEW ms \in Seq(ClientMessages), SendTo(ps, ms),
           NEW p \in Players, NEW m \in EventsOf(toClient'[p])
    PROVE  m \in EventsOf(toClient[p]) \cup EventsOf(ms)
<1>1. toClient[p] \in Seq(ClientMessages)
  BY DEF TypeOK
<1>2. EventsOf(toClient[p] \o ms) = EventsOf(toClient[p]) \cup EventsOf(ms)
  BY <1>1, ElementsOfConcat
<1>3. toClient'[p] = IF p \in ps THEN toClient[p] \o ms ELSE toClient[p]
  BY DEF SendTo
<1>. QED BY <1>2, <1>3

LEMMA StatusElements ==
    ASSUME NEW ps \in SUBSET AIs, NEW w \in BOOLEAN
    PROVE  \A m \in EventsOf(PlayerStatus(ps, w)) : m.type = "PLAYER_STATUS"
BY DEF PlayerStatus, EventsOf

(* The only news of a host that the server sends is the host there then is.       *)
LEMMA NewsOfHost ==
    ASSUME TypeOK, React, NEW p \in Players, NEW m \in EventsOf(toClient'[p]),
           m.type = "HOST_ID"
    PROVE  m \in EventsOf(toClient[p]) \/ m.host = m_host_player_id'
<1>1. CASE UNCHANGED toClient
  BY <1>1
<1>2. CASE TurnOrders
  <2>1. PICK c : RejectTurnOrders(c) \/ ModeratorEndsTurn(c) \/ StoreTurnOrders(c)
    BY <1>2 DEF TurnOrders
  <2>2. CASE StoreTurnOrders(c)
    <3>. DEFINE ai == {Current.player} \cap AIs
    <3>1. PlayerStatus(ai, TRUE) \in Seq(ClientMessages)
      BY PlayerStatusTyped
    <3>2. m \in EventsOf(toClient[p]) \cup EventsOf(PlayerStatus(ai, TRUE))
      <4>1. PICK reached : SendTo(reached, PlayerStatus(ai, TRUE))
        BY <2>2 DEF StoreTurnOrders
      <4>. QED BY <3>1, <4>1, SentElements
    <3>. QED BY <3>2, StatusElements
  <2>. QED BY <1>1, <2>1, <2>2 DEF RejectTurnOrders, ModeratorEndsTurn
<1>3. CASE ProcessTurn
  <2>. DEFINE update == <<[type |-> "TURN_UPDATE", turn |-> m_current_turn']>>
              status == PlayerStatus(m_player_connections \cap AIs, FALSE)
  <2>1. m_current_turn' \in Nat
    BY <1>3 DEF ProcessTurn, TypeOK
  <2>2. update \in Seq(ClientMessages) /\ status \in Seq(ClientMessages)
    <3>1. [type |-> "TURN_UPDATE", turn |-> m_current_turn'] \in ClientMessages
      BY <2>1 DEF ClientMessages
    <3>2. update \in Seq(ClientMessages)
      BY <3>1
    <3>3. status \in Seq(ClientMessages)
      BY PlayerStatusTyped
    <3>. QED BY <3>2, <3>3
  <2>3. \A x \in EventsOf(update) : x.type = "TURN_UPDATE"
    BY DEF EventsOf
  <2>4. PICK reached : SendTo(reached, update \o status)
    BY <1>3 DEF ProcessTurn
  <2>5. \A x \in EventsOf(status) : x.type = "PLAYER_STATUS"
    BY StatusElements
  <2>. HIDE DEF update, status
  <2>6. /\ update \o status \in Seq(ClientMessages)
        /\ EventsOf(update \o status) = EventsOf(update) \cup EventsOf(status)
    BY <2>2, ElementsOfConcat, ConcatProperties
  <2>7. m \in EventsOf(toClient[p]) \cup EventsOf(update \o status)
    BY <2>4, <2>6, SentElements
  <2>. QED BY <2>3, <2>5, <2>6, <2>7
<1>4. CASE SaveGameRequest
  <2>1. ASSUME NEW reached,
               toClient' = [q \in Players |-> IF q \in reached
                                              THEN Append(toClient[q], SaveGameMessage(q))
                                              ELSE toClient[q]]
        PROVE  m \in EventsOf(toClient[p]) \/ m.host = m_host_player_id'
    <3>1. SaveGameMessage(p) \in ClientMessages /\ SaveGameMessage(p).type = "SAVE_GAME"
      BY DEF SaveGameMessage, ClientMessages, PlayerIsHost
    <3>2. toClient[p] \in Seq(ClientMessages)
      BY DEF TypeOK
    <3>3. EventsOf(Append(toClient[p], SaveGameMessage(p)))
             = EventsOf(toClient[p]) \cup {SaveGameMessage(p)}
      BY <3>1, <3>2, ElementsOfAppend
    <3>4. toClient'[p] = IF p \in reached
                         THEN Append(toClient[p], SaveGameMessage(p)) ELSE toClient[p]
      BY <2>1
    <3>. QED BY <3>1, <3>3, <3>4
  <2>. QED BY <1>1, <1>4, <2>1 DEF SaveGameRequest
<1>5. CASE HandleNonLobbyDisconnection
  <2>1. ASSUME NEW ps, NEW x \in ClientMessages, SendTo(ps, <<x>>)
        PROVE  m \in EventsOf(toClient[p]) \/ m = x
    <3>1. <<x>> \in Seq(ClientMessages) /\ EventsOf(<<x>>) = {x}
      BY DEF EventsOf
    <3>. QED BY <2>1, <3>1, SentElements
  <2>2. [type |-> "END_GAME"] \in ClientMessages
    BY DEF ClientMessages
  <2>3. ASSUME NEW reached, SelectNewHost(reached)
        PROVE  m \in EventsOf(toClient[p]) \/ m.host = m_host_player_id'
    <3>1. m_host_player_id' \in Players \cup {NoPlayer}
      BY <2>3 DEF SelectNewHost, HostCandidates, TypeOK
    <3>2. [type |-> "HOST_ID", host |-> m_host_player_id'] \in ClientMessages
      BY <3>1 DEF ClientMessages
    <3>. QED BY <2>1, <2>3, <3>2 DEF SelectNewHost
  <2>4. ASSUME NEW reached, SendTo(reached, << [type |-> "END_GAME"] >>)
        PROVE  m \in EventsOf(toClient[p]) \/ m.host = m_host_player_id'
    BY <2>1, <2>2, <2>4
  <2>. QED BY <1>1, <1>5, <2>3, <2>4 DEF HandleNonLobbyDisconnection
<1>. QED BY <1>1, <1>2, <1>3, <1>4, <1>5
     DEF React, HandleShutdownMessage, Deferred, CheckTurnEndConditions, ClientSaveData,
         UnconsumedSaveData, DropCheck

-----------------------------------------------------------------------------
(* The end of a connection.                                                      *)

(* A disconnection is dispatched as soon as it is read: nothing is queued with   *)
(* it, and the player is already out of the connections.                         *)
LostInv ==
    \A e \in EventsOf(eventQueue) :
        e.type = "Disconnection" => /\ eventQueue = <<e>>
                                    /\ e.player \in Players \ m_player_connections

LEMMA CurrentQueued ==
    ASSUME TypeOK, eventQueue # <<>>
    PROVE  Current \in EventsOf(eventQueue)
BY ElementsOfTail DEF TypeOK, Current

(* The one event read.                                                           *)
LEMMA EventRead ==
    ASSUME TypeOK, NEW p \in Players, ReadFrom(p)
    PROVE  /\ Head(toServer[p]).type \in ReceivedTypes
           /\ Head(toServer[p]).player = p
           /\ Head(toServer[p]) \in EventsOf(toServer[p])
           /\ EventsOf(Tail(toServer[p])) \subseteq EventsOf(toServer[p])
           /\ EventsOf(eventQueue') = {Head(toServer[p])}
           /\ EventsOf(eventQueue) = {}
<1>1. toServer[p] \in Seq(EventsFrom(ReceivedTypes, {p})) /\ toServer[p] # <<>>
  BY ChannelTyped DEF ReadFrom, TypeOK
<1>2. Head(toServer[p]) \in EventsFrom(ReceivedTypes, {p})
  BY <1>1, HeadTailProperties
<1>3. /\ Head(toServer[p]) \in EventsOf(toServer[p])
      /\ EventsOf(Tail(toServer[p])) \subseteq EventsOf(toServer[p])
  BY <1>1, ElementsOfTail
<1>4. /\ EventsOf(eventQueue') = {Head(toServer[p])}
      /\ EventsOf(eventQueue) = {}
  BY DEF ReadFrom, EventsOf
<1>. QED BY <1>2, <1>3, <1>4 DEF EventsFrom

(* A reaction leaves no disconnection behind.                                    *)
LEMMA DisconnectionsDispatched ==
    ASSUME TypeOK, LostInv, React, NEW e \in EventsOf(eventQueue')
    PROVE  e.type # "Disconnection"
<1>. SUFFICES ASSUME e.type = "Disconnection" PROVE FALSE
  OBVIOUS
<1>1. e \in EventsOf(Tail(eventQueue)) /\ e \in EventsOf(eventQueue)
  BY QueuedDisconnection
<1>2. eventQueue = <<e>>
  BY <1>1 DEF LostInv
<1>3. EventsOf(Tail(eventQueue)) = {}
  BY <1>2 DEF EventsOf
<1>. QED BY <1>1, <1>3

LEMMA ClientKeepsServer ==
    ASSUME NEW p \in Players, ClientNext(p)
    PROVE  UNCHANGED serverVars
BY DEF ClientNext, Responds, IssueOrder, EndTurn, MenuSave, Quit, Crash, StartTurn,
       ReceiveResponse, AnswerSaveGame, ReceiveHostID, ReceivePlayerStatus,
       ReceiveEndGame, LoseServer, Leave

LEMMA LostStep == TypeOK /\ LostInv /\ [Next]_vars => LostInv'
<1>. SUFFICES ASSUME TypeOK, LostInv, [Next]_vars PROVE LostInv'
  OBVIOUS
<1>1. ASSUME UNCHANGED serverVars PROVE LostInv'
  BY <1>1 DEF serverVars, LostInv, EventsOf
<1>2. ASSUME React PROVE LostInv'
  <2>1. \A e \in EventsOf(eventQueue') : e.type # "Disconnection"
    BY <1>2, DisconnectionsDispatched
  <2>. QED BY <2>1 DEF LostInv, EventsOf
<1>3. ASSUME NEW p \in Players, ReadFrom(p) PROVE LostInv'
  <2>1. /\ EventsOf(eventQueue') = {Head(toServer[p])}
        /\ Head(toServer[p]).player = p
    BY <1>3, EventRead
  <2>2. /\ eventQueue' = <<Head(toServer[p])>>
        /\ Head(toServer[p]).type = "Disconnection" =>
              m_player_connections' = m_player_connections \ {p}
    BY <1>3 DEF ReadFrom
  <2>3. LostInv' = \A e \in EventsOf(eventQueue') :
           e.type = "Disconnection" => /\ eventQueue' = <<e>>
                                       /\ e.player \in Players \ m_player_connections'
    BY DEF LostInv, EventsOf
  <2>. QED BY <2>1, <2>2, <2>3
<1>. QED BY <1>1, <1>2, <1>3, ClientKeepsServer DEF Next, Server, ServerNext, vars

-----------------------------------------------------------------------------
(* The turn barrier.                                                             *)

(* Whose orders end a turn: orders that were deferred read a connection the       *)
(* server holds, all others come from a player that is still connected.          *)
SenderInv ==
    /\ \A e \in EventsOf(deferredEvents) : e.dangling
    /\ fsm # "Exited" => \A e \in EventsOf(eventQueue) :
          e.type = "TurnOrders" /\ ~e.dangling => e.player \in m_player_connections

LEMMA DeferredDangle ==
    ASSUME TypeOK, React, \A e \in EventsOf(deferredEvents) : e.dangling
    PROVE  \A e \in EventsOf(deferredEvents') : e.dangling
<1>1. CASE UNCHANGED deferredEvents
  BY <1>1
<1>2. CASE deferredEvents' = <<>>
  BY <1>2 DEF EventsOf
<1>3. CASE Deferred
  <2>1. /\ [Current EXCEPT !.dangling = TRUE] \in EventsFrom(DeferredTypes, Players)
        /\ [Current EXCEPT !.dangling = TRUE].dangling
    BY <1>3, CurrentTyped DEF Deferred, EventsFrom, ReceivedTypes
  <2>2. deferredEvents \in Seq(EventsFrom(DeferredTypes, Players))
    BY DEF TypeOK
  <2>3. EventsOf(deferredEvents')
           = EventsOf(deferredEvents) \cup {[Current EXCEPT !.dangling = TRUE]}
    <3>. DEFINE kept == [Current EXCEPT !.dangling = TRUE]
    <3>1. deferredEvents' = Append(deferredEvents, kept)
      BY <1>3 DEF Deferred, KeptEvents
    <3>2. kept \in EventsFrom(DeferredTypes, Players)
      BY <2>1
    <3>. HIDE DEF kept
    <3>3. EventsOf(Append(deferredEvents, kept)) = EventsOf(deferredEvents) \cup {kept}
      BY <2>2, <3>2, ElementsOfAppend
    <3>. QED BY <3>1, <3>3 DEF kept
  <2>. QED BY <2>1, <2>3
<1>. QED BY <1>1, <1>2, <1>3
     DEF React, HandleShutdownMessage, TurnOrders, CheckTurnEndConditions, ProcessTurn,
         SaveGameRequest, ClientSaveData, UnconsumedSaveData, DropCheck,
         HandleNonLobbyDisconnection, LeaveDeferring

LEMMA SenderStep == TypeOK /\ SenderInv /\ [Next]_vars => SenderInv'
<1>. SUFFICES ASSUME TypeOK, SenderInv, [Next]_vars PROVE SenderInv'
  OBVIOUS
<1>1. ASSUME UNCHANGED serverVars PROVE SenderInv'
  BY <1>1 DEF serverVars, SenderInv, EventsOf
<1>2. ASSUME React PROVE SenderInv'
  <2>1. \A e \in EventsOf(deferredEvents') : e.dangling
    BY <1>2, DeferredDangle DEF SenderInv
  <2>2. ASSUME fsm' # "Exited", NEW e \in EventsOf(eventQueue'),
               e.type = "TurnOrders", ~e.dangling
        PROVE  e \in EventsOf(eventQueue)
    <3>1. eventQueue # <<>> /\ eventQueue \in Seq(Events)
      BY <1>2, QueueMoves DEF TypeOK
    <3>2. e \in EventsOf(Tail(eventQueue))
      BY <1>2, <2>2, QueueElements DEF SenderInv, PostedTypes
    <3>. QED BY <3>1, <3>2, ElementsOfTail
  <2>3. fsm' # "Exited" => fsm # "Exited" /\ UNCHANGED m_player_connections
    BY <1>2, QueueMoves, ReactionConnections
  <2>. QED BY <2>1, <2>2, <2>3 DEF SenderInv, EventsOf
<1>3. ASSUME NEW p \in Players, ReadFrom(p) PROVE SenderInv'
  <2>1. /\ EventsOf(eventQueue') = {Head(toServer[p])}
        /\ Head(toServer[p]).player = p
    BY <1>3, EventRead
  <2>2. /\ p \in m_player_connections
        /\ Head(toServer[p]).type # "Disconnection" => UNCHANGED m_player_connections
        /\ UNCHANGED deferredEvents
    BY <1>3 DEF ReadFrom
  <2>3. \A e \in EventsOf(eventQueue') : e.type = "TurnOrders" => e.player \in m_player_connections'
    BY <2>1, <2>2
  <2>. QED BY <2>2, <2>3 DEF SenderInv, EventsOf
<1>. QED BY <1>1, <1>2, <1>3, ClientKeepsServer DEF Next, Server, ServerNext, vars

LEMMA SenderKnown == Spec => []SenderInv
<1>1. Init => SenderInv
  BY DEF Init, ServerInit, SenderInv, EventsOf
<1>. QED BY <1>1, SenderStep, TypeCorrect, PTL DEF Spec

(* Only a moderator that is in the game ends a turn by its own orders.            *)
LEMMA ModeratorInGame ==
    ASSUME TypeOK, SenderInv, TurnOrders, NEW c \in ConnectionOf(Current), ModeratorEndsTurn(c)
    PROVE  c \in m_player_connections \cap Moderators
<1>1. /\ fsm # "Exited" /\ Current.type = "TurnOrders"
      /\ Current \in EventsOf(eventQueue)
  BY CurrentQueued DEF TurnOrders, Dispatching
<1>2. c \in m_player_connections
  BY <1>1 DEF ConnectionOf, SenderInv
<1>. QED BY <1>2 DEF ModeratorEndsTurn

LEMMA BarrierStarts == Init => Barrier!BarrierInit
BY DEF Init, ServerInit, Barrier!BarrierInit, NullOrders

(* Where a reaction that writes to the players leads.                            *)
LEMMA BarrierOnwards ==
    ASSUME \/ fsm' = "Exited" /\ m_player_connections' = {}
           \/ fsm' \notin {"Exited", "ProcessingTurn"} /\ UNCHANGED m_player_connections
    PROVE  Barrier!Onwards("open")
BY DEF Barrier!Onwards

LEMMA BarrierSubmit ==
    ASSUME TypeOK, TurnOrders, NEW c, StoreTurnOrders(c)
    PROVE  Barrier!BarrierNext
<1>0. PICK s \in Empires : s = Current.player
  BY DEF StoreTurnOrders
<1>1. /\ m_turn_sequence' = [m_turn_sequence EXCEPT
                               ![s] = [got |-> TRUE, turns |-> Current.turns]]
      /\ UNCHANGED <<m_current_turn, executed>>
      /\ fsm = "WaitingForTurnEndIdle"
  BY <1>0 DEF StoreTurnOrders, TurnOrders
<1>2. Current.turns \in SUBSET Nat
  BY CurrentTyped DEF TurnOrders, Dispatching, OrderSets
<1>3. m_turn_sequence \in [Empires -> TurnEntries]
  BY DEF TypeOK
<1>4. \A e \in Empires : /\ m_turn_sequence'[e].got <=> m_turn_sequence[e].got \/ e = s
                         /\ m_turn_sequence'[e].turns =
                               IF e = s THEN Current.turns ELSE m_turn_sequence[e].turns
  BY <1>1, <1>3
<1>5. {e \in Empires : m_turn_sequence'[e].got} =
         {e \in Empires : m_turn_sequence[e].got} \cup {s}
  BY <1>1, <1>4, Zenon
<1>6. [e \in Empires |-> m_turn_sequence'[e].turns] =
         [[e \in Empires |-> m_turn_sequence[e].turns] EXCEPT ![s] = Current.turns]
  BY <1>1, <1>4
<1>7. [e \in Empires |-> m_turn_sequence'[e].turns][s] = Current.turns
  BY <1>1, <1>4
<1>8. Barrier!Onwards("open")
  <2>1. React
    BY DEF React
  <2>2. fsm' # "Exited" => UNCHANGED <<fsm, m_player_connections>>
    BY GoesOn
  <2>. QED BY <1>1, <2>1, <2>2, ReactionConnections, BarrierOnwards
<1>9. Barrier!Submit(s)
  BY <1>1, <1>2, <1>5, <1>6, <1>7, <1>8 DEF Barrier!Submit
<1>. QED BY <1>1, <1>9 DEF Barrier!BarrierNext

LEMMA BarrierEndOfTurn ==
    ASSUME ProcessTurn
    PROVE  Barrier!EndOfTurn
<1>1. /\ executed' = [e \in Empires |-> m_turn_sequence[e].turns]
      /\ m_current_turn' = m_current_turn + 1
      /\ m_turn_sequence' = [e \in Empires |-> NullOrders]
      /\ fsm = "ProcessingTurn"
  BY DEF ProcessTurn, ClearedTurnOrders
<1>2. /\ [e \in Empires |-> m_turn_sequence'[e].turns] = [e \in Empires |-> {}]
      /\ {e \in Empires : m_turn_sequence'[e].got} = {}
  BY <1>1 DEF NullOrders
<1>3. Barrier!Onwards("open")
  <2>1. React
    BY DEF React
  <2>2. fsm' # "Exited" => fsm' = "WaitingForTurnEndIdle" /\ UNCHANGED m_player_connections
    BY GoesOn
  <2>. QED BY <2>1, <2>2, ReactionConnections, BarrierOnwards
<1>. QED BY <1>1, <1>2, <1>3 DEF Barrier!EndOfTurn

(* A turn is closed by a moderator in the game, or with all orders in.            *)
LEMMA BarrierClose ==
    ASSUME TypeOK, fsm \notin {"Exited", "ProcessingTurn"}, fsm' = "ProcessingTurn",
           UNCHANGED <<m_turn_sequence, m_current_turn, executed, m_player_connections>>,
           AllOrdersReceived \/ m_player_connections \cap Moderators # {}
    PROVE  Barrier!CloseTurn
<1>1. AllOrdersReceived => {e \in Empires : m_turn_sequence[e].got} = Empires
  BY DEF AllOrdersReceived
<1>. QED BY <1>1 DEF Barrier!CloseTurn

LEMMA BarrierReaction ==
    ASSUME TypeOK, SenderInv, React
    PROVE  Barrier!BarrierNext \/ UNCHANGED Barrier!barrierVars
<1>1. CASE ProcessTurn
  BY <1>1, BarrierEndOfTurn DEF Barrier!BarrierNext
<1>2. CASE TurnOrders /\ \E c : StoreTurnOrders(c)
  BY <1>2, BarrierSubmit
<1>3. CASE TurnOrders /\ ~\E c : StoreTurnOrders(c)
  <2>1. PICK c \in ConnectionOf(Current) : RejectTurnOrders(c) \/ ModeratorEndsTurn(c)
    BY <1>3 DEF TurnOrders
  <2>2. /\ fsm = "WaitingForTurnEndIdle"
        /\ UNCHANGED <<m_turn_sequence, m_current_turn, executed>>
    BY <1>3, <2>1 DEF TurnOrders, RejectTurnOrders, ModeratorEndsTurn
  <2>3. CASE ModeratorEndsTurn(c)
    <3>1. c \in m_player_connections \cap Moderators
      BY <1>3, <2>3, ModeratorInGame
    <3>2. fsm' = "ProcessingTurn" /\ UNCHANGED m_player_connections
      BY <2>3 DEF ModeratorEndsTurn
    <3>. QED BY <2>2, <3>1, <3>2, BarrierClose DEF Barrier!BarrierNext
  <2>4. CASE RejectTurnOrders(c)
    <3>1. CASE fsm' = "Exited"
      BY <2>2, <3>1, ReactionConnections DEF Barrier!BarrierNext, Barrier!Stop
    <3>2. CASE fsm' # "Exited"
      BY <2>2, <2>4, <3>2, GoesOn DEF Barrier!barrierVars
    <3>. QED BY <3>1, <3>2
  <2>. QED BY <2>1, <2>3, <2>4
<1>4. CASE CheckTurnEndConditions
  <2>1. /\ fsm \in {"WaitingForTurnEndIdle", "WaitingForSaveData"}
        /\ UNCHANGED <<m_turn_sequence, m_current_turn, executed, m_player_connections>>
        /\ \/ fsm' = "ProcessingTurn" /\ AllOrdersReceived
           \/ fsm' = fsm
    BY <1>4 DEF CheckTurnEndConditions
  <2>2. CASE fsm' = "ProcessingTurn"
    BY <2>1, <2>2, BarrierClose DEF Barrier!BarrierNext
  <2>3. CASE fsm' = fsm
    BY <2>1, <2>3 DEF Barrier!barrierVars
  <2>. QED BY <2>1, <2>2, <2>3
<1>5. CASE ~ProcessTurn /\ ~TurnOrders /\ ~CheckTurnEndConditions
  <2>1. /\ UNCHANGED <<m_turn_sequence, m_current_turn, executed>>
        /\ fsm # "Exited"
    BY <1>5, QueueMoves
       DEF React, HandleShutdownMessage, Deferred, SaveGameRequest, ClientSaveData,
           UnconsumedSaveData, DropCheck, HandleNonLobbyDisconnection
  <2>2. CASE fsm' = "Exited"
    BY <2>1, <2>2, ReactionConnections DEF Barrier!BarrierNext, Barrier!Stop
  <2>3. CASE fsm' # "Exited"
    <3>1. UNCHANGED m_player_connections
      BY <2>3, ReactionConnections
    <3>2. \/ fsm' = fsm
          \/ /\ fsm \in {"WaitingForTurnEndIdle", "WaitingForSaveData"}
             /\ fsm' \in {"WaitingForTurnEndIdle", "WaitingForSaveData"}
      BY <1>5, <2>3, GoesOn
         DEF React, Deferred, SaveGameRequest, ClientSaveData, UnconsumedSaveData, DropCheck
    <3>. QED BY <2>1, <3>1, <3>2 DEF Barrier!barrierVars
  <2>. QED BY <2>2, <2>3
<1>. QED BY <1>1, <1>2, <1>3, <1>4, <1>5

LEMMA BarrierStep ==
    TypeOK /\ ProcessTurnPending /\ SenderInv /\ [Next]_vars
        => [Barrier!BarrierNext]_(Barrier!barrierVars)
<1>. SUFFICES ASSUME TypeOK, ProcessTurnPending, SenderInv, [Next]_vars
              PROVE  Barrier!BarrierNext \/ UNCHANGED Barrier!barrierVars
  OBVIOUS
<1>1. ASSUME UNCHANGED serverVars PROVE UNCHANGED Barrier!barrierVars
  BY <1>1 DEF serverVars, Barrier!barrierVars
<1>2. ASSUME NEW p \in Players, ReadFrom(p)
      PROVE  Barrier!BarrierNext \/ UNCHANGED Barrier!barrierVars
  <2>1. /\ fsm # "Exited" /\ eventQueue = <<>>
        /\ m_player_connections' \subseteq m_player_connections
        /\ UNCHANGED <<fsm, m_turn_sequence, m_current_turn, executed>>
    BY <1>2 DEF ReadFrom
  <2>2. fsm # "ProcessingTurn"
    BY <2>1 DEF ProcessTurnPending, Queued
  <2>3. CASE m_player_connections' \cap Moderators = {}
    BY <2>1, <2>2, <2>3 DEF Barrier!BarrierNext, Barrier!ModeratorsLeave
  <2>4. CASE m_player_connections' \cap Moderators # {}
    BY <2>1, <2>4 DEF Barrier!barrierVars
  <2>. QED BY <2>3, <2>4
<1>. QED BY <1>1, <1>2, ClientKeepsServer, BarrierReaction
     DEF Next, Server, ServerNext, vars

(* The session implements the turn barrier: whatever is deferred, given back,    *)
(* saved, lost or resent, a turn is closed when every empire has submitted or by *)
(* a moderator who is still there, and processing it executes the order sets     *)
(* submitted last.                                                               *)
THEOREM SessionImplementsBarrier == Spec => ImplementsBarrier
BY SenderKnown, BarrierStarts, BarrierStep, TypeCorrect, ProcessTurnIsPending, PTL
   DEF Spec, ImplementsBarrier, Barrier!BarrierSpec

LEMMA ModeratorStep == TypeOK /\ SenderInv /\ [Next]_vars =>
    (fsm # "ProcessingTurn" /\ fsm' = "ProcessingTurn" =>
        IF m_player_connections \cap Moderators = {}
        THEN AllOrdersReceived
        ELSE /\ Current.type = "TurnOrders"
             /\ Current.player \in Moderators \/ Current.dangling)
<1>. SUFFICES ASSUME TypeOK, SenderInv, [Next]_vars,
                     fsm # "ProcessingTurn", fsm' = "ProcessingTurn"
              PROVE  IF m_player_connections \cap Moderators = {}
                     THEN AllOrdersReceived
                     ELSE /\ Current.type = "TurnOrders"
                          /\ Current.player \in Moderators \/ Current.dangling
  OBVIOUS
<1>1. React
  BY ClientKeepsServer DEF Next, Server, ServerNext, ReadFrom, vars, serverVars
<1>2. CASE CheckTurnEndConditions
  BY <1>2 DEF CheckTurnEndConditions, ModeratorsInGame
<1>3. CASE TurnOrders
  <2>1. PICK c \in ConnectionOf(Current) : ModeratorEndsTurn(c)
    BY <1>3, GoesOn DEF TurnOrders
  <2>2. c \in m_player_connections \cap Moderators
    BY <1>3, <2>1, ModeratorInGame
  <2>3. c = Current.player \/ Current.dangling
    BY DEF ConnectionOf
  <2>. QED BY <1>3, <2>2, <2>3 DEF TurnOrders, Dispatching
<1>. QED BY <1>1, <1>2, <1>3, GoesOn
     DEF React, Deferred, UnconsumedSaveData, DropCheck

(* While a moderator is in the game a turn ends by its orders, or by orders that  *)
(* were deferred and pass for its own; without one, with all orders in.           *)
THEOREM ModeratorEndsTurns == Spec => ModeratorDecides
BY SenderKnown, ModeratorStep, TypeCorrect, PTL DEF Spec, ModeratorDecides

-----------------------------------------------------------------------------
(* The host and the connections.                                                 *)

HostLost == \E e \in EventsOf(eventQueue) :
               e.type = "Disconnection" /\ e.player = m_host_player_id
ConnectedInv ==
    fsm # "Exited" /\ Empires \subseteq m_player_connections =>
        m_host_player_id \in m_player_connections \/ HostLost

(* Without a human, an observer or a moderator only the AI players are there.    *)
LEMMA OnlyAIsLeft ==
    ASSUME HostCandidates = {}, m_player_connections \subseteq Players,
           Empires \subseteq m_player_connections
    PROVE  NoHumansLeft
<1>1. m_player_connections = AIs
  BY DEF HostCandidates, Players, Empires
<1>. QED BY <1>1 DEF NoHumansLeft

LEMMA ConnectedStep == TypeOK /\ LostInv /\ ConnectedInv /\ [Next]_vars => ConnectedInv'
<1>. SUFFICES ASSUME TypeOK, LostInv, ConnectedInv, [Next]_vars, fsm' # "Exited",
                     Empires \subseteq m_player_connections'
              PROVE  m_host_player_id' \in m_player_connections' \/ HostLost'
  BY DEF ConnectedInv
<1>. USE DEF Dispatching
<1>1. ASSUME UNCHANGED serverVars PROVE m_host_player_id' \in m_player_connections' \/ HostLost'
  BY <1>1 DEF serverVars, ConnectedInv, HostLost, EventsOf
<1>2. ASSUME React PROVE m_host_player_id' \in m_player_connections'
  <2>1. fsm # "Exited" /\ eventQueue # <<>>
    BY <1>2, QueueMoves
  <2>2. CASE HandleNonLobbyDisconnection
    <3>1. Current.type = "Disconnection" /\ Current \in EventsOf(eventQueue)
      BY <2>1, <2>2, CurrentQueued DEF HandleNonLobbyDisconnection
    <3>2. eventQueue = <<Current>> /\ Current.player \notin m_player_connections
      BY <3>1 DEF LostInv
    <3>3. UNCHANGED m_player_connections /\ ~NoHumansLeft
      <4>1. UNCHANGED m_player_connections
        BY <2>2, GoesOn
      <4>2. NoHumansLeft => StateAfterLoss = "Exited"
        BY DEF StateAfterLoss
      <4>. QED BY <2>2, <4>1, <4>2, WrittenOutcome DEF HandleNonLobbyDisconnection
    <3>4. Current.player \notin Empires
      BY <3>2, <3>3
    <3>5. CASE PlayerIsHost(Current.player)
      <4>1. PICK reached : SelectNewHost(reached)
        BY <2>2, <3>4, <3>5 DEF HandleNonLobbyDisconnection, ActivePlayerLost
      <4>2. HostCandidates # {}
        BY <3>3, OnlyAIsLeft DEF TypeOK
      <4>. QED BY <3>3, <4>1, <4>2 DEF SelectNewHost, HostCandidates
    <3>6. CASE ~PlayerIsHost(Current.player)
      <4>1. UNCHANGED m_host_player_id
        BY <2>2, <3>4, <3>6 DEF HandleNonLobbyDisconnection, ActivePlayerLost
      <4>2. Current.player # m_host_player_id
        <5>1. Current.player \in Players
          BY <3>1 DEF LostInv
        <5>2. NoPlayer \notin Players
          BY PlayersAssumption DEF Players, Empires
        <5>. QED BY <3>6, <5>1, <5>2 DEF PlayerIsHost
      <4>3. EventsOf(eventQueue) = {Current}
        BY <3>2 DEF EventsOf
      <4>4. ~HostLost
        BY <4>2, <4>3 DEF HostLost
      <4>. QED BY <2>1, <3>3, <4>1, <4>4 DEF ConnectedInv
    <3>. QED BY <3>5, <3>6
  <2>3. CASE ~HandleNonLobbyDisconnection
    <3>1. UNCHANGED <<m_host_player_id, m_player_connections>>
      BY <1>2, <2>3, ReactionConnections DEF React, HandleShutdownMessage, Deferred, TurnOrders,
         CheckTurnEndConditions, ProcessTurn, SaveGameRequest, ClientSaveData,
         UnconsumedSaveData, DropCheck
    <3>2. Current.type # "Disconnection"
      BY <1>2, <2>3 DEF React, HandleShutdownMessage, Deferred, DeferredTypes, TurnOrders,
         CheckTurnEndConditions, ProcessTurn, SaveGameRequest, ClientSaveData,
         UnconsumedSaveData, DropCheck
    <3>3. ~HostLost
      <4>1. ASSUME NEW e \in EventsOf(eventQueue), e.type = "Disconnection" PROVE FALSE
        <5>1. eventQueue = <<e>>
          BY <4>1 DEF LostInv
        <5>2. Current = e
          BY <5>1 DEF Current
        <5>. QED BY <3>2, <4>1, <5>2
      <4>. QED BY <4>1 DEF HostLost
    <3>. QED BY <2>1, <3>1, <3>3 DEF ConnectedInv
  <2>. QED BY <2>2, <2>3
<1>3. ASSUME NEW p \in Players, ReadFrom(p)
      PROVE  m_host_player_id' \in m_player_connections' \/ HostLost'
  <2>1. /\ EventsOf(eventQueue') = {Head(toServer[p])}
        /\ EventsOf(eventQueue) = {}
        /\ Head(toServer[p]).player = p
    BY <1>3, EventRead
  <2>2. /\ fsm # "Exited"
        /\ m_host_player_id' = m_host_player_id
        /\ m_player_connections' = IF Head(toServer[p]).type = "Disconnection"
                                   THEN m_player_connections \ {p}
                                   ELSE m_player_connections
    BY <1>3 DEF ReadFrom
  <2>3. m_host_player_id \in m_player_connections
    BY <2>1, <2>2 DEF ConnectedInv, HostLost
  <2>4. HostLost' = \E e \in EventsOf(eventQueue') :
                       e.type = "Disconnection" /\ e.player = m_host_player_id'
    BY DEF HostLost, EventsOf
  <2>. QED BY <2>1, <2>2, <2>3, <2>4
<1>. QED BY <1>1, <1>2, <1>3, ClientKeepsServer DEF Next, Server, ServerNext, vars

(* While no empire's player is lost, and the server has dealt with everything it *)
(* has read of lost connections, the host is connected: someone can save and     *)
(* stop the game.                                                                *)
THEOREM HostIsConnected == Spec => []HostConnected
<1>1. Init => LostInv /\ ConnectedInv
  BY DEF Init, ServerInit, LostInv, ConnectedInv, EventsOf, HostCandidates
<1>2. ConnectedInv => HostConnected
  BY DEF ConnectedInv, HostConnected, HostLost, Queued, EventsOf
<1>. QED BY <1>1, <1>2, LostStep, ConnectedStep, TypeCorrect, PTL DEF Spec

-----------------------------------------------------------------------------
(* The steps of a client.                                                        *)

LEMMA MessagesTaken ==
    ASSUME TypeOK, NEW p \in Players, Take(p), toClient[p] # <<>>, NEW q \in Players
    PROVE  EventsOf(toClient'[q]) \subseteq EventsOf(toClient[q])
<1>1. toClient[p] \in Seq(ClientMessages)
  BY DEF TypeOK
<1>2. EventsOf(Tail(toClient[p])) \subseteq EventsOf(toClient[p])
  BY <1>1, ElementsOfTail
<1>3. toClient'[q] = IF q = p THEN Tail(toClient[p]) ELSE toClient[q]
  BY DEF Take, TypeOK
<1>. QED BY <1>2, <1>3

(* A client only takes messages out of its connection.                           *)
LEMMA ClientNews ==
    ASSUME TypeOK, NEW p \in Players, ClientNext(p), NEW q \in Players
    PROVE  EventsOf(toClient'[q]) \subseteq EventsOf(toClient[q])
<1>1. CASE UNCHANGED toClient
  BY <1>1
<1>2. CASE Take(p) /\ toClient[p] # <<>>
  BY <1>2, MessagesTaken
<1>3. CASE ReceiveResponse(p)
  <2>1. PICK i \in DOMAIN toClient[p] :
          toClient' = [toClient EXCEPT
                ![p] = SubSeq(@, 1, i - 1) \o SubSeq(@, i + 1, Len(@))]
    BY <1>3 DEF ReceiveResponse
  <2>2. toClient[p] \in Seq(ClientMessages)
    BY DEF TypeOK
  <2>3. EventsOf(SubSeq(toClient[p], 1, i - 1) \o SubSeq(toClient[p], i + 1, Len(toClient[p])))
           \subseteq EventsOf(toClient[p])
    BY <2>2, ElementsOfDeletion
  <2>4. toClient'[q] = IF q = p
                      THEN SubSeq(toClient[p], 1, i - 1) \o SubSeq(toClient[p], i + 1, Len(toClient[p]))
                      ELSE toClient[q]
    BY <2>1 DEF TypeOK
  <2>. QED BY <2>3, <2>4
<1>. QED BY <1>1, <1>2, <1>3
     DEF ClientNext, Responds, NextMessage, IssueOrder, EndTurn, MenuSave, Quit, Crash, StartTurn,
         AnswerSaveGame, ReceiveHostID, ReceivePlayerStatus, ReceiveEndGame, LoseServer

LEMMA SentEvents ==
    ASSUME TypeOK, NEW p \in Players, NEW x \in EventsFrom(ReceivedTypes, {p}),
           Send(p, <<x>>), NEW q \in Players, NEW e \in EventsOf(toServer'[q])
    PROVE  e \in EventsOf(toServer[q]) \/ e = x
<1>1. /\ toServer[p] \in Seq(EventsFrom(ReceivedTypes, {p}))
      /\ <<x>> \in Seq(EventsFrom(ReceivedTypes, {p}))
  <2>1. toServer[p] \in Seq(EventsFrom(ReceivedTypes, {p}))
    BY ChannelTyped DEF TypeOK
  <2>2. <<x>> \in Seq(EventsFrom(ReceivedTypes, {p}))
    OBVIOUS
  <2>. QED BY <2>1, <2>2
<1>2. EventsOf(toServer[p] \o <<x>>) = EventsOf(toServer[p]) \cup EventsOf(<<x>>)
  BY <1>1, ElementsOfConcat
<1>3. EventsOf(<<x>>) = {x}
  BY DEF EventsOf
<1>4. toServer'[q] = IF q = p THEN toServer[p] \o <<x>> ELSE toServer[q]
  BY DEF Send, TypeOK, ServerChannels
<1>. QED BY <1>2, <1>3, <1>4

(* A client announces the end of its connection only when it leaves.             *)
LEMMA ClientSends ==
    ASSUME TypeOK, NEW p \in Players, ClientNext(p), NEW q \in Players,
           clientState'[q] # "Left", NEW e \in EventsOf(toServer'[q]),
           e.type = "Disconnection"
    PROVE  e \in EventsOf(toServer[q])
<1>1. ASSUME Leave(p), q # p, NEW s, toServer' = [toServer EXCEPT ![p] = s]
      PROVE  e \in EventsOf(toServer[q])
  BY <1>1 DEF TypeOK, ServerChannels
<1>2. Leave(p) => q # p
  BY DEF Leave, TypeOK
<1>3. ASSUME NEW type \in ReceivedTypes \ {"Disconnection"}, NEW turns \in OrderSets,
             Send(p, <<Event(type, p, turns)>>)
      PROVE  e \in EventsOf(toServer[q])
  <2>1. Event(type, p, turns) \in EventsFrom(ReceivedTypes, {p})
    BY ReceivedTyped
  <2>2. e \in EventsOf(toServer[q]) \/ e = Event(type, p, turns)
    BY <1>3, <2>1, SentEvents
  <2>. QED BY <2>2 DEF Event
<1>4. {} \in OrderSets /\ m_orders[p] \in OrderSets
  BY DEF TypeOK, OrderSets
<1>5. CASE UNCHANGED toServer
  BY <1>5
<1>6. CASE EndTurn(p)
  BY <1>3, <1>4, <1>6 DEF EndTurn, ReceivedTypes, DeferredTypes
<1>7. CASE StartTurn(p)
  BY <1>3, <1>4, <1>5, <1>7 DEF StartTurn, ReceivedTypes, DeferredTypes
<1>8. CASE MenuSave(p)
  BY <1>3, <1>4, <1>8 DEF MenuSave, ReceivedTypes, DeferredTypes
<1>9. CASE ReceiveResponse(p) \/ AnswerSaveGame(p)
  BY <1>3, <1>4, <1>9 DEF ReceiveResponse, AnswerSaveGame, SaveData, ReceivedTypes
<1>10. CASE ReceiveEndGame(p) \/ Quit(p)
  BY <1>1, <1>2, <1>10 DEF ReceiveEndGame, Quit, Send
<1>11. CASE Crash(p)
  <2>1. PICK n \in 0 .. Len(toServer[p]), noticed \in {<<>>, <<Event("Disconnection", p, {})>>} :
          toServer' = [toServer EXCEPT ![p] = SubSeq(@, 1, n) \o noticed]
    BY <1>11 DEF Crash
  <2>. QED BY <1>1, <1>2, <1>11, <2>1 DEF Crash
<1>. QED BY <1>5, <1>6, <1>7, <1>8, <1>9, <1>10, <1>11
     DEF ClientNext, Responds, IssueOrder, ReceiveHostID, ReceivePlayerStatus, LoseServer

(* Who has left stays away, believes no more to be the host, and only the news    *)
(* of a host makes a client that stays believe it.                                *)
LEMMA ClientBelief ==
    ASSUME TypeOK, NEW p \in Players, ClientNext(p), NEW q \in Players
    PROVE  /\ clientState[q] = "Left" => clientState'[q] = "Left" /\ isHost'[q] = isHost[q]
           /\ clientState'[q] = "Left" => clientState[q] = "Left" \/ ~isHost'[q]
           /\ isHost'[q] => \/ isHost[q]
                            \/ /\ clientState[q] # "Left"
                               /\ \E m \in EventsOf(toClient[q]) : m.type = "HOST_ID" /\ m.host = q
<1>1. CASE UNCHANGED <<clientState, isHost>>
  BY <1>1
<1>2. CASE Leave(p) /\ clientState[p] # "Left"
  BY <1>2 DEF Leave, TypeOK
<1>3. CASE EndTurn(p) \/ StartTurn(p)
  BY <1>3 DEF EndTurn, StartTurn, NextMessage, Reads, Running, TypeOK
<1>4. CASE ReceiveHostID(p)
  <2>1. /\ clientState[p] # "Left" /\ toClient[p] # <<>>
        /\ Head(toClient[p]).type = "HOST_ID"
        /\ UNCHANGED clientState
        /\ isHost'[q] = IF q = p THEN Head(toClient[p]).host = p ELSE isHost[q]
    BY <1>4 DEF ReceiveHostID, NextMessage, Reads, Running, TypeOK
  <2>2. Head(toClient[p]) \in EventsOf(toClient[p])
    BY <2>1, ElementsOfTail DEF TypeOK
  <2>. QED BY <2>1, <2>2
<1>. QED BY <1>1, <1>2, <1>3, <1>4
     DEF ClientNext, Responds, NextMessage, Reads, Running, IssueOrder, MenuSave, Quit, Crash,
         ReceiveResponse, AnswerSaveGame, ReceivePlayerStatus, ReceiveEndGame, LoseServer,
         clientVars

-----------------------------------------------------------------------------
(* Who believes to be the host.                                                  *)

(* A client that has left does not. For one that stays, no disconnection is under *)
(* way, so the server keeps it as its host; whatever it is told, late or not, of  *)
(* its being the host is true.                                                    *)
HostInv ==
    /\ \A p \in Players : isHost[p] => m_host_player_id = p /\ clientState[p] # "Left"
    /\ \A p \in Players : clientState[p] # "Left" =>
          /\ \A e \in EventsOf(toServer[p]) : e.type # "Disconnection"
          /\ \A m \in EventsOf(toClient[p]) :
                m.type = "HOST_ID" /\ m.host = p => m_host_player_id = p
    /\ \A e \in EventsOf(eventQueue) :
          e.type = "Disconnection" => clientState[e.player] = "Left"

(* A host is replaced when it has left.                                           *)
LEMMA HostReplaced ==
    ASSUME TypeOK, HostInv, React
    PROVE  \/ m_host_player_id' = m_host_player_id
           \/ clientState[m_host_player_id] = "Left"
<1>1. CASE UNCHANGED m_host_player_id
  BY <1>1
<1>2. CASE HandleNonLobbyDisconnection
  <2>1. Current.type = "Disconnection" /\ Current \in EventsOf(eventQueue)
    BY <1>2, CurrentQueued DEF HandleNonLobbyDisconnection, Dispatching
  <2>2. clientState[Current.player] = "Left"
    BY <2>1 DEF HostInv
  <2>. QED BY <1>2, <2>2 DEF HandleNonLobbyDisconnection, PlayerIsHost
<1>. QED BY <1>1, <1>2
     DEF React, HandleShutdownMessage, Deferred, TurnOrders, CheckTurnEndConditions, ProcessTurn,
         SaveGameRequest, ClientSaveData, UnconsumedSaveData, DropCheck

LEMMA HostStep == TypeOK /\ LostInv /\ HostInv /\ [Next]_vars => HostInv'
<1>. SUFFICES ASSUME TypeOK, LostInv, HostInv, [Next]_vars PROVE HostInv'
  OBVIOUS
<1>1. HostInv' =
        /\ \A p \in Players : isHost'[p] => m_host_player_id' = p /\ clientState'[p] # "Left"
        /\ \A p \in Players : clientState'[p] # "Left" =>
              /\ \A e \in EventsOf(toServer'[p]) : e.type # "Disconnection"
              /\ \A m \in EventsOf(toClient'[p]) :
                    m.type = "HOST_ID" /\ m.host = p => m_host_player_id' = p
        /\ \A e \in EventsOf(eventQueue') :
              e.type = "Disconnection" => clientState'[e.player] = "Left"
  BY DEF HostInv, EventsOf
<1>2. CASE UNCHANGED vars
  BY <1>1, <1>2 DEF vars, serverVars, clientVars, HostInv
<1>3. ASSUME React, UNCHANGED clientVars PROVE HostInv'
  <2>1. UNCHANGED <<clientState, isHost, toServer>>
    BY <1>3 DEF clientVars, React, HandleShutdownMessage, Deferred, TurnOrders,
                CheckTurnEndConditions, ProcessTurn, SaveGameRequest, ClientSaveData,
                UnconsumedSaveData, DropCheck, HandleNonLobbyDisconnection
  <2>2. \A p \in Players : m_host_player_id = p /\ clientState[p] # "Left" =>
                             m_host_player_id' = p
    BY <1>3, HostReplaced
  <2>3. ASSUME NEW p \in Players, isHost'[p]
        PROVE  m_host_player_id' = p /\ clientState'[p] # "Left"
    BY <2>1, <2>2, <2>3 DEF HostInv
  <2>4. ASSUME NEW p \in Players, clientState'[p] # "Left", NEW e \in EventsOf(toServer'[p])
        PROVE  e.type # "Disconnection"
    BY <2>1, <2>4 DEF HostInv
  <2>5. ASSUME NEW p \in Players, clientState'[p] # "Left", NEW m \in EventsOf(toClient'[p]),
               m.type = "HOST_ID", m.host = p
        PROVE  m_host_player_id' = p
    <3>1. m \in EventsOf(toClient[p]) \/ m.host = m_host_player_id'
      BY <1>3, <2>5, NewsOfHost
    <3>. QED BY <2>1, <2>2, <2>5, <3>1 DEF HostInv
  <2>6. \A e \in EventsOf(eventQueue') : e.type # "Disconnection"
    BY <1>3, DisconnectionsDispatched
  <2>. QED BY <1>1, <2>3, <2>4, <2>5, <2>6
<1>4. ASSUME NEW p \in Players, ReadFrom(p), UNCHANGED clientVars PROVE HostInv'
  <2>1. /\ Head(toServer[p]).player = p
        /\ Head(toServer[p]) \in EventsOf(toServer[p])
        /\ EventsOf(Tail(toServer[p])) \subseteq EventsOf(toServer[p])
        /\ EventsOf(eventQueue') = {Head(toServer[p])}
    BY <1>4, EventRead
  <2>2. /\ UNCHANGED <<clientState, isHost, toClient, m_host_player_id>>
        /\ \A q \in Players : toServer'[q] = IF q = p THEN Tail(toServer[p]) ELSE toServer[q]
    BY <1>4 DEF ReadFrom, clientVars, TypeOK, ServerChannels
  <2>3. \A q \in Players : EventsOf(toServer'[q]) \subseteq EventsOf(toServer[q])
    BY <2>1, <2>2
  <2>4. \A e \in EventsOf(eventQueue') :
          e.type = "Disconnection" => clientState[e.player] = "Left"
    BY <2>1 DEF HostInv
  <2>. QED BY <1>1, <2>2, <2>3, <2>4 DEF HostInv
<1>5. ASSUME NEW p \in Players, ClientNext(p) PROVE HostInv'
  <2>1. UNCHANGED <<m_host_player_id, eventQueue>>
    BY <1>5, ClientKeepsServer DEF serverVars
  <2>2. ASSUME NEW q \in Players
        PROVE  /\ clientState[q] = "Left" => clientState'[q] = "Left" /\ isHost'[q] = isHost[q]
               /\ clientState'[q] = "Left" => clientState[q] = "Left" \/ ~isHost'[q]
               /\ isHost'[q] => \/ isHost[q]
                                \/ /\ clientState[q] # "Left"
                                   /\ \E m \in EventsOf(toClient[q]) : m.type = "HOST_ID" /\ m.host = q
    BY <1>5, ClientBelief
  <2>3. ASSUME NEW q \in Players, isHost'[q]
        PROVE  m_host_player_id' = q /\ clientState'[q] # "Left"
    BY <2>1, <2>2, <2>3 DEF HostInv
  <2>4. ASSUME NEW q \in Players, clientState'[q] # "Left", NEW e \in EventsOf(toServer'[q])
        PROVE  e.type # "Disconnection"
    BY <1>5, <2>2, <2>4, ClientSends DEF HostInv
  <2>5. ASSUME NEW q \in Players, clientState'[q] # "Left", NEW m \in EventsOf(toClient'[q]),
               m.type = "HOST_ID", m.host = q
        PROVE  m_host_player_id' = q
    <3>1. m \in EventsOf(toClient[q])
      BY <1>5, <2>5, ClientNews
    <3>. QED BY <2>1, <2>2, <2>5, <3>1 DEF HostInv
  <2>6. ASSUME NEW e \in EventsOf(eventQueue'), e.type = "Disconnection"
        PROVE  clientState'[e.player] = "Left"
    <3>1. e.player \in Players /\ clientState[e.player] = "Left"
      BY <2>1, <2>6 DEF LostInv, HostInv
    <3>. QED BY <2>2, <3>1
  <2>. QED BY <1>1, <2>3, <2>4, <2>5, <2>6
<1>. QED BY <1>2, <1>3, <1>4, <1>5 DEF Next, Server, ServerNext

(* A client that believes to be the host is the server's host, whatever is still *)
(* on its way: no two clients both save and shut down the game.                  *)
THEOREM HostIsAgreed == Spec => []HostAgreed
<1>1. Init => LostInv /\ HostInv
  <2>. SUFFICES ASSUME Init PROVE LostInv /\ HostInv
    OBVIOUS
  <2>1. EventsOf(eventQueue) = {}
    BY DEF Init, ServerInit, EventsOf
  <2>2. \A p \in Players : /\ EventsOf(toServer[p]) = {}
                           /\ \A m \in EventsOf(toClient[p]) : m.type = "TURN_UPDATE"
    BY DEF Init, ServerInit, EventsOf
  <2>3. \A p \in Players : /\ isHost[p] <=> p = m_host_player_id
                           /\ clientState[p] = "WaitingForTurnData"
    BY DEF Init, ClientInit
  <2>. QED BY <2>1, <2>2, <2>3 DEF LostInv, HostInv
<1>2. HostInv => HostAgreed
  BY DEF HostInv, HostAgreed
<1>. QED BY <1>1, <1>2, LostStep, HostStep, TypeCorrect, PTL DEF Spec

-----------------------------------------------------------------------------
(* The end of the game.                                                          *)

(* The last reaction was to write to someone who is gone, the game was over, or   *)
(* the host asked for it.                                                        *)
LEMMA LastReaction ==
    ASSUME TypeOK, React, fsm' = "Exited"
    PROVE  \/ HandleShutdownMessage /\ PlayerIsHost(Current.player)
           \/ HandleNonLobbyDisconnection /\ NoHumansLeft
           \/ /\ Current.type \notin SilentReactions
              /\ m_player_connections \cap Gone # {}
<1>. USE DEF Dispatching, SilentReactions
<1>1. fsm # "Exited"
  BY QueueMoves
<1>2. ASSUME NEW ps, NEW reached, NEW next, next # "Exited", ps \subseteq m_player_connections,
             Written(ps, reached, next)
      PROVE  m_player_connections \cap Gone # {}
  BY <1>2, WrittenOutcome DEF Gone, TypeOK
<1>3. ASSUME NEW ps, NEW next, next # "Exited", ps \subseteq m_player_connections,
             ErrorsWritten(ps, next)
      PROVE  m_player_connections \cap Gone # {}
  BY <1>3, ErrorsWrittenOutcome DEF Gone, TypeOK
<1>4. CASE HandleShutdownMessage
  BY <1>1, <1>4 DEF HandleShutdownMessage
<1>5. CASE TurnOrders
  BY <1>1, <1>2, <1>3, <1>5 DEF TurnOrders, RejectTurnOrders, ModeratorEndsTurn, StoreTurnOrders
<1>6. CASE ProcessTurn
  BY <1>2, <1>6 DEF ProcessTurn
<1>7. CASE SaveGameRequest
  BY <1>1, <1>2, <1>7 DEF SaveGameRequest
<1>8. CASE ClientSaveData
  BY <1>1, <1>3, <1>8 DEF ClientSaveData
<1>9. CASE HandleNonLobbyDisconnection
  <2>1. CASE NoHumansLeft
    BY <1>9, <2>1
  <2>2. CASE ~NoHumansLeft
    <3>1. StateAfterLoss = fsm
      BY <2>2 DEF StateAfterLoss
    <3>2. HostInformed(m_host_player_id) \subseteq m_player_connections
      BY DEF HostInformed
    <3>3. m_player_connections \cap Gone # {}
      BY <1>1, <1>2, <1>9, <3>1, <3>2 DEF HandleNonLobbyDisconnection
    <3>. QED BY <1>9, <3>3 DEF HandleNonLobbyDisconnection
  <2>. QED BY <2>1, <2>2
<1>. QED BY <1>1, <1>4, <1>5, <1>6, <1>7, <1>8, <1>9
     DEF React, Deferred, CheckTurnEndConditions, UnconsumedSaveData, DropCheck

LEMMA ExitStep == TypeOK /\ [Next]_vars =>
    (fsm # "Exited" /\ fsm' = "Exited" =>
        \/ Current.type = "Shutdown" /\ Current.player = m_host_player_id
        \/ ~(Empires \subseteq m_player_connections)
        \/ m_player_connections \subseteq AIs
        \/ /\ Current.type \notin SilentReactions
           /\ m_player_connections \cap Gone # {})
<1>. SUFFICES ASSUME TypeOK, [Next]_vars, fsm # "Exited", fsm' = "Exited",
                     Empires \subseteq m_player_connections
              PROVE  \/ Current.type = "Shutdown" /\ Current.player = m_host_player_id
                     \/ m_player_connections \subseteq AIs
                     \/ /\ Current.type \notin SilentReactions
                        /\ m_player_connections \cap Gone # {}
  OBVIOUS
<1>1. React
  BY ClientKeepsServer DEF Next, Server, ServerNext, ReadFrom, vars, serverVars
<1>2. CASE HandleShutdownMessage /\ PlayerIsHost(Current.player)
  BY <1>2 DEF HandleShutdownMessage, Dispatching, PlayerIsHost
<1>3. CASE NoHumansLeft
  <2>1. ASSUME Cardinality(m_player_connections) = Cardinality(AIs)
        PROVE  m_player_connections = AIs
    <3>1. IsFiniteSet(m_player_connections)
      <4>1. IsFiniteSet(Players)
        BY PlayersAssumption DEF Players, Empires
      <4>. QED BY <4>1, FS_Subset DEF TypeOK
    <3>2. AIs \subseteq m_player_connections
      BY DEF Empires
    <3>. QED BY <2>1, <3>1, <3>2, FS_Subset
  <2>. QED BY <1>3, <2>1 DEF NoHumansLeft
<1>. QED BY <1>1, <1>2, <1>3, LastReaction

(* The server stops only on the request of its host, when an empire's player is  *)
(* lost, when only AI players are left - counting the connections against the AI  *)
(* processes once started never takes a human for one of them - or when it        *)
(* writes to a player whose client is gone without the server knowing.           *)
THEOREM ExitsWhenOver == Spec => ExitsOnlyWhenOver
BY ExitStep, TypeCorrect, PTL DEF Spec, ExitsOnlyWhenOver
=============================================================================
