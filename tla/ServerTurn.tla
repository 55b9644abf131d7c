------------------------------ MODULE ServerTurn ------------------------------
(***************************************************************************)
(* The server while a game is played: the states of ServerFSM under         *)
(* PlayingGame (server/ServerFSM.cpp) with the parts of ServerApp and       *)
(* ServerNetworking they read and write.                                    *)
(*                                                                          *)
(* The machine is a boost::statechart one, run to completion on a single    *)
(* thread: an event is dispatched at once, the events it posts wait in      *)
(* eventQueue, and nothing is read from a client until that queue is empty. *)
(* A state that defers an event keeps a copy and gives the copies back, at  *)
(* the FRONT of the queue, when it is left.                                 *)
(***************************************************************************)
EXTENDS Naturals, Sequences, FiniteSets

CONSTANTS AIs, Humans,            \* players with an empire
          Observers, Moderators,  \* players without
          NoPlayer                \* Networking::INVALID_PLAYER_ID

ASSUME PlayersAssumption ==
    /\ Humans \cap AIs = {}
    /\ Observers \cap (AIs \cup Humans) = {}
    /\ Moderators \cap (AIs \cup Humans \cup Observers) = {}
    /\ NoPlayer \notin AIs \cup Humans \cup Observers \cup Moderators
    /\ IsFiniteSet(AIs \cup Humans \cup Observers \cup Moderators)

Empires == AIs \cup Humans
Players == Empires \cup Observers \cup Moderators

VARIABLES
    fsm,                    \* the innermost active state
    eventQueue,             \* events posted or given back, in dispatch order
    deferredEvents,         \* copies held by the current deferring state
    m_turn_sequence,        \* empire -> its OrderSet*, null or submitted
    m_current_turn,
    m_host_player_id,
    m_player_connections,   \* the established players
    m_needed_reponses, m_players_responded, m_player_save_game_data,
    saveFile,               \* what the last successful SaveGame wrote
    executed,               \* the order sets the last turn processing executed
    toClient, toServer,     \* the FIFO connections, one each way per player
    clientState             \* of each client, "Left" once its end of them is gone

serverVars == <<fsm, eventQueue, deferredEvents, m_turn_sequence, m_current_turn,
                m_host_player_id, m_player_connections, m_needed_reponses,
                m_players_responded, m_player_save_game_data, saveFile, executed>>

-----------------------------------------------------------------------------
(* An order is represented by the turn its client was playing when it was    *)
(* issued, an OrderSet by the set of those turns; {} is the empty OrderSet.  *)
OrderSets == SUBSET Nat
TurnEntries == [got : BOOLEAN, turns : OrderSets]
NullOrders == [got |-> FALSE, turns |-> {}]

(* An event made from a message refers to the sender's connection through a  *)
(* reference to a parameter of ServerApp::HandleMessage: a deferred copy      *)
(* outlives that parameter and its reference dangles.                         *)
DeferredTypes == {"TurnOrders", "SaveGameRequest"}
ReceivedTypes == DeferredTypes \cup {"ClientSaveData", "Disconnection", "Shutdown"}
PostedTypes == {"CheckTurnEndConditions", "ProcessTurn"}

EventsFrom(types, ps) ==
    [type : types, player : ps, turns : OrderSets, dangling : BOOLEAN]
Events == EventsFrom(ReceivedTypes, Players) \cup EventsFrom(PostedTypes, {NoPlayer})
Event(type, p, turns) ==
    [type |-> type, player |-> p, turns |-> turns, dangling |-> FALSE]
Posted(type) == Event(type, NoPlayer, {})

(* The connection a handler reads: what a dangling reference designates is    *)
(* any connection the server holds.                                           *)
ConnectionOf(e) == IF e.dangling THEN m_player_connections ELSE {e.player}

ClientMessages == [type : {"TURN_UPDATE"}, turn : Nat]
             \cup [type : {"SAVE_GAME"}, sync : BOOLEAN]
             \cup [type : {"HOST_ID"}, host : Players \cup {NoPlayer}]
             \cup [type : {"END_GAME"}]
             \cup [type : {"PLAYER_STATUS"}, players : SUBSET AIs, waiting : BOOLEAN]

SaveEntries == [player : Players, turns : OrderSets]

-----------------------------------------------------------------------------
(* Sending. Of the statuses only those of AI players decide anything, in      *)
(* CanSaveNow; of TURN_PROGRESS, TURN_PARTIAL_UPDATE and error messages only   *)
(* that they are written.                                                      *)
SendTo(ps, ms) ==
    toClient' = [p \in Players |-> IF p \in ps THEN toClient[p] \o ms
                                                ELSE toClient[p]]
PlayerStatus(ps, waiting) ==
    IF ps = {} THEN <<>>
    ELSE << [type |-> "PLAYER_STATUS", players |-> ps, waiting |-> waiting] >>

Current == Head(eventQueue)
Dispatching(type) == /\ fsm # "Exited"
                     /\ eventQueue # <<>>
                     /\ Current.type = type

Discard == eventQueue' = Tail(eventQueue)

Post(type) == eventQueue' = Append(Tail(eventQueue), Posted(type))

(* Leaving a deferring state: its copies go to the front, before what was     *)
(* posted.                                                                    *)
LeaveDeferring(posted) ==
    /\ eventQueue' = deferredEvents \o Tail(eventQueue) \o posted
    /\ deferredEvents' = <<>>

(* ServerApp::ClearEmpireTurnOrders: every entry stays, its orders go.          *)
TurnOrdersErased == [e \in {} |-> NullOrders]                         \* a mutant
TurnOrdersKept == m_turn_sequence                                    \* a mutant
ClearedTurnOrders == [e \in Empires |-> NullOrders]

ModeratorsIgnored == FALSE                                           \* a mutant
ModeratorsInGame == m_player_connections \cap Moderators # {}
AnyPlayerIsHost(p) == p # NoPlayer                                   \* a mutant
PlayerIsHost(p) == p # NoPlayer /\ p = m_host_player_id
AllOrdersReceived == \A e \in Empires : m_turn_sequence[e].got

Exit == /\ fsm' = "Exited"
        /\ m_player_connections' = {}

(* A reaction that writes to the players ps reaches them all and goes on to    *)
(* the state next. Or the other end of one of the connections is gone and      *)
(* boost::asio::write throws: nothing catches that before main() does, and the *)
(* server process ends, having reached some.                                   *)
Written(ps, reached, next) ==
    \/ /\ reached = ps
       /\ IF next = "Exited" THEN Exit ELSE fsm' = next /\ UNCHANGED m_player_connections
    \/ /\ \E p \in ps : clientState[p] = "Left"
       /\ reached \subseteq {p \in ps : clientState[p] # "Left"}
       /\ Exit
ErrorsWritten(ps, next) == \E reached \in SUBSET ps : Written(ps, reached, next)

-----------------------------------------------------------------------------
(* ServerNetworking reads the next message of a client, or the end of its     *)
(* connection, and hands it to the state machine. The end of a connection     *)
(* removes it first (ServerNetworking::DisconnectImpl).                       *)
ReadFrom(p) ==
    /\ fsm # "Exited"
    /\ eventQueue = <<>>
    /\ p \in m_player_connections
    /\ toServer[p] # <<>>
    /\ eventQueue' = <<Head(toServer[p])>>
    /\ toServer' = [toServer EXCEPT ![p] = Tail(@)]
    /\ m_player_connections' = IF Head(toServer[p]).type = "Disconnection"
                               THEN m_player_connections \ {p}
                               ELSE m_player_connections
    /\ UNCHANGED <<fsm, deferredEvents, m_turn_sequence, m_current_turn,
                   m_host_player_id, m_needed_reponses, m_players_responded,
                   m_player_save_game_data, saveFile, executed, toClient>>

(* ServerApp::HandleShutdownMessage: only the host may stop the server.       *)
HandleShutdownMessage ==
    /\ Dispatching("Shutdown")
    /\ Discard
    /\ IF PlayerIsHost(Current.player)
       THEN Exit
       ELSE UNCHANGED <<fsm, m_player_connections>>
    /\ UNCHANGED <<deferredEvents, m_turn_sequence, m_current_turn, m_host_player_id,
                   m_needed_reponses, m_players_responded, m_player_save_game_data,
                   saveFile, executed, toClient, toServer>>

(* WaitingForSaveData and ProcessingTurn defer what must wait for them.       *)
KeptNothing == deferredEvents                                        \* a mutant
KeptEvents == Append(deferredEvents, [Current EXCEPT !.dangling = TRUE])

Deferred ==
    /\ fsm \in {"WaitingForSaveData", "ProcessingTurn"}
    /\ eventQueue # <<>>
    /\ Current.type \in DeferredTypes
    /\ Discard
    /\ deferredEvents' = KeptEvents
    /\ UNCHANGED <<fsm, m_turn_sequence, m_current_turn, m_host_player_id,
                   m_player_connections, m_needed_reponses, m_players_responded,
                   m_player_save_game_data, saveFile, executed, toClient, toServer>>

(* WaitingForTurnEnd::react(TurnOrders), reached from WaitingForTurnEndIdle.  *)
(* The type is the connection's, the empire the sender's. A client's orders   *)
(* always name its own empire, so the check of each order's empire passes.    *)
RejectTurnOrders(c) ==
    /\ \/ c \in Observers
       \/ c \in Empires /\ Current.player \notin Empires
    /\ Discard
    /\ ErrorsWritten({Current.player} \cap m_player_connections, fsm)
    /\ UNCHANGED <<m_turn_sequence, toClient>>

ModeratorEndsTurn(c) ==
    /\ c \in Moderators
    /\ Post("ProcessTurn")
    /\ fsm' = "ProcessingTurn"
    /\ UNCHANGED <<m_turn_sequence, m_player_connections, toClient>>

StoreTurnOrders(c) ==
    /\ c \in Empires
    /\ Current.player \in Empires
    /\ m_turn_sequence' = [m_turn_sequence EXCEPT
                              ![Current.player] = [got |-> TRUE, turns |-> Current.turns]]
    /\ Post("CheckTurnEndConditions")
    /\ \E reached \in SUBSET m_player_connections :
          /\ SendTo(reached, PlayerStatus({Current.player} \cap AIs, TRUE))
          /\ Written(m_player_connections, reached, fsm)

TurnOrders ==
    /\ fsm = "WaitingForTurnEndIdle"
    /\ Dispatching("TurnOrders")
    /\ \E c \in ConnectionOf(Current) :
          RejectTurnOrders(c) \/ ModeratorEndsTurn(c) \/ StoreTurnOrders(c)
    /\ UNCHANGED <<deferredEvents, m_current_turn, m_host_player_id, m_needed_reponses,
                   m_players_responded, m_player_save_game_data, saveFile, executed,
                   toServer>>

(* WaitingForTurnEnd::react(CheckTurnEndConditions). WaitingForSaveData does  *)
(* not defer it, so a turn may end, and the save with it, in the middle of a  *)
(* save.                                                                      *)
NoEvents == <<>>                                                     \* a mutant
EventsEndingTurn == <<Posted("ProcessTurn")>>

CheckTurnEndConditions ==
    /\ fsm \in {"WaitingForTurnEndIdle", "WaitingForSaveData"}
    /\ Dispatching("CheckTurnEndConditions")
    /\ IF ~ModeratorsInGame /\ AllOrdersReceived
       THEN /\ fsm' = "ProcessingTurn"
            /\ LeaveDeferring(EventsEndingTurn)
       ELSE /\ Discard
            /\ UNCHANGED <<fsm, deferredEvents>>
    /\ UNCHANGED <<m_turn_sequence, m_current_turn, m_host_player_id,
                   m_player_connections, m_needed_reponses, m_players_responded,
                   m_player_save_game_data, saveFile, executed, toClient, toServer>>

(* ProcessingTurn::react(ProcessTurn): PreCombatProcessTurns executes and     *)
(* clears the order sets, PostCombatProcessTurns advances the turn and sends  *)
(* TURN_UPDATE to every established player; then every player plays.          *)
ProcessTurn ==
    /\ fsm = "ProcessingTurn"
    /\ Dispatching("ProcessTurn")
    /\ executed' = [e \in Empires |-> m_turn_sequence[e].turns]
    /\ m_turn_sequence' = ClearedTurnOrders
    /\ m_current_turn' = m_current_turn + 1
    /\ LeaveDeferring(<<>>)
    /\ \E reached \in SUBSET m_player_connections :
          /\ SendTo(reached, << [type |-> "TURN_UPDATE", turn |-> m_current_turn'] >>
                             \o PlayerStatus(m_player_connections \cap AIs, FALSE))
          /\ Written(m_player_connections, reached, "WaitingForTurnEndIdle")
    /\ UNCHANGED <<m_host_player_id, m_needed_reponses, m_players_responded,
                   m_player_save_game_data, saveFile, toServer>>

(* WaitingForTurnEndIdle::react(SaveGameRequest) and the constructor of       *)
(* WaitingForSaveData, which asks every established player for save data.     *)
AsyncSaveGameMessage(p) == [type |-> "SAVE_GAME", sync |-> FALSE]     \* a mutant
SaveGameMessage(p) == [type |-> "SAVE_GAME", sync |-> PlayerIsHost(p)]

HumansAsked == m_player_connections \ AIs                             \* a mutant
PlayersAsked == m_player_connections

SaveGameRequest ==
    /\ fsm = "WaitingForTurnEndIdle"
    /\ Dispatching("SaveGameRequest")
    /\ Discard
    /\ \E c \in ConnectionOf(Current) :
          IF PlayerIsHost(c)
          THEN /\ m_needed_reponses' = PlayersAsked
               /\ m_players_responded' = {}
               /\ m_player_save_game_data' = <<>>
               /\ \E reached \in SUBSET m_player_connections :
                     /\ toClient' = [p \in Players |->
                           IF p \in reached THEN Append(toClient[p], SaveGameMessage(p))
                                            ELSE toClient[p]]
                     /\ Written(m_player_connections, reached, "WaitingForSaveData")
          ELSE UNCHANGED <<fsm, m_player_connections, m_needed_reponses,
                           m_players_responded, m_player_save_game_data, toClient>>
    /\ UNCHANGED <<deferredEvents, m_turn_sequence, m_current_turn, m_host_player_id,
                   saveFile, executed, toServer>>

(* WaitingForSaveData::react(ClientSaveData): orders the server already has   *)
(* take the place of the ones received. With the last response the game is    *)
(* saved, or the save fails with an error message.                            *)
SaveEntry(p, turns) ==
    [player |-> p, turns |-> IF p \in Empires /\ m_turn_sequence[p].got
                             THEN m_turn_sequence[p].turns
                             ELSE turns]

HostResponded(responded) == m_host_player_id \in responded            \* a mutant
AllResponded(responded) == responded = m_needed_reponses

ClientSaveData ==
    /\ fsm = "WaitingForSaveData"
    /\ Dispatching("ClientSaveData")
    /\ m_player_save_game_data' = Append(m_player_save_game_data,
                                         SaveEntry(Current.player, Current.turns))
    /\ m_players_responded' = m_players_responded \cup {Current.player}
    /\ IF AllResponded(m_players_responded')
       THEN /\ \/ /\ saveFile' = [turn |-> m_current_turn, data |-> m_player_save_game_data']
                  /\ fsm' = "WaitingForTurnEndIdle"
                  /\ UNCHANGED m_player_connections
               \/ /\ UNCHANGED saveFile
                  /\ ErrorsWritten(m_player_connections, "WaitingForTurnEndIdle")
            /\ LeaveDeferring(<<>>)
       ELSE /\ Discard
            /\ UNCHANGED <<saveFile, fsm, m_player_connections, deferredEvents>>
    /\ UNCHANGED <<m_turn_sequence, m_current_turn, m_host_player_id, m_needed_reponses,
                   executed, toClient, toServer>>

(* Save data nobody waits for: ServerFSM::unconsumed_event only logs it.      *)
UnconsumedSaveData ==
    /\ fsm # "WaitingForSaveData"
    /\ Dispatching("ClientSaveData")
    /\ Discard
    /\ UNCHANGED <<fsm, deferredEvents, m_turn_sequence, m_current_turn,
                   m_host_player_id, m_player_connections, m_needed_reponses,
                   m_players_responded, m_player_save_game_data, saveFile, executed,
                   toClient, toServer>>

(* ProcessingTurn::react(CheckTurnEndConditions)                              *)
DropCheck ==
    /\ fsm = "ProcessingTurn"
    /\ Dispatching("CheckTurnEndConditions")
    /\ Discard
    /\ UNCHANGED <<fsm, deferredEvents, m_turn_sequence, m_current_turn,
                   m_host_player_id, m_player_connections, m_needed_reponses,
                   m_players_responded, m_player_save_game_data, saveFile, executed,
                   toClient, toServer>>

(* ServerApp::SelectNewHost: the last human, observer or moderator met in the *)
(* connections, which are ordered by their addresses; HOST_ID to the others,   *)
(* and before it an error message if nobody is found.                          *)
SpectatorCandidates == m_player_connections \cap (Observers \cup Moderators) \* a mutant
HostCandidates == m_player_connections \cap (Humans \cup Observers \cup Moderators)

OthersInformed(old) == m_player_connections \ {m_host_player_id'}     \* a mutant
HostInformed(old) == m_player_connections \ {old}

SelectNewHost(reached) ==
    /\ m_host_player_id' \in IF HostCandidates = {} THEN {NoPlayer} ELSE HostCandidates
    /\ SendTo(reached, << [type |-> "HOST_ID", host |-> m_host_player_id'] >>)

(* ServerFSM::HandleNonLobbyDisconnection. The AI processes are counted from  *)
(* the start of the game, whether or not they still run. No player is         *)
(* eliminated: nothing adds to m_eliminated_players.                          *)
HumanPlayerLost(p) == p \in Humans                                   \* a mutant
ActivePlayerLost(p) == p \in Empires

OnlyEmpiresLeft == Cardinality(m_player_connections) = Cardinality(Empires) \* a mutant
NoHumansLeft == \/ m_player_connections = {}
                \/ Cardinality(m_player_connections) = Cardinality(AIs)
StateAfterLoss == IF NoHumansLeft THEN "Exited" ELSE fsm

HandleNonLobbyDisconnection ==
    /\ Dispatching("Disconnection")
    /\ Discard
    /\ \E reached \in SUBSET m_player_connections :
          IF ActivePlayerLost(Current.player)
          THEN /\ SendTo(reached, << [type |-> "END_GAME"] >>)
               /\ Written(m_player_connections, reached, StateAfterLoss)
               /\ UNCHANGED m_host_player_id
          ELSE IF PlayerIsHost(Current.player)
          THEN /\ SelectNewHost(reached)
               /\ Written(HostInformed(m_host_player_id), reached, StateAfterLoss)
          ELSE /\ Written({}, reached, StateAfterLoss)
               /\ UNCHANGED <<m_host_player_id, toClient>>
    /\ UNCHANGED <<deferredEvents, m_turn_sequence, m_current_turn, m_needed_reponses,
                   m_players_responded, m_player_save_game_data, saveFile, executed,
                   toServer>>

-----------------------------------------------------------------------------
(* The server enters PlayingGame at the end of NewGameInit, with GAME_START,   *)
(* here the TURN_UPDATE of turn 1, on its way to every player.                 *)
ServerInit ==
    /\ fsm = "WaitingForTurnEndIdle"
    /\ eventQueue = <<>>
    /\ deferredEvents = <<>>
    /\ m_turn_sequence = [e \in Empires |-> NullOrders]
    /\ m_current_turn = 1
    /\ m_player_connections = Players
    /\ m_host_player_id \in HostCandidates
    /\ m_needed_reponses = {}
    /\ m_players_responded = {}
    /\ m_player_save_game_data = <<>>
    /\ saveFile = [turn |-> 0, data |-> <<>>]
    /\ executed = [e \in Empires |-> {}]
    /\ toClient = [p \in Players |-> << [type |-> "TURN_UPDATE", turn |-> 1] >>]
    /\ toServer = [p \in Players |-> <<>>]

React == \/ HandleShutdownMessage
         \/ Deferred
         \/ TurnOrders
         \/ CheckTurnEndConditions
         \/ ProcessTurn
         \/ SaveGameRequest
         \/ ClientSaveData
         \/ UnconsumedSaveData
         \/ DropCheck
         \/ HandleNonLobbyDisconnection

ServerNext == React \/ \E p \in Players : ReadFrom(p)
=============================================================================
