----------------------------- MODULE GameSession -----------------------------
(***************************************************************************)
(* A game session: the server and its clients, joined by one FIFO           *)
(* connection each way per player.                                          *)
(***************************************************************************)
EXTENDS GameClients

Init == ServerInit /\ ClientInit

Server == ServerNext /\ UNCHANGED clientVars

Next == \/ Server
        \/ \E p \in Players : ClientNext(p)

Spec == Init /\ [][Next]_vars

(* The server's io_service runs every handler that is ready and reads every     *)
(* connection in its turn, however busy the others are; a client's main loop     *)
(* handles every message that has come. That players end their turns is an       *)
(* assumption on the users and on the AI scripts.                                *)
ProcessesRun == /\ WF_vars(React /\ UNCHANGED clientVars)
                /\ \A p \in Players : /\ SF_vars(ReadFrom(p) /\ UNCHANGED clientVars)
                                      /\ WF_vars(Responds(p))
PlayersEndTurns == \A p \in Empires : WF_vars(EndTurn(p))

FairSpec == Spec /\ ProcessesRun /\ PlayersEndTurns

-----------------------------------------------------------------------------
EventsOf(s) == {s[i] : i \in DOMAIN s}

(* What a connection carries to the server: messages of its own player only    *)
(* (ServerApp::HandleMessage drops any other), and the end of the connection.  *)
ServerChannels ==
    {f \in [Players -> Seq(EventsFrom(ReceivedTypes, Players))] :
        \A p \in Players : f[p] \in Seq(EventsFrom(ReceivedTypes, {p}))}

(* The values every variable stays within; the server, its queue and both     *)
(* directions of every connection.                                            *)
TypeOK ==
    /\ fsm \in {"WaitingForTurnEndIdle", "WaitingForSaveData", "ProcessingTurn", "Exited"}
    /\ eventQueue \in Seq(Events)
    /\ deferredEvents \in Seq(EventsFrom(DeferredTypes, Players))
    /\ m_turn_sequence \in [Empires -> TurnEntries]
    /\ m_current_turn \in Nat
    /\ m_host_player_id \in Players \cup {NoPlayer}
    /\ m_player_connections \subseteq Players
    /\ m_needed_reponses \subseteq Players
    /\ m_players_responded \subseteq Players
    /\ m_player_save_game_data \in Seq(SaveEntries)
    /\ saveFile \in [turn : Nat, data : Seq(SaveEntries)]
    /\ executed \in [Empires -> OrderSets]
    /\ toClient \in [Players -> Seq(ClientMessages)]
    /\ toServer \in ServerChannels
    /\ clientState \in [Players -> {"WaitingForTurnData", "PlayingTurn", "Left"}]
    /\ clientTurn \in [Players -> Nat]
    /\ m_orders \in [Players -> OrderSets]
    /\ isHost \in [Players -> BOOLEAN]
    /\ aisWaiting \in [Players -> SUBSET AIs]
    /\ blocked \in [Players -> BOOLEAN]
    /\ menuSaves \in Nat

(* ProcessingTurn is left only by its ProcessTurn event: while the server is  *)
(* in that state the event is queued, exactly once, and it is queued in no    *)
(* other state, whatever was deferred, given back or posted around it         *)
(* (ServerFSM.cpp, the two post_event(ProcessTurn()) of WaitingForTurnEnd).   *)
Queued(type) == {i \in DOMAIN eventQueue : eventQueue[i].type = type}

ProcessTurnPending ==
    fsm # "Exited" =>
        /\ fsm = "ProcessingTurn" <=> Queued("ProcessTurn") # {}
        /\ \A i, j \in Queued("ProcessTurn") : i = j

(* The server holds no order that was issued in another turn than the one it  *)
(* is about to process: orders carry no turn number, so only the protocol     *)
(* keeps a late order set out of the next turn (SetEmpireTurnOrders).         *)
OrdersOfThisTurn ==
    \A e \in Empires : m_turn_sequence[e].turns \subseteq {m_current_turn}

(* An order is never lost on its way: it leaves the client, the connection,   *)
(* the event queue, the deferred events and the turn sequence only by being   *)
(* executed, unless its player leaves the game.                               *)
TurnsIn(events, e) ==
    UNION {ev.turns : ev \in {x \in EventsOf(events) : x.type = "TurnOrders" /\ x.player = e}}
OrdersHeld(e) ==
    m_orders[e] \cup TurnsIn(toServer[e], e) \cup TurnsIn(eventQueue, e)
    \cup TurnsIn(deferredEvents, e) \cup m_turn_sequence[e].turns

OrdersNotLost ==
    [][\A e \in Empires :
          clientState'[e] # "Left" /\ fsm' # "Exited" =>
             OrdersHeld(e) \ executed'[e] \subseteq OrdersHeld(e)']_vars

SavedPlayers == {saveFile.data[i].player : i \in DOMAIN saveFile.data}

(* A save file leaves out nobody who is still connected, however departures     *)
(* and answers to earlier requests mix with the ones waited for                 *)
(* (WaitingForSaveData::react(ClientSaveData) counts answers by player id).      *)
NobodyLeftOut == saveFile.turn > 0 => m_player_connections \subseteq SavedPlayers

(* A save file leaves out nobody, and each of its entries holds orders of the    *)
(* saved turn only: no orders are taken over from the data of an earlier turn    *)
(* into a later one (CLIENT_SAVE_DATA does not name the request it answers).     *)
SaveFileConsistent ==
    /\ NobodyLeftOut
    /\ \A i \in DOMAIN saveFile.data : saveFile.data[i].turns \subseteq {saveFile.turn}

(* While a save is being gathered only players that were asked have answered,  *)
(* so the comparison of the two sets can come out equal (m_players_responded   *)
(* and m_needed_reponses of WaitingForSaveData).                               *)
ResponsesAsked ==
    fsm = "WaitingForSaveData" => m_players_responded \subseteq m_needed_reponses

(* A client that believes it is the host is the server's host: SelectNewHost   *)
(* never leaves two clients that would both save and shut down the game.       *)
HostAgreed ==
    \A p \in Players : isHost[p] => m_host_player_id = p

(* While no empire's player is lost the host is connected, as far as the       *)
(* server has been told, whoever else left: somebody can save and stop the     *)
(* game (HandleNonLobbyDisconnection).                                         *)
HostConnected ==
    /\ fsm # "Exited"
    /\ Empires \subseteq m_player_connections
    /\ Queued("Disconnection") = {}
    => m_host_player_id \in m_player_connections

(* The server stops only when its host asks for it, when an empire's player is *)
(* lost, when only AI players are left, or in a reaction that writes to a      *)
(* player whose client is gone without the server having been told. It never   *)
(* stops under clients that are all there (HandleShutdownMessage, the count of *)
(* AI processes in HandleNonLobbyDisconnection, WriteMessage).                 *)
Gone == {p \in Players : clientState[p] = "Left"}
SilentReactions == {"Shutdown", "CheckTurnEndConditions"}

ExitsOnlyWhenOver ==
    [][fsm # "Exited" /\ fsm' = "Exited" =>
          \/ Current.type = "Shutdown" /\ Current.player = m_host_player_id
          \/ ~(Empires \subseteq m_player_connections)
          \/ m_player_connections \subseteq AIs
          \/ /\ Current.type \notin SilentReactions
             /\ m_player_connections \cap Gone # {}]_vars

(* While a moderator is in the game nobody else ends a turn, not even when all  *)
(* orders are in; without one, all orders have to be in (react(TurnOrders) and *)
(* react(CheckTurnEndConditions) of WaitingForTurnEnd). Excepted are orders    *)
(* that were deferred: through the dangling reference to their connection the  *)
(* server may take them for a moderator's.                                     *)
ModeratorDecides ==
    [][fsm # "ProcessingTurn" /\ fsm' = "ProcessingTurn" =>
          IF m_player_connections \cap Moderators = {}
          THEN AllOrdersReceived
          ELSE /\ Current.type = "TurnOrders"
               /\ Current.player \in Moderators \/ Current.dangling]_vars

(* The server implements the turn barrier.                                     *)
Barrier == INSTANCE TurnBarrier WITH
    turn <- m_current_turn,
    submitted <- {e \in Empires : m_turn_sequence[e].got},
    pending <- [e \in Empires |-> m_turn_sequence[e].turns],
    phase <- IF fsm = "Exited" THEN "stopped"
             ELSE IF fsm = "ProcessingTurn" THEN "closed" ELSE "open",
    moderated <- m_player_connections \cap Moderators # {}
ImplementsBarrier == Barrier!BarrierSpec

(* Every turn ends: whatever is deferred during saves, the server comes to     *)
(* process each turn below the bound once its players have ended it.           *)
TurnsEnd == \A t \in 1 .. MaxTurn - 1 :
               m_current_turn = t ~> m_current_turn > t \/ fsm = "Exited"

(* A client asleep in SendSynchronousMessage is answered, also when others     *)
(* leave in the middle of the save, unless the server stops or has put its      *)
(* request aside. A request put aside may be taken for that of another player  *)
(* when it is given back, and ignored: that client sleeps for ever.            *)
RequestIn(events, p) ==
    \E e \in EventsOf(events) : e.type = "SaveGameRequest" /\ e.player = p /\ ~e.dangling
SaveAnswered ==
    \A p \in Players :
        RequestIn(toServer[p], p) \/ RequestIn(eventQueue, p)
        ~> \/ ~blocked[p]
           \/ \E e \in EventsOf(deferredEvents) : e.type = "SaveGameRequest" /\ e.player = p
           \/ fsm = "Exited"

(* When the server learns that an empire's player is gone, everybody is sent   *)
(* home and the server stops (END_GAME, EndGame and NoHumansLeft). What may    *)
(* stay behind for ever is a client asleep in SendSynchronousMessage, and a    *)
(* server that waits for such a client or for one whose end it has missed.     *)
GameEnds ==
    \A e \in Empires :
        [](e \notin m_player_connections =>
             <>[](/\ \A p \in Players : clientState[p] = "Left" \/ blocked[p]
                  /\ \/ fsm = "Exited"
                     \/ \E p \in m_player_connections : clientState[p] = "Left" \/ blocked[p]))

(* The player the server has made host comes to know it, unless it leaves or   *)
(* the game ends first (the HOST_ID messages of SelectNewHost).                *)
HostLearns ==
    \A p \in Players :
        m_host_player_id = p ~> isHost[p] \/ clientState[p] = "Left" \/ fsm = "Exited"

-----------------------------------------------------------------------------
(* Statements of the code's comments that the code does not keep.              *)

(* A save is performed once all players have sent their save data (the comment  *)
(* of WaitingForSaveData in ServerFSM.h), so that there is one entry per player,  *)
(* as LoadGameInit of ServerApp.cpp expects.                                     *)
OneEntryPerPlayer ==
    \A i, j \in DOMAIN saveFile.data :
        saveFile.data[i].player = saveFile.data[j].player => i = j

(* A player's entry in a save holds the orders it has already issued this turn *)
(* (the comment of LoadPlayerSaveGameData in SaveLoad.h): when its entry is     *)
(* made, the orders of its that the server has in its hands, deferred, are in it. *)
SavedOrdersCurrent ==
    [][Len(m_player_save_game_data') > Len(m_player_save_game_data) =>
          LET entry == m_player_save_game_data'[Len(m_player_save_game_data')]
          IN TurnsIn(deferredEvents, entry.player) \subseteq entry.turns]_vars
=============================================================================
