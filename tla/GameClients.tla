----------------------------- MODULE GameClients -----------------------------
(***************************************************************************)
(* The clients of a running game: HumanClientFSM's PlayingGame states with  *)
(* HumanClientApp, and AIClientApp, as far as the turn and save protocol    *)
(* goes. Each client is one process whose main thread handles one message   *)
(* or one user action at a time, or sleeps in SendSynchronousMessage.       *)
(***************************************************************************)
EXTENDS ServerTurn

CONSTANTS
    AutosaveTurns,  \* the turns the autosave options select
    MaxTurn,        \* bound: no user ends this turn
    MaxMenuSaves,   \* bound: saves made from the menu
    HotkeyUsers,    \* the players who press the end-turn hotkey while waiting
    MayLeave        \* the players who may quit or crash

ASSUME ClientsAssumption ==
    /\ MaxTurn \in Nat
    /\ MaxMenuSaves \in Nat
    /\ HotkeyUsers \subseteq Players
    /\ MayLeave \subseteq Players

VARIABLES           \* beside clientState: "WaitingForTurnData", "PlayingTurn", "Left"
    clientTurn,     \* ClientApp::m_current_turn, 0 before GAME_START
    m_orders,       \* ClientApp::m_orders
    isHost,         \* ClientNetworking's host player id is the own id
    aisWaiting,     \* the AI players ClientApp::m_player_status has WAITING
    blocked,        \* the main thread is in SendSynchronousMessage
    menuSaves       \* number of saves made from the menu

clientVars == <<clientState, clientTurn, m_orders, isHost, aisWaiting, blocked,
                menuSaves>>
vars == <<serverVars, toClient, toServer, clientVars>>

-----------------------------------------------------------------------------
Send(p, events) == toServer' = [toServer EXCEPT ![p] = @ \o events]

(* MapWnd, its hotkeys and the menu react while the client is in the game and *)
(* its main thread is free; an AI process reads messages only between its     *)
(* turns.                                                                     *)
Running(p) == clientState[p] # "Left" /\ ~blocked[p]
Reads(p) == Running(p) /\ ~(p \in AIs /\ clientState[p] = "PlayingTurn")
NextMessage(p, type) ==
    /\ Reads(p)
    /\ toClient[p] # <<>>
    /\ Head(toClient[p]).type = type
Take(p) == toClient' = [toClient EXCEPT ![p] = Tail(@)]

SaveData(p) == Event("ClientSaveData", p, m_orders[p])

-----------------------------------------------------------------------------
(* An order issued in the map window or by the AI script (EnableOrderIssuing). *)
IssueOrder(p) ==
    /\ p \in Empires
    /\ Running(p)
    /\ clientState[p] = "PlayingTurn"
    /\ clientTurn[p] < MaxTurn
    /\ m_orders' = [m_orders EXCEPT ![p] = @ \cup {clientTurn[p]}]
    /\ UNCHANGED <<serverVars, toClient, toServer, clientState, clientTurn, isHost,
                   aisWaiting, blocked, menuSaves>>

(* ClientApp::StartTurn sends the orders and forgets them; the client then     *)
(* waits. The turn button is disabled while waiting and for observers, the     *)
(* hotkey of MapWnd::EndTurn is not: it sends whatever orders there are.       *)
EndTurn(p) ==
    /\ Running(p)
    /\ p \in AIs \/ clientTurn[p] < MaxTurn
    /\ \/ clientState[p] = "PlayingTurn"
       \/ /\ p \in HotkeyUsers
          /\ p \notin AIs
          /\ clientTurn[p] > 0
          /\ m_current_turn < MaxTurn   \* bounds: repeated TURN_ORDERS stay
          /\ toServer[p] = <<>>         \* few, and end with the last turn
    /\ Send(p, <<Event("TurnOrders", p, m_orders[p])>>)
    /\ m_orders' = [m_orders EXCEPT ![p] = {}]
    /\ clientState' = [clientState EXCEPT ![p] = "WaitingForTurnData"]
    /\ UNCHANGED <<serverVars, toClient, clientTurn, isHost, aisWaiting, blocked,
                   menuSaves>>

(* GAME_START and TURN_UPDATE begin a turn, the latter also for a client that  *)
(* had not ended the last one: its unsent orders stay in m_orders. The host    *)
(* autosaves first. An observer goes straight back to waiting.                 *)
Autosaves(p, t) == isHost[p] /\ t \in AutosaveTurns

StartTurn(p) ==
    LET t == Head(toClient[p]).turn IN
    /\ NextMessage(p, "TURN_UPDATE")
    /\ Take(p)
    /\ clientTurn' = [clientTurn EXCEPT ![p] = t]
    /\ clientState' = [clientState EXCEPT
                          ![p] = IF p \in Observers THEN "WaitingForTurnData"
                                                    ELSE "PlayingTurn"]
    /\ IF Autosaves(p, t)
       THEN /\ Send(p, <<Event("SaveGameRequest", p, {})>>)
            /\ blocked' = [blocked EXCEPT ![p] = TRUE]
       ELSE UNCHANGED <<toServer, blocked>>
    /\ UNCHANGED <<serverVars, m_orders, isHost, aisWaiting, menuSaves>>

(* HumanClientApp::SaveGame from the menu, open in any state once CanSaveNow:  *)
(* the client is the host and every AI was last heard of as waiting.           *)
MenuSave(p) ==
    /\ Running(p)
    /\ isHost[p]
    /\ AIs \subseteq aisWaiting[p]
    /\ clientTurn[p] > 0
    /\ menuSaves < MaxMenuSaves
    /\ Send(p, <<Event("SaveGameRequest", p, {})>>)
    /\ blocked' = [blocked EXCEPT ![p] = TRUE]
    /\ menuSaves' = menuSaves + 1
    /\ UNCHANGED <<serverVars, toClient, clientState, clientTurn, m_orders, isHost,
                   aisWaiting>>

(* SendSynchronousMessage returns the first synchronous response, wherever in  *)
(* the queue it is; SaveGame then sends the save data.                         *)
IsResponse(m) == m.type = "SAVE_GAME" /\ m.sync
FirstResponse(p, i) ==
    /\ i \in DOMAIN toClient[p]
    /\ IsResponse(toClient[p][i])
    /\ \A j \in 1 .. i - 1 : ~IsResponse(toClient[p][j])

ReceiveResponse(p) ==
    /\ clientState[p] # "Left"
    /\ blocked[p]
    /\ \E i \in DOMAIN toClient[p] :
          /\ FirstResponse(p, i)
          /\ toClient' = [toClient EXCEPT
                ![p] = SubSeq(@, 1, i - 1) \o SubSeq(@, i + 1, Len(@))]
    /\ Send(p, <<SaveData(p)>>)
    /\ blocked' = [blocked EXCEPT ![p] = FALSE]
    /\ UNCHANGED <<serverVars, clientState, clientTurn, m_orders, isHost, aisWaiting,
                   menuSaves>>

(* SAVE_GAME as an ordinary message (HandleSaveGameDataRequest).               *)
AnswerSaveGame(p) ==
    /\ NextMessage(p, "SAVE_GAME")
    /\ Take(p)
    /\ Send(p, <<SaveData(p)>>)
    /\ UNCHANGED <<serverVars, clientVars>>

ReceiveHostID(p) ==
    /\ NextMessage(p, "HOST_ID")
    /\ Take(p)
    /\ isHost' = [isHost EXCEPT ![p] = (Head(toClient[p]).host = p)]
    /\ UNCHANGED <<serverVars, toServer, clientState, clientTurn, m_orders,
                   aisWaiting, blocked, menuSaves>>

ReceivePlayerStatus(p) ==
    LET m == Head(toClient[p]) IN
    /\ NextMessage(p, "PLAYER_STATUS")
    /\ Take(p)
    /\ aisWaiting' = [aisWaiting EXCEPT
                         ![p] = IF m.waiting THEN @ \cup m.players ELSE @ \ m.players]
    /\ UNCHANGED <<serverVars, toServer, clientState, clientTurn, m_orders, isHost,
                   blocked, menuSaves>>

(* Leaving. HumanClientApp::EndGame asks the server to shut down, which only   *)
(* the host's request achieves, and disconnects; an AI process just exits. A   *)
(* crash, of the client or of its connection, loses what was not sent yet. The *)
(* server hears of it only by the errors eof and connection_reset; after any   *)
(* other it reads no more, and the player stays established.                   *)
Goodbye(p) == (IF p \in AIs THEN <<>> ELSE <<Event("Shutdown", p, {})>>)
              \o <<Event("Disconnection", p, {})>>

Leave(p) ==
    /\ clientState' = [clientState EXCEPT ![p] = "Left"]
    /\ isHost' = [isHost EXCEPT ![p] = FALSE]
    /\ blocked' = [blocked EXCEPT ![p] = FALSE]
    /\ UNCHANGED <<serverVars, clientTurn, m_orders, aisWaiting, menuSaves>>

ReceiveEndGame(p) ==
    /\ NextMessage(p, "END_GAME")
    /\ Take(p)
    /\ Send(p, Goodbye(p))
    /\ Leave(p)

Quit(p) ==
    /\ p \in MayLeave \ AIs
    /\ Running(p)
    /\ Send(p, Goodbye(p))
    /\ Leave(p)
    /\ UNCHANGED toClient

Crash(p) ==
    /\ p \in MayLeave
    /\ clientState[p] # "Left"
    /\ \E n \in 0 .. Len(toServer[p]),
          noticed \in {<<>>, <<Event("Disconnection", p, {})>>} :
             toServer' = [toServer EXCEPT ![p] = SubSeq(@, 1, n) \o noticed]
    /\ Leave(p)
    /\ UNCHANGED toClient

(* The server is gone: DisconnectedFromServer ends the client's game. A main   *)
(* thread waiting for a response is not woken. AI processes are killed         *)
(* (ServerApp::CleanupAIs).                                                    *)
LoseServer(p) ==
    /\ fsm = "Exited"
    /\ clientState[p] # "Left"
    /\ p \in AIs \/ Reads(p)
    /\ Leave(p)
    /\ UNCHANGED <<toClient, toServer>>

-----------------------------------------------------------------------------
ClientInit ==
    /\ clientState = [p \in Players |-> "WaitingForTurnData"]
    /\ clientTurn = [p \in Players |-> 0]
    /\ m_orders = [p \in Players |-> {}]
    /\ isHost = [p \in Players |-> p = m_host_player_id]
    /\ aisWaiting = [p \in Players |-> {}]
    /\ blocked = [p \in Players |-> FALSE]
    /\ menuSaves = 0

(* What a client does whether or not its user acts.                            *)
Responds(p) == \/ StartTurn(p)
               \/ ReceiveResponse(p)
               \/ AnswerSaveGame(p)
               \/ ReceiveHostID(p)
               \/ ReceivePlayerStatus(p)
               \/ ReceiveEndGame(p)
               \/ LoseServer(p)

ClientNext(p) == \/ IssueOrder(p)
                 \/ EndTurn(p)
                 \/ MenuSave(p)
                 \/ Quit(p)
                 \/ Crash(p)
                 \/ Responds(p)
=============================================================================
