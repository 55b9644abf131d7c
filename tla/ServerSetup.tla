----------------------------- MODULE ServerSetup -----------------------------
(***************************************************************************)
(* The server before the game is played: its connections and the states     *)
(* Idle, MPLobby and WaitingFor(SP|MP)GameJoiners of ServerFSM. One action   *)
(* is one event taken by ServerFSM with every event it posts, and every      *)
(* disconnection it causes, as ServerApp::Run handles it to the end.         *)
(* New games only: a saved game is not loaded. An observer stands for a      *)
(* moderator too, which the code treats alike here; `galaxy' stands for      *)
(* what of the lobby data is not the list of players.                        *)
(***************************************************************************)
EXTENDS Integers, FiniteSets, SequencesExt

CONSTANTS Clients,   \* human clients; a player is called as its client
          AIs        \* the names the server may give to AI players

Unnamed == "unnamed"

ASSUME EndpointsAssumption ==
    /\ IsFiniteSet(Clients) /\ IsFiniteSet(AIs)
    /\ Clients \cap AIs = {}
    /\ Unnamed \notin Clients \cup AIs

VARIABLES
    fsm,             \* state of ServerFSM; "Exited" after ServerApp::Exit
    single,          \* m_single_player_game
    connected,       \* m_player_connections
    player,          \* id and client type of each connection
    host,            \* m_host_player_id
    lobby,           \* the players of the lobby or single-player setup data
    galaxy,          \* the rest of m_lobby_data
    given,           \* names of AIs already given (AI_count)
    processes,       \* m_ai_client_processes
    expected,        \* m_num_expected_players
    expectedAIs,     \* m_expected_ai_player_names
    begun,           \* NewGameInit has generated a universe
    up, down         \* what is on its way to the server, to each client

setupVars == <<fsm, single, connected, player, host, lobby, galaxy, given,
               processes, expected, expectedAIs, begun, up, down>>

Endpoints == Clients \cup AIs
NoPlayer == -1
HumanTypes == {"Player", "Observer"}
ClientTypes == HumanTypes \cup {"AI"}
Entries == [id : Int, name : Endpoints \cup {Unnamed}, type : ClientTypes \cup {"Invalid"}]
Nobody == [id |-> NoPlayer, type |-> "Invalid"]

Entry(id, name, type) == [id |-> id, name |-> name, type |-> type]
LobbyData(players, g) == [type |-> "LobbyUpdate", players |-> players, galaxy |-> g]

-----------------------------------------------------------------------------
(* What a handler changes is a record, since one handler may run others:      *)
(* dropping a connection takes a Disconnection event before it returns.       *)
Server == [fsm |-> fsm, single |-> single, connected |-> connected, player |-> player, host |-> host,
           lobby |-> lobby, galaxy |-> galaxy, begun |-> begun, down |-> down]

Become(next) ==
    \E s \in {next} :
        /\ fsm' = s.fsm /\ single' = s.single /\ connected' = s.connected
        /\ player' = s.player /\ host' = s.host /\ lobby' = s.lobby
        /\ galaxy' = s.galaxy /\ begun' = s.begun /\ down' = s.down

(* m_player_connections is a set of pointers: its order is anybody's guess, and  *)
(* shows only in the order of the human clients.                                *)
Orders == SetToSeqs(connected \cap Clients)

Established(s) == {e \in s.connected : s.player[e].id # NoPlayer}
NumEstablishedPlayers(s) == Cardinality(Established(s))

SendTo(s, receivers, message) ==
    [s EXCEPT !.down = [c \in Clients |-> IF c \in receivers THEN Append(@[c], message)
                                                             ELSE @[c]]]

(* A mutant: ids are counted from the players there are. *)
CountedPlayerID(s) == 1 + NumEstablishedPlayers(s)

(* NewPlayerID and EstablishPlayer: one more than the largest id in use.        *)
NewPlayerID(s) == 1 + Max({0} \cup {s.player[e].id : e \in s.connected})

EstablishPlayer(s, e, type) ==
    [s EXCEPT !.player[e] = [id |-> NewPlayerID(s), type |-> type]]

(* SelectNewHost keeps the last human it meets; everybody else is told.         *)
SelectNewHost(s, order) ==
    LET humans == {i \in DOMAIN order : /\ order[i] \in Established(s)
                                        /\ s.player[order[i]].type \in HumanTypes}
        newHost == IF humans = {} THEN NoPlayer ELSE s.player[order[Max(humans)]].id
    IN SendTo([s EXCEPT !.host = newHost],
              {e \in s.connected : s.player[e].id # s.host},
              [type |-> "HostID", id |-> newHost])

(* "If there are no humans left": as the code counts them.                      *)
NoHumansLeft(s) ==
    \/ s.connected = {}
    \/ Cardinality(processes) = NumEstablishedPlayers(s)

PlayerIsHost(s, e) == s.player[e].id # NoPlayer /\ s.player[e].id = s.host
IsEntryOf(s, e, entry) == entry.id = s.player[e].id

(* Where a list of players has entries of an id; the first of them is erased.    *)
PlacesOf(players, id) == {i \in DOMAIN players : players[i].id = id}

RemoveEntry(players, id) ==
    IF PlacesOf(players, id) = {} THEN players
    ELSE RemoveAt(players, Min(PlacesOf(players, id)))

Without(s, e) == [s EXCEPT !.connected = @ \ {e}, !.player[e] = Nobody]

(* MPLobby::react(Disconnection), after the connection was erased. An id is      *)
(* looked for whatever it is: that of no player is also the id of every AI.      *)
LobbyDisconnection(s, e, order) ==
    LET left == Without(s, e)
        hosted == IF PlayerIsHost(s, e) THEN SelectNewHost(left, order) ELSE left
        rest == RemoveEntry(s.lobby, s.player[e].id)
    IN IF NoHumansLeft(left) THEN [left EXCEPT !.fsm = "Exited"]
       ELSE IF rest = s.lobby THEN hosted
       ELSE SendTo([hosted EXCEPT !.lobby = rest], Established(left),
                   LobbyData(rest, s.galaxy))

(* ServerFSM::HandleNonLobbyDisconnection.                                        *)
NonLobbyDisconnection(s, e, order) ==
    LET left == Without(s, e)
        type == s.player[e].type
        told == IF type = "Observer"
                THEN IF PlayerIsHost(s, e) THEN SelectNewHost(left, order) ELSE left
                ELSE IF type = "Invalid" THEN left
                ELSE SendTo(left, Established(left), [type |-> "EndGame"])
    IN IF NoHumansLeft(left) THEN [told EXCEPT !.fsm = "Exited"] ELSE told

(* Idle has no reaction to a disconnection.                                       *)
Disconnection(s, e, order) ==
    CASE s.fsm = "MPLobby" -> LobbyDisconnection(s, e, order)
      [] s.fsm \in {"Idle", "Exited"} -> Without(s, e)
      [] OTHER -> NonLobbyDisconnection(s, e, order)

(* ServerNetworking::Disconnect: the client learns of it after what it was sent.   *)
Disconnect(s, e, order) ==
    Disconnection(SendTo(s, {e}, [type |-> "Closed"]), e, order)

(* What was on its way from a connection that is gone is never read.               *)
Read(e, still) == up' = [x \in Endpoints |-> IF x \notin still THEN <<>>
                                             ELSE IF x = e THEN Tail(up[x]) ELSE up[x]]

-----------------------------------------------------------------------------
(* NewMPGameInit and NewSPGameInit match entries with connections, humans by id    *)
(* (the single human of a single-player game by the id of the host), AIs by name;  *)
(* of entries matched with one connection the last one counts. NewGameInit gives    *)
(* up when a connection has no entry or a different one, or nobody plays.            *)
Matches(s, e, entry) ==
    \/ /\ entry.type \in HumanTypes
       /\ s.player[e].id = (IF s.single THEN s.host ELSE entry.id)
    \/ /\ entry.type = "AI"
       /\ s.player[e].type = "AI" /\ entry.name = e

SetupData(s, e) == {i \in DOMAIN s.lobby : Matches(s, e, s.lobby[i])}

NewGameInit(s) ==
    LET complete == \A e \in Established(s) :
                       /\ SetupData(s, e) # {}
                       /\ s.lobby[Max(SetupData(s, e))].type = s.player[e].type
                       /\ s.lobby[Max(SetupData(s, e))].name = e
        active == \E e \in Established(s) : s.player[e].type \in {"Player", "AI"}
    IN IF complete /\ active
       THEN SendTo([s EXCEPT !.begun = TRUE, !.fsm = "PlayingGame"], Established(s),
                   [type |-> "GameStart"])
       ELSE [s EXCEPT !.fsm = "PlayingGame"]

(* WaitingFor(SP|MP)GameJoiners::react(CheckStartConditions), posted by the          *)
(* constructor and by every JoinGame, and so handled with it.                        *)
CheckStartConditions(s, number) ==
    IF s.fsm = "Joiners" /\ NumEstablishedPlayers(s) = number THEN NewGameInit(s) ELSE s

AINames(l) == {l[i].name : i \in {j \in DOMAIN l : l[j].type = "AI"}}

(* A mutant: the constructor does not post CheckStartConditions. *)
WaitWithoutCheck(s) ==
    /\ processes' = AINames(s.lobby)
    /\ expectedAIs' = AINames(s.lobby)
    /\ expected' = Len(s.lobby)
    /\ Become([s EXCEPT !.fsm = "Joiners"])

(* A mutant: the host is not counted. *)
WaitForOneLess(s) ==
    /\ processes' = AINames(s.lobby)
    /\ expectedAIs' = AINames(s.lobby)
    /\ expected' = Len(s.lobby) - 1
    /\ Become(CheckStartConditions([s EXCEPT !.fsm = "Joiners"], Len(s.lobby) - 1))

(* The constructors of the joiners' states: one AI process for every AI entry.       *)
WaitForJoiners(s) ==
    /\ processes' = AINames(s.lobby)
    /\ expectedAIs' = AINames(s.lobby)
    /\ expected' = Len(s.lobby)
    /\ Become(CheckStartConditions([s EXCEPT !.fsm = "Joiners"], Len(s.lobby)))

-----------------------------------------------------------------------------
(* The events. `e' is the connection an event comes from.                             *)

HostMPGame(e) ==
    LET hosted == EstablishPlayer(Server, e, "Player")
        id == hosted.player[e].id
        first == <<Entry(id, e, "Player")>>
    IN /\ fsm = "Idle"
       /\ Become(SendTo(SendTo([hosted EXCEPT !.single = FALSE, !.host = id,
                                              !.lobby = first, !.fsm = "MPLobby"],
                               {e}, [type |-> "HostMPAck", id |-> id]),
                        {e}, LobbyData(first, galaxy)))
       /\ UNCHANGED <<given, processes, expected, expectedAIs>>

HostSPGame(e, ais) ==
    LET hosted == EstablishPlayer(Server, e, "Player")
        id == hosted.player[e].id
        names == SetToSeq(ais)
        players == <<Entry(NoPlayer, e, "Player")>>
                     \o [i \in DOMAIN names |-> Entry(NoPlayer, names[i], "AI")]
    IN /\ fsm = "Idle"
       /\ WaitForJoiners(SendTo([hosted EXCEPT !.single = TRUE, !.host = id,
                                             !.lobby = players],
                                {e}, [type |-> "HostSPAck", id |-> id]))
       /\ UNCHANGED given

(* A second host is sent away from the lobby; elsewhere nobody answers.                *)
HostRefused(e, order) ==
    /\ fsm # "Idle"
    /\ IF fsm = "MPLobby"
       THEN Become(Disconnect(SendTo(Server, {e}, [type |-> "Error"]), e, order))
       ELSE Become(Server)
    /\ UNCHANGED <<given, processes, expected, expectedAIs>>

JoinLobby(e) ==
    LET joined == EstablishPlayer(Server, e, "Player")
        id == joined.player[e].id
        players == Append(lobby, Entry(id, e, "Player"))
    IN /\ fsm = "MPLobby"
       /\ Become(SendTo(SendTo(SendTo([joined EXCEPT !.lobby = players],
                                      {e}, [type |-> "JoinAck", id |-> id]),
                               {e}, [type |-> "HostID", id |-> host]),
                        Established(joined), LobbyData(players, galaxy)))
       /\ UNCHANGED <<given, processes, expected, expectedAIs>>

HasRoom(e) ==
    IF e \in AIs THEN e \in expectedAIs
    ELSE Cardinality(expectedAIs) + NumEstablishedPlayers(Server) < expected

JoinGame(e, order) ==
    LET joined == EstablishPlayer(Server, e, IF e \in AIs THEN "AI" ELSE "Player")
        admitted == SendTo(joined, {e}, [type |-> "JoinAck", id |-> joined.player[e].id])
    IN /\ fsm = "Joiners"
       /\ Become(CheckStartConditions(IF HasRoom(e) THEN admitted
                                      ELSE Disconnect(Server, e, order), expected))
       /\ expectedAIs' = expectedAIs \ {e}
       /\ UNCHANGED <<given, processes, expected>>

(* JoinGame in Idle or PlayingGame is not consumed: there is no answer.                *)
JoinIgnored ==
    /\ fsm \in {"Idle", "PlayingGame"}
    /\ UNCHANGED <<fsm, single, connected, player, host, lobby, galaxy, given,
                   processes, expected, expectedAIs, begun, down>>

(* A mutant: a connection without an entry stays as it is. *)
UnlistedKept(players, e) ==
    LET own == PlacesOf(players, player[e].id)
    IN IF own = {} THEN player[e].type ELSE players[Min(own)].type

(* The client type a list of players has for a connection; a connection without an     *)
(* entry is dropped like one whose entry asks for that.                                 *)
ListedType(players, e) ==
    LET own == PlacesOf(players, player[e].id)
    IN IF own = {} THEN "Invalid" ELSE players[Min(own)].type

(* The entries of the connections to be dropped are erased, in the connections' order.  *)
Erased(players, drops, order) ==
    LET rest[i \in 0..Len(order)] ==
            IF i = 0 THEN players
            ELSE IF order[i] \in drops THEN RemoveEntry(rest[i - 1], player[order[i]].id)
            ELSE rest[i - 1]
    IN rest[Len(order)]

DisconnectAll(s, drops, order) ==
    LET left[i \in 0..Len(order)] ==
            IF i = 0 THEN s
            ELSE IF order[i] \in drops THEN Disconnect(left[i - 1], order[i], order)
            ELSE left[i - 1]
    IN left[Len(order)]

(* What is left of the list without the entries that ask to be dropped.                 *)
Occupied(players) ==
    LET kept[i \in 0..Len(players)] ==
            IF i = 0 THEN <<>>
            ELSE IF players[i].type = "Invalid" THEN kept[i - 1]
            ELSE Append(kept[i - 1], players[i])
    IN kept[Len(players)]

(* A mutant: AIs are not named. *)
LeftUnnamed(players, name) == players

WithNames(players, name) ==
    [i \in DOMAIN players |-> [players[i] EXCEPT !.name = IF @ = Unnamed THEN name ELSE @]]

(* A mutant: the sender never gets its own list back. *)
OthersOnly(s, incoming, e) == Established(s) \ {e}

(* The sender needs no answer to a list of players the lobby has already.               *)
Receivers(s, incoming, e) == {c \in Established(s) : incoming # lobby \/ c # e}

UpdateLobby(e, update, order) ==
    LET incoming == update.players
        drops == {c \in Established(Server) : ListedType(incoming, c) = "Invalid"}
        types == [c \in Endpoints |->
                    IF c \in Established(Server) \ drops
                    THEN [player[c] EXCEPT !.type = ListedType(incoming, c)] ELSE player[c]]
        fewer == DisconnectAll([Server EXCEPT !.lobby = Erased(incoming, drops, order),
                                              !.galaxy = update.galaxy, !.player = types],
                               drops, order)
        named == WithNames(Occupied(fewer.lobby), CHOOSE a \in AIs \ given : TRUE)
    IN /\ fsm = "MPLobby"
       /\ given' = given \cup AINames(named)
       /\ Become(IF fewer.fsm = "Exited" THEN fewer
                 ELSE SendTo([fewer EXCEPT !.lobby = named], Receivers(fewer, incoming, e),
                             LobbyData(named, update.galaxy)))
       /\ UNCHANGED <<processes, expected, expectedAIs>>

(* Only the host may start; anybody else who asks is sent away.                         *)
StartMPGame(e, order) ==
    /\ fsm = "MPLobby"
    /\ IF ~PlayerIsHost(Server, e)
       THEN /\ Become(Disconnect(Server, e, order))
            /\ UNCHANGED <<processes, expected, expectedAIs>>
       ELSE IF Len(lobby) = NumEstablishedPlayers(Server)
       THEN /\ Become(NewGameInit(Server))
            /\ UNCHANGED <<processes, expected, expectedAIs>>
       ELSE WaitForJoiners(Server)
    /\ UNCHANGED given

(* The end of a connection, read after all that the client sent before.                 *)
ConnectionLost(e, order) ==
    /\ Become(Disconnection(Server, e, order))
    /\ UNCHANGED <<given, processes, expected, expectedAIs>>

(* Lobby messages are not consumed outside the lobby.                                    *)
OutsideLobby ==
    /\ fsm # "MPLobby"
    /\ UNCHANGED <<fsm, single, connected, player, host, lobby, galaxy, given,
                   processes, expected, expectedAIs, begun, down>>

-----------------------------------------------------------------------------
SetupInit ==
    /\ fsm = "Idle"
    /\ single = FALSE
    /\ connected = {}
    /\ player = [e \in Endpoints |-> Nobody]
    /\ host = NoPlayer
    /\ lobby = <<>>
    /\ galaxy = 0
    /\ given = {} /\ processes = {} /\ expectedAIs = {}
    /\ expected = 0
    /\ begun = FALSE
    /\ up = [e \in Endpoints |-> <<>>]
    /\ down = [c \in Clients |-> <<>>]

Message(e, type) == up[e] # <<>> /\ Head(up[e]).type = type

HandleMessage(e) ==
    /\ fsm # "Exited"
    /\ e \in connected
    /\ \/ Message(e, "HostMP") /\ HostMPGame(e)
       \/ Message(e, "HostSP") /\ HostSPGame(e, Head(up[e]).ais)
       \/ /\ Message(e, "HostMP") \/ Message(e, "HostSP")
          /\ \E order \in Orders : HostRefused(e, order)
       \/ Message(e, "Join") /\ JoinLobby(e)
       \/ Message(e, "Join") /\ \E order \in Orders : JoinGame(e, order)
       \/ Message(e, "Join") /\ JoinIgnored
       \/ Message(e, "LobbyUpdate")
            /\ \E order \in Orders : UpdateLobby(e, Head(up[e]), order)
       \/ Message(e, "Start") /\ \E order \in Orders : StartMPGame(e, order)
       \/ (Message(e, "LobbyUpdate") \/ Message(e, "Start")) /\ OutsideLobby
       \/ Message(e, "Closed") /\ \E order \in Orders : ConnectionLost(e, order)
    /\ Read(e, connected')
=============================================================================
