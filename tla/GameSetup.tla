------------------------------ MODULE GameSetup ------------------------------
(***************************************************************************)
(* Setting up a game: the server (ServerSetup) with the human clients in     *)
(* their lobby (client/human/HumanClientFSM.cpp, UI/MultiplayerLobbyWnd.cpp) *)
(* and the AI processes the server starts. Messages are in order between     *)
(* two ends and arrive late: a client edits the copy of the lobby it has and *)
(* sends the whole of it.                                                    *)
(***************************************************************************)
EXTENDS ServerSetup

CONSTANTS MaxJoins,   \* bound on the connections human clients make
          MaxEdits,   \* bound on the changes and starts asked for in lobbies
          MayHost,    \* clients that ask the server to host a game
          MayLeave    \* clients and AIs that leave or crash

ASSUME SetupAssumption ==
    /\ MaxJoins \in Nat /\ MaxEdits \in Nat
    /\ MayHost \subseteq Clients
    /\ MayLeave \subseteq Clients \cup AIs

VARIABLES
    client,     \* state of HumanClientFSM
    id, hostId, \* ClientNetworking's m_player_id, m_host_player_id
    copy,       \* MultiPlayerLobbyWnd's m_lobby_data
    joined,     \* AI processes that have connected
    joins, edits

clientVars == <<client, id, hostId, copy, joined, joins, edits>>
vars == <<setupVars, clientVars>>

serverOnly == <<fsm, single, host, lobby, galaxy, given, processes, expected,
                expectedAIs, begun>>

EmptyCopy == [players |-> <<>>, galaxy |-> 0]

-----------------------------------------------------------------------------
(* HumanClientApp::MultiPlayerGame and NewSinglePlayerGame: connect, ask, wait.   *)
Connect(e, message) ==
    /\ fsm # "Exited"
    /\ e \notin connected
    /\ connected' = connected \cup {e}
    /\ player' = [player EXCEPT ![e] = Nobody]
    /\ up' = [up EXCEPT ![e] = <<message>>]

ClientConnects(c, message, waiting) ==
    /\ client[c] = "IntroMenu"
    /\ joins < MaxJoins
    /\ joins' = joins + 1
    /\ client' = [client EXCEPT ![c] = waiting]
    /\ down' = [down EXCEPT ![c] = <<>>]
    /\ Connect(c, message)
    /\ UNCHANGED <<serverOnly, id, hostId, copy, joined, edits>>

MultiPlayerGame(c) ==
    \/ c \in MayHost /\ ClientConnects(c, [type |-> "HostMP"], "WaitingForMPHostAck")
    \/ ClientConnects(c, [type |-> "Join"], "WaitingForMPJoinAck")

NewSinglePlayerGame(c) ==
    /\ c \in MayHost
    /\ \E ais \in SUBSET AIs :
          ClientConnects(c, [type |-> "HostSP", ais |-> ais], "WaitingForSPHostAck")

(* An AI process joins under the name it was started with.                        *)
AIConnects(a) ==
    /\ a \in processes \ joined
    /\ joined' = joined \cup {a}
    /\ Connect(a, [type |-> "Join"])
    /\ UNCHANGED <<serverOnly, down, client, id, hostId, copy, joins, edits>>

Send(c, message) ==
    up' = [up EXCEPT ![c] = IF c \in connected THEN Append(@, message) ELSE @]

(* CancelMPGameClicked, or the client is lost.                                     *)
ClientLeaves(c) ==
    /\ c \in MayLeave
    /\ client[c] # "IntroMenu"
    /\ client' = [client EXCEPT ![c] = "IntroMenu"]
    /\ down' = [down EXCEPT ![c] = <<>>]
    /\ Send(c, [type |-> "Closed"])
    /\ UNCHANGED <<serverOnly, connected, player, id, hostId, copy, joined, joins, edits>>

AICrashes(a) ==
    /\ a \in MayLeave \cap AIs \cap connected
    /\ \A i \in DOMAIN up[a] : up[a][i].type # "Closed"
    /\ Send(a, [type |-> "Closed"])
    /\ UNCHANGED <<serverOnly, connected, player, down, clientVars>>

-----------------------------------------------------------------------------
(* What a client does with what it receives, in the states that react to it.       *)

Received(c, type) ==
    /\ client[c] # "IntroMenu"
    /\ down[c] # <<>>
    /\ Head(down[c]).type = type
    /\ down' = [down EXCEPT ![c] = Tail(@)]
    /\ UNCHANGED <<serverOnly, connected, player, joined, joins, edits>>

Receive(c, type) == Received(c, type) /\ UNCHANGED up

Acknowledged(c) ==
    LET message == Head(down[c])
        hosting == message.type \in {"HostMPAck", "HostSPAck"}
    IN /\ \E type \in {"HostMPAck", "HostSPAck", "JoinAck"} : Receive(c, type)
       /\ client[c] \in {"WaitingForMPHostAck", "WaitingForSPHostAck", "WaitingForMPJoinAck"}
       /\ client' = [client EXCEPT ![c] = IF message.type = "HostSPAck" THEN "PlayingGame"
                                                                        ELSE "MPLobby"]
       /\ id' = [id EXCEPT ![c] = message.id]
       /\ hostId' = [hostId EXCEPT ![c] = IF hosting THEN message.id ELSE @]
       /\ UNCHANGED copy

HostIDReceived(c) ==
    /\ Receive(c, "HostID")
    /\ hostId' = [hostId EXCEPT ![c] = IF client[c] \in {"MPLobby", "PlayingGame"}
                                       THEN Head(down[c]).id ELSE @]
    /\ UNCHANGED <<client, id, copy>>

LobbyUpdateReceived(c) ==
    /\ Receive(c, "LobbyUpdate")
    /\ copy' = [copy EXCEPT ![c] = IF client[c] = "MPLobby"
                                   THEN [players |-> Head(down[c]).players,
                                         galaxy |-> Head(down[c]).galaxy]
                                   ELSE @]
    /\ UNCHANGED <<client, id, hostId>>

GameStartReceived(c) ==
    /\ Receive(c, "GameStart")
    /\ client' = [client EXCEPT ![c] = "PlayingGame"]
    /\ UNCHANGED <<id, hostId, copy>>

(* Out of a game the ids are forgotten, out of the lobby they are not.               *)
ToIntroMenu(c) ==
    LET forgets(ids) == [ids EXCEPT ![c] = IF client[c] = "PlayingGame" THEN NoPlayer ELSE @]
    IN /\ client' = [client EXCEPT ![c] = "IntroMenu"]
       /\ id' = forgets(id) /\ hostId' = forgets(hostId)
       /\ UNCHANGED copy

(* The lobby has no reaction to the end of the game; a game is left.                  *)
EndGameReceived(c) ==
    IF client[c] = "PlayingGame"
    THEN /\ Received(c, "EndGame")
         /\ ToIntroMenu(c)
         /\ Send(c, [type |-> "Closed"])
    ELSE /\ Receive(c, "EndGame")
         /\ UNCHANGED <<client, id, hostId, copy>>

(* A fatal error, or the connection is gone.                                        *)
Refused(c) ==
    /\ Receive(c, "Error") \/ Receive(c, "Closed")
    /\ ToIntroMenu(c)

-----------------------------------------------------------------------------
(* Editing. The window lets the host change every row and add an AI in the empty    *)
(* one, lets the others change their own, and sends all the data it has.             *)

ThisClientIsHost(c) == id[c] = hostId[c]

(* There is a name in AIs for every unnamed entry on its way (a bound).               *)
HasUnnamed(players) == \E i \in DOMAIN players : players[i].name = Unnamed
OnTheirWay == {m \in UNION {{c} \X DOMAIN up[c] : c \in Clients} :
                  /\ up[m[1]][m[2]].type = "LobbyUpdate"
                  /\ HasUnnamed(up[m[1]][m[2]].players)}
NamesLast(players) ==
    HasUnnamed(players) => Cardinality(OnTheirWay) < Cardinality(AIs \ given)

SendUpdate(c, players, g) ==
    /\ client[c] = "MPLobby"
    /\ NamesLast(players)
    /\ edits < MaxEdits
    /\ edits' = edits + 1
    /\ copy' = [copy EXCEPT ![c] = [players |-> players, galaxy |-> g]]
    /\ Send(c, LobbyData(players, g))
    /\ UNCHANGED <<serverOnly, connected, player, down, client, id, hostId, joined, joins>>

MayEdit(c, entry) == ThisClientIsHost(c) \/ entry.id = id[c]

(* TypeSelector offers a human "Player", "Observer" and "Drop", an AI "Drop".        *)
ChangeType(c) ==
    \E i \in DOMAIN copy[c].players, type \in HumanTypes \cup {"Invalid"} :
        LET entry == copy[c].players[i]
        IN /\ MayEdit(c, entry)
           /\ type # entry.type
           /\ entry.type \in HumanTypes \/ type = "Invalid"
           /\ SendUpdate(c, [copy[c].players EXCEPT ![i].type = type], copy[c].galaxy)

AddAI(c) ==
    /\ ThisClientIsHost(c)
    /\ ~HasUnnamed(copy[c].players)
    /\ SendUpdate(c, Append(copy[c].players, Entry(NoPlayer, Unnamed, "AI")), copy[c].galaxy)

ChangeGalaxy(c) ==
    /\ ThisClientIsHost(c)
    /\ SendUpdate(c, copy[c].players, 1 - copy[c].galaxy)

Edit(c) == ChangeType(c) \/ AddAI(c) \/ ChangeGalaxy(c)

(* PlayerDataAcceptable: somebody plays, every row is a player's and has a name.      *)
CanStart(players) ==
    /\ \E i \in DOMAIN players : players[i].type \in {"Player", "AI"}
    /\ \A i \in DOMAIN players : players[i].type # "Invalid"
    /\ ~HasUnnamed(players)

StartGameClicked(c) ==
    /\ client[c] = "MPLobby"
    /\ ThisClientIsHost(c)
    /\ CanStart(copy[c].players)
    /\ edits < MaxEdits
    /\ edits' = edits + 1
    /\ Send(c, [type |-> "Start"])
    /\ UNCHANGED <<serverOnly, connected, player, down, client, id, hostId, copy, joined, joins>>

-----------------------------------------------------------------------------
Init ==
    /\ SetupInit
    /\ client = [c \in Clients |-> "IntroMenu"]
    /\ id = [c \in Clients |-> NoPlayer]
    /\ hostId = [c \in Clients |-> NoPlayer]
    /\ copy = [c \in Clients |-> EmptyCopy]
    /\ joined = {}
    /\ joins = 0 /\ edits = 0

ServerReads(e) == HandleMessage(e) /\ UNCHANGED clientVars

ClientReads(c) ==
    \/ Acknowledged(c)
    \/ HostIDReceived(c)
    \/ LobbyUpdateReceived(c)
    \/ GameStartReceived(c)
    \/ EndGameReceived(c)
    \/ Refused(c)

(* A bound: once the game is played or the server gone, what is on its way is       *)
(* still received, but nothing new is done.                                          *)
ClientActs(c) ==
    /\ fsm \notin {"PlayingGame", "Exited"}
    /\ \/ MultiPlayerGame(c)
       \/ NewSinglePlayerGame(c)
       \/ ClientLeaves(c)
       \/ Edit(c)
       \/ StartGameClicked(c)

Next ==
    \/ \E e \in Endpoints : ServerReads(e)
    \/ \E c \in Clients : ClientReads(c) \/ ClientActs(c)
    \/ \E a \in AIs : AIConnects(a) \/ AICrashes(a)

Spec == Init /\ [][Next]_vars

-----------------------------------------------------------------------------
(* Properties. *)

(* Every variable stays within its values. In particular an unnamed AI never gets   *)
(* into the lobby: react(LobbyUpdate) names it before the list is stored, so that    *)
(* every process CreateAIClients starts has a name to join under.                     *)
SetupTypeOK ==
    /\ fsm \in {"Idle", "MPLobby", "Joiners", "PlayingGame", "Exited"}
    /\ single \in BOOLEAN /\ begun \in BOOLEAN
    /\ connected \subseteq Endpoints
    /\ player \in [Endpoints -> [id : Int, type : ClientTypes \cup {"Invalid"}]]
    /\ host \in Int /\ expected \in Nat /\ galaxy \in {0, 1}
    /\ lobby \in Seq(Entries)
    /\ given \subseteq AIs /\ processes \subseteq AIs
    /\ expectedAIs \subseteq AIs /\ joined \subseteq AIs
    /\ client \in [Clients -> {"IntroMenu", "WaitingForMPHostAck", "WaitingForMPJoinAck",
                               "WaitingForSPHostAck", "MPLobby", "PlayingGame"}]
    /\ id \in [Clients -> Int] /\ hostId \in [Clients -> Int]
    /\ copy \in [Clients -> [players : Seq(Entries), galaxy : {0, 1}]]

EstablishedNow == Established(Server)
HumansLeft == {e \in EstablishedNow : player[e].type \in HumanTypes}
Quiet == \A c \in Clients : up[c] = <<>> /\ down[c] = <<>>
InLobby(c) == c \in EstablishedNow /\ client[c] = "MPLobby"

(* A player in the lobby is in the list of players, whatever lists clients with an   *)
(* old copy send: one that a list lacks is dropped, not kept outside of it, and a    *)
(* player that leaves takes only its own entry away (react(LobbyUpdate),              *)
(* react(Disconnection), react(JoinGame) of MPLobby).                                 *)
EstablishedAreListed ==
    fsm = "MPLobby" =>
        \A e \in EstablishedNow : \E i \in DOMAIN lobby : IsEntryOf(Server, e, lobby[i])

(* The lobby has one host, a human that is connected, however hosts and others come  *)
(* and go and ids are given again (NewPlayerID, SelectNewHost): without one nobody    *)
(* could start the game, with two both would edit every row.                          *)
OneConnectedHost ==
    fsm = "MPLobby" =>
        /\ Cardinality({e \in EstablishedNow : player[e].id = host}) = 1
        /\ \A e \in EstablishedNow : player[e].id = host => player[e].type \in HumanTypes

(* The joiners' states never have more players than the game has entries, those they *)
(* keep a place for included: the test for exactly the expected number would never    *)
(* come true (react(JoinGame) of WaitingFor(SP|MP)GameJoiners).                       *)
NeverOverfull ==
    fsm = "Joiners" => Cardinality(expectedAIs) + Cardinality(EstablishedNow) <= expected

(* Once nothing is on its way, every client in the lobby shows the server's list of  *)
(* players and its host, although a sender gets no answer to a list the server has    *)
(* already. It does not hold of the rest of the lobby data (README).                  *)
PlayersAgreed ==
    fsm = "MPLobby" /\ Quiet =>
        \A c \in Clients : InLobby(c) => copy[c].players = lobby /\ hostId[c] = host

HumansPresent ==
    /\ Cardinality({i \in DOMAIN lobby : lobby[i].type \in HumanTypes}) = Cardinality(HumansLeft)
    /\ \A e \in HumansLeft : \E i \in DOMAIN lobby : Matches(Server, e, lobby[i])

(* As long as no human of the list has left and no AI has crashed, the joiners'      *)
(* states wait only for AI processes that have yet to connect or to be read: the      *)
(* conditions are checked after the last player has joined, in time and at all        *)
(* (react(CheckStartConditions)). With one player gone they wait for ever.            *)
NeverStuck ==
    fsm = "Joiners" /\ HumansPresent /\ joined \subseteq connected =>
        \E a \in processes : a \notin joined \/ up[a] # <<>>
=============================================================================
