# FreeOrion: a verification project

TLA+ models of the parts of FreeOrion (`src/FreeOrion/`) in which several
processes, threads or empires have to agree: the setting up of a game in the lobby,
the server that runs it, the human and AI clients connected to it, the two threads
of a client's networking, the diplomacy between empires, and the orders they give,
take back and see executed. TLC checks the models
on small instances; TLAPS proves the main results for every value of the
constants. `PROJECT.json` holds the index: which definition stands for which
lines, which run checks which property, the hazards of the code, and the
findings.

## 1. Inventory

FreeOrion is a turn-based 4X game. One server process owns the universe; every
player is a client process connected by one TCP connection. Within a turn all
players give orders simultaneously; the server executes them together when every
empire has submitted its own, and sends each client the new state.

| Part | State | Operations | Interacts with | Correct when |
| --- | --- | --- | --- | --- |
| Server turn and save cycle (`server/ServerFSM`, `server/ServerApp`) | state of the statechart, posted and deferred events, `m_turn_sequence`, `m_current_turn`, the save data gathered | TURN_ORDERS, CheckTurnEndConditions, ProcessTurn, SAVE_GAME, CLIENT_SAVE_DATA, SHUT_DOWN_SERVER, disconnections | clients by messages, itself by posted events | each turn executes each empire's orders of that turn, once; turns and saves come to an end |
| Server networking (`network/ServerNetworking`) | connections, host player id | accept, read, send, disconnect | `ServerApp::HandleMessage` | only live players receive; one host |
| Human client (`client/human`, `client/ClientApp`) | FSM state, current turn, `m_orders`, host id, statuses of players | issue and send orders, autosave and menu save, quit | server by messages; GUI by callbacks | its orders reach the server; it never sleeps for ever |
| AI client (`client/AI`, `AI/`, `default/AI`) | as a human's, less the UI | generate orders, answer saves, answer diplomacy | server | every turn ends |
| Client networking (`network/ClientNetworking`, `MessageQueue`) | queue of received messages, condition variable | send, get, `SendSynchronousMessage` | networking thread and main thread by a mutex | FIFO; a response wakes its waiter |
| Setup and lobby (`ServerFSM`: Idle, MPLobby, joiners) | lobby data, expected players, player ids | join, lobby updates, start, load | clients | the game starts with the players it was set up for |
| Diplomacy (`Empire/EmpireManager`, `Empire/Diplomacy`, `UI/PlayerListWnd`) | status and one message per pair; copies in the clients; open popup menus | declare, propose, accept, cancel | server to clients by updates | peace is mutual; copies converge |
| Orders (`util/Order`, `util/OrderSet`) | orders by id | issue, rescind, execute | universe | rescinding restores; the server re-executes the same effects |
| Empire queues (`Empire/Empire`, `ResourcePool`) | research, production queues, stockpiles | allocate, progress, enqueue | turn processing | points spent never exceed points available |
| Turn rules (`ServerApp::PreCombatProcessTurns`, `ProcessCombats`, `PostCombatProcessTurns`) | universe | colonise, invade, gift, scrap, move, fight, grow | orders, queues | outcome independent of the order of players |
| Combat, universe, effects, conditions, parser, universe generation, UI, vendored libraries | large data | | | outside this project (section 8) |

The hard behaviours: orders, saves and departures reach the server in any order;
some states of the server put events aside (statechart *deferral*) and give them
back later, ahead of what is already queued; a saving client's main thread sleeps
until its answer comes; players quit or crash while others wait for them;
diplomatic messages cross on the wire and are sent from menus that were opened
some time ago. Nearly none of this is covered by a test in the repository. The
list with lines is `hazards` in `PROJECT.json`.

## 2. Modules

| Module | Models | Depends on |
| --- | --- | --- |
| `ServerTurn` | `PlayingGame` and its substates on the server, `ServerApp`'s turn, host and shutdown operations, connections | |
| `GameClients` | human, observer, moderator and AI clients in a running game | extends `ServerTurn` |
| `GameSession` | server and clients composed; the properties; the refinement | extends `GameClients`, instantiates `TurnBarrier` |
| `TurnBarrier` | abstract specification: what the turn cycle promises | |
| `GameSessionProofs` | theorems about the turn cycle and the host of a `GameSession` | extends `GameSession` |
| `SubmissionProofs` | theorems about the orders and saves of a `GameSession` on their way | extends `GameSessionProofs` |
| `Diplomacy` | `EmpireManager`'s diplomacy, the human's menu, the AI's answers, the clients' copies | |
| `DiplomacyProofs` | theorems about `Diplomacy` | extends `Diplomacy` |
| `MessageChannel` | abstract specification: what a client's networking promises | |
| `ClientThreads` | `ClientNetworking` and `MessageQueue` with both threads, several connections | instantiates `MessageChannel` |
| `ClientThreadsProofs` | theorems about `ClientThreads` | extends `ClientThreads` |
| `ServerSetup` | Idle, MPLobby and the joiners' states, player ids, host, `NewGameInit` | |
| `GameSetup` | the clients' lobby window and the AI processes, with the server; the properties | extends `ServerSetup` |
| `GameSetupProofs` | theorems about `GameSetup` | extends `GameSetup`, `IterationProofs` |
| `Orders` | four kinds of orders: execute, undo; order sets: issue, rescind | |
| `TurnRules` | `PreCombatProcessTurns` up to movement, as operators on a universe | extends `Orders` |
| `TurnOrders` | players' clicks, the server's turns; the properties | extends `TurnRules` |
| `MCDiplomacy` | the empires of the run | extends `Diplomacy` |
| `MCTurnOrders` | the ships, fleets and situations of the run | extends `TurnOrders` |
| `IterationProofs` | induction over numbers, largest elements, and loops as recursive functions | |
| `TurnOrdersProofs` | theorems about single orders, order sets and whole turns | extends `TurnOrders`, `IterationProofs` |
| `TurnOutcomeProofs` | theorems about who colonizes and conquers what in a turn | extends `TurnOrdersProofs` |

Mutants - definitions marked `a mutant`, each the form a plausible slip would
give its neighbour - are used by no specification; they show that each property
depends on the code: put in the place of that neighbour they make a run fail.

### ServerTurn and GameClients

*State.* `fsm` is the innermost active state; `eventQueue` and `deferredEvents`
are the queues inside boost::statechart. The other server variables carry the
names of the members of `ServerApp`, `WaitingForSaveData` and `ServerNetworking`.
`saveFile` is what the last successful save wrote, `executed` the order sets the
last turn processing executed (`executed` is history: the code forgets it).
`toServer[p]` and `toClient[p]` are the two directions of a TCP connection, FIFO
and lossless until it ends. An order is represented by the turn its client was
playing when it was issued, an `OrderSet` by the set of those turns: nothing else
about an order matters to the protocol.

*Server actions.* One per reaction of the statechart, plus `ReadFrom` (the next
message of a connection becomes an event). The server is one thread and a
dispatched event runs to completion with everything it posts; so `ReadFrom` waits
for an empty `eventQueue`. `Deferred` puts TURN_ORDERS and save requests aside in
`WaitingForSaveData` and `ProcessingTurn`; `LeaveDeferring` gives the copies back
at the front of the queue. CheckTurnEndConditions is inherited in
`WaitingForSaveData`, as in the code. A save may fail: `saveFile` then stays as it
was. Chat, moderator actions and the requests for object and design ids change none
of this state and are left out.

*Writing.* `boost::asio::write` is synchronous and throws when the other end is gone;
neither the statechart nor `ServerApp::Run` catches that, and `main` ends the
process. So a reaction that writes to the players `ps` ends in one of two ways
(`Written`): it reaches them all and goes on, or one of them is gone (`"Left"`), some
of the others are reached, and the server stops. A write to a dead connection may also
succeed, into the socket's buffer: that is the first way. What is written counts
for this even if its content does not: error messages, of a failed save or of
orders refused, and TURN_PROGRESS, are written (`ErrorsWritten`).

*Undefined behaviour.* An event keeps a reference to the connection parameter of
`ServerApp::HandleMessage`, passed by value; a deferred copy is dispatched after
that parameter is gone. `ConnectionOf` lets such an event read any connection the
server holds. The sender's *id* is in the message itself and stays right.

*Clients.* `IssueOrder`, `EndTurn`, `MenuSave`, `Quit` and `Crash` are decisions
of a user or of the environment; `Responds` is what a client does by itself with
the next message. `blocked` is a main thread inside `SendSynchronousMessage`; it
takes the first synchronous response from anywhere in its queue and handles
nothing else. A crash loses what was not sent; the server may be told of it or
not, since only the errors eof and connection_reset raise a Disconnection, and after any
other it stops reading and keeps the player established. The players in `HotkeyUsers`
press the end-turn hotkey again while they wait; the turn button is disabled then, and
so are orders. An AI process reads messages only between its turns. GAME_START is
the TURN_UPDATE of turn 1; the host autosaves when a turn starts. The host may be
any human, observer or moderator. No player is ever eliminated: the code that
would record it is commented out (`ServerApp.cpp:3115`).

### TurnBarrier

Its state is the turn, who has submitted, what is pending, what was executed, whether the
turn is open or closed or all has stopped, and whether a moderator is in the game. A turn
closes when every empire has submitted (or while a moderator is there), nothing is
submitted to a closed turn, and the end of the turn executes what was pending; a
moderator leaves for good. `GameSession` implements it under the mapping at `Barrier`, in
which `ProcessingTurn` is the closed turn and the moderators connected make `moderated`.

### Diplomacy

*State.* Status and message per pair as in `EmpireManager` (`DiploKey` makes the
pair unordered), each human client's copies, the message that the open popup menu
of a client would send, connections, and one history variable, `wantsPeace`: who
of a pair has asked for or accepted peace in the present war and not cancelled.

*Actions.* `HandleDiplomaticMessage` takes the next message of an empire and
applies the case of the switch it falls into: `WarDeclared`, `PeaceProposed`,
`PeaceMade`, `ProposalCancelled`, `MessageIgnored`. The signals of
`EmpireManager` and the updates they send are part of the step: first the
message, to the two empires, then the status, to all. `PlayerRightClicked` opens
a menu and fixes what it offers; `MenuChosen` sends later, `MenuClosed` does not.
`AIReceives` models the AI script, which accepts or ignores (its dice are a free
choice), `DeclareWar` its declaration on everybody in turn 1.

### MessageChannel and ClientThreads

`GameClients` receives a message, or answers a synchronous call, in one step. The
code does so with two threads and a mutex, and `ClientThreads` shows that they
amount to that: it implements `MessageChannel`.

*State.* `main` is where the main thread stands: between two calls (`idle`), between
testing `m_connected` and posting (`posting`), inside `SendSynchronousMessage`
(`finding`, `asleep`), between the two critical sections of `GetMessage`
(`getting`), in `ConnectToServer` (`connecting`). `netThread` is how far
`NetworkingThread` has come, `write` the state of the asynchronous write of the front
of `m_outgoing_messages`. The queues carry the names of the members. A message is
its number, whether it is a synchronous response, and the connection it came
through; `handled` is history.

*Actions.* One per critical section or handler. `SendMessage` and `Post` are apart,
since the code tests the flag and posts outside the mutex. `SpuriousWakeup` is what
`boost::condition` allows. `PopFront` on an empty list is undefined behaviour: the
process ends or goes on. `ConnectToServer` runs the io_service in the main thread;
`RunLeftTask` is a task an earlier connection left there. `ClearQueues` and
`ThreadTerminates` are the end of `NetworkingThread`, which notifies nobody. The
server is only what the threads need: it reads, answers what it was asked, sends,
closes.

### ServerSetup and GameSetup

*State.* The server's statechart before the game, its connections with the id and
client type of each, the lobby data (`lobby`, the list of players, and `galaxy`, all
the rest), `m_expected_ai_player_names` and `m_num_expected_players`; of each client
its FSM state, its ids and its own copy of the lobby data. `up` and `down` are the
connections' two directions.

*Actions.* One server action per event of the statechart, with what it posts:
`CheckStartConditions` is part of the handler that posts it. A handler that drops a
connection runs the Disconnection event before it returns, so a handler works on a
record of the server's variables (`Become`) and `Disconnect` may be folded over
several connections. `m_player_connections` is ordered by addresses: `order` is any
order. A client edits its copy of the lobby data and sends the whole of it
(`ChangeType`, `AddAI`, `ChangeGalaxy`), starts if it believes to be the host, and
leaves or crashes at any moment. An AI process connects some time after
`WaitForJoiners` has started it.

### Orders, TurnRules and TurnOrders

*State.* A universe is a record of one system's ships and planets with their owners,
marks (`m_ordered_colonize_planet_id`, `m_is_about_to_be_colonized`, ...), troops
and shields. There is the server's and one in each client's plan, with that
client's order set, a sequence by order id. Everybody sees everything in it, and
nothing moves: what is modelled are the rules of orders, not of visibility or supply.

*Actions.* `Execute`, `Undoable` and `Undone` are `ExecuteImpl` and `UndoImpl` of each
kind; a refused order stays in the set, as in `OrderSet::IssueOrder`. A click
(`ClickColonize`, `ClickInvade`, `ScrapShip`, `UnscrapFleet`, `Give`, ...) is a menu or
button of the side panel or fleet window with all orders it takes back and issues.
`ProcessTurn` executes the order sets, empire by empire, on the server's universe
and then applies `HandleColonization`, `HandleInvasion`, `HandleGifting` and
`HandleScrapping` in the code's order; every client gets the result and an empty
order set.

## 3. Runs

| Run | Instance | Checks |
| --- | --- | --- |
| `turns` | human host, AI; autosave in turns 1 and 2; 3 turns | `TypeOK`, `ProcessTurnPending`, `OrdersOfThisTurn`, `SaveFileConsistent`, `OrdersNotLost`, `ImplementsBarrier`, `TurnsEnd` |
| `leaving` | human host, AI, observer; the AI and the observer may quit or crash; two menu saves | `ResponsesAsked`, `GameEnds`, `SaveAnswered` |
| `moderated` | human, observer, moderator; the last two may quit or crash; the observer presses the end-turn hotkey; 2 turns | `ProcessTurnPending`, `HostAgreed`, `HostConnected`, `ModeratorDecides`, `ExitsOnlyWhenOver`, `HostLearns` |
| `diplomacy` | two humans, who send two messages and one, and an AI | `DiplomacyTypeOK`, `ProposalsOnlyAtWar`, `PeaceIsMutual`, `ReplicasConverge` |
| `saved_twice`, `saved_orders`, `observer_leaves`, `end_turn_twice` | one or two players, two turns (`saved_twice`: three, autosaves in two and one menu save) | four findings of section 6, expected violations |
| `client_threads` | three messages of the client, two unasked ones of the server, two connections | `ThreadsTypeOK`, `AvailableWhileConnected`, `SentInOrder`, `NothingStale`, `ImplementsChannel`, `SleeperAnswered`, `DisconnectionNoticed` |
| `game_setup` | two humans who may host, one of whom may leave; an AI that may crash; three connections, two edits | `SetupTypeOK`, `EstablishedAreListed`, `OneConnectedHost`, `NeverOverfull`, `NeverStuck`, `PlayersAgreed` |
| `turn_orders` | two empires at war or peace, two colony ships, two troop ships, a warship, two planets in several situations; three clicks, two turns | `OrdersTypeOK`, `OneColonizerEach`, `ShownIsOrdered`, `ConquerorsLandedMost` |
| `contested_colony` | the same | the fifth finding, an expected violation of `ContestedKeepsOwner` |

`CHECK_DEADLOCK FALSE` everywhere: a session stops when the server exits or at the
bound on turns, diplomacy when every message is sent, the threads when every message
is sent and the last connection gone, a setup when the game has begun, orders after
the last turn.

*Bounds.* `MaxTurn`: no user ends that turn (AIs do), so turn processing happens
`MaxTurn - 1` times; two are enough for everything left over from one turn to meet
the next. `MaxMenuSaves`: with two the second save is asked for while the first is
being gathered, so that it is deferred and comes back with a dangling reference, and the
game goes on after a host has fallen asleep over it; a menu save beside autosaves in two successive turns
is what lets an answer to an abandoned save meet the next one (`saved_twice`). The run
`leaving` has one turn, which the human never ends: what it asks about is departures and
saves, which `turns` and the `saved_` runs cross with the ends of turns. Its human stays, so
as to be the host that falls asleep; hosts that leave are in `moderated`. Its one AI is
enough: the server counts AI processes against connections, and connections go one by one, so with
any number of AIs the two counts meet unless connections remain beside them; with one AI
that already happens, because a host stays connected, asleep, or an observer, gone
unnoticed, and both are reached. In `EndTurn` the hotkey repeats only while the
connection is empty and the last turn is not reached; in `moderated` only the observer
uses it, which puts TURN_ORDERS that must not count beside everybody else's. `MaxSent`: two messages of one
human and one of the other make a war, a proposal that crosses its cancellation or its
acceptance, and peace; with the AI there is a pair that each human only watches. `MaxSent` and
`MaxServed` of `ClientThreads`: three messages put one in the write, one behind it
and one in the io_service, or two around a request; two connections let every
remainder of the first meet the second. `MaxJoins` and `MaxEdits` of `GameSetup`: three
connections are a host, a joiner and one who comes back to an id given before; two
edits cross each other or a start. `given` bounds the AI names, and a game that has
begun or a server that has exited takes no new action of a client. `MaxClicks`: three
clicks of both empires together issue, replace and take back, or set three forces on
one planet; the second turn starts from what the first has left. Players are not symmetric in the session (their types and the host
differ) and symmetry would be unsound for the liveness runs, so none is used.

*Fairness* (`GameSession`). Weak fairness of the server's reactions and of each
client's reactions: their loops handle what has come. Strong fairness of
`ReadFrom`: boost::asio serves every ready socket in turn, however busy the others
are, and reading is enabled only between reactions. `PlayersEndTurns`, weak
fairness of `EndTurn`, is an assumption on users and AI scripts; without it no
turn need end. Nobody is assumed to quit, save or issue orders. `FairSpec` of
`ClientThreads`: weak fairness of what each thread does by itself and of the server's
reading and answering; strong fairness of `NoticeDisconnection` only, since
`HumanClientApp::HandleSystemEvents` looks at the flag every frame, whatever the main
thread does between two frames. Nobody is assumed to send, connect or close.

## 4. What the properties say

- *Orders.* `OrdersOfThisTurn`: TURN_ORDERS carries no turn number, and yet no
  order set of an earlier turn is ever in the turn sequence. `OrdersNotLost`: an
  order leaves client, wire, queue, deferral and sequence only by being executed.
  `ImplementsBarrier`: as above. `ModeratorDecides`: while a moderator is connected no
  empire's submission ends a turn, not even the last; when it has left, all orders must
  be in. Deferred orders are excepted, since they may be taken for a moderator's
  (section 6).
- *Progress.* `ProcessTurnPending`: the state `ProcessingTurn` and the event that
  ends it go together, one to one. `TurnsEnd`. `SaveAnswered`: a client asleep over a
  request that reaches the server is answered, whoever leaves meanwhile, unless the
  request is deferred; a deferred one may be dropped.
- *Saves.* `SaveFileConsistent`: an entry of every connected player
  (`NobodyLeftOut`), with orders of the saved turn only. That there is *one* entry per
  player, as the comment of the state has it, is false (`saved_twice`).
  `ResponsesAsked`.
- *Departures.* `HostConnected`, `HostAgreed`, `HostLearns`: there is a connected
  host, no other client believes to be it, and it comes to know.
  `ExitsOnlyWhenOver`: the server stops when its host says so, when an empire is lost, when only
  AIs are left, and otherwise only in a reaction that writes to somebody who is gone; a
  reaction that writes nothing does not stop it, nor does any under players who are all
  there. `GameEnds`: once an empire is lost every player is gone for good or asleep for good, and
  the server has stopped or holds such a player: one asleep, or one whose end it has missed.
- *Diplomacy.* `PeaceIsMutual`, `ProposalsOnlyAtWar` and `ReplicasConverge`.
- *Threads.* `ImplementsChannel`: as above. `SentInOrder`: also what a lost connection
  left behind comes first and once. `NothingStale`: no answer of an old connection in
  a new one. `AvailableWhileConnected`: the gap between the two critical sections of
  `GetMessage` is closed as long as the connection lasts; when it ends in the gap the
  code reads an empty list. `SleeperAnswered`, `DisconnectionNoticed`: nobody waits for
  ever on a living connection, and who does not sleep notices a dead one. That a
  sleeper on a dead connection is not woken is excluded by name in both.
- *Setup.* `EstablishedAreListed`, `PlayersAgreed`: stale lists that replace each other
  leave no player outside the list and no client with another list.
  `OneConnectedHost`. `NeverOverfull`, `NeverStuck`: the test for exactly the expected
  number comes true unless a player is lost.
- *Orders and rules.* `OneColonizerEach`, `ShownIsOrdered`: the marks a client shows are
  what its order set does when the server executes it anew. `ConquerorsLandedMost`: who
  conquers a planet is a matter of troops, not of who clicked first; it speaks of the turn
  in terms of what the players saw before it. `ContestedKeepsOwner`: what the comments of
  `HandleColonization` promise, and the code does not keep; what it does instead is
  `FirstEmpireColonizes`, stated beside it and proved.

## 5. Proofs

Checked by tlapm from nothing but the named assumptions: `PlayersAssumption` (the
kinds of players are disjoint, the players finitely many), `ClientsAssumption` (the bounds are
numbers), `EmpiresAssumption` (humans and AIs are disjoint), `ThreadsAssumption` (the
bounds are numbers), `EndpointsAssumption` (clients and AI names are finitely many,
disjoint, and none is the mark of an entry without a name), `OrdersAssumption` (fleets partition the ships, which are finitely
many; there is an empire), `TroopAssumption` (a troop counts), `TurnOrdersAssumption` (a
game begins with nothing ordered and with each fleet in one hand). They hold for
any number of players, turns, messages, connections, ships and planets. (Without an
empire the model, which waits for all empires, would process turns without end.)

`GameSessionProofs`:

- `TypeCorrect`: `TypeOK` is inductive. It includes `ServerChannels`: a connection
  carries only its own player's messages.
- `ProcessTurnIsPending`: `ProcessTurnPending` is inductive together with the fact
  that deferred events are never posted ones, since giving them back puts them in
  front of the queue.
- `SessionImplementsBarrier`: initial states map to `BarrierInit` and each step to
  one of its actions or a stutter. With the phase in the mapping the guard of
  `CloseTurn` is visible where the decision is taken; that turn and order sets are left
  alone while the turn is closed needs `ProcessTurnPending` and that TURN_ORDERS are
  deferred. A moderator's orders close a turn because it is connected when they are
  dispatched: `SenderInv` says that the sender of an event that does not dangle is
  connected (a deferred event dangles, and nobody is disconnected while another event is queued), and
  `ConnectionOf` that what a dangling one designates is connected too. A write that fails is
  a last step of the action it interrupts (`Onwards`).
- `ModeratorEndsTurns`: by `SenderInv` and the same case of `TurnOrders`: what is not
  deferred is judged by the type of its own sender.
- `OnlyAskedRespond`: by `AskedInv`: during a save every connected player has been
  asked, and an answer in the event queue is a connected player's.

The same module on the host, from `TypeOK` and `LostInv`: a disconnection is dispatched as
soon as it is read, with nothing queued beside it and its player out of the connections
already.

- `HostIsConnected`: by `ConnectedInv`. `HostConnected` is not inductive: it says
  nothing of the moment between the host's loss and the choice of the next one, so
  the invariant names the host's disconnection in the queue as the only other case.
  If nobody is left to choose from, only the AIs are connected and the server stops.
- `HostIsAgreed`: by `HostInv`. News of a host may be read long after it was sent; it
  is still true for a client that has not left, because the server replaces a host
  only on its disconnection and a client that stays has none on its way: not in its
  connection, not in the event queue.
- `ExitsWhenOver`: a step that stops the server handles a shutdown request or a
  disconnection, or writes to somebody who is gone; with all empires connected, as many
  connections as AI processes are the AIs' (`FS_Subset`). `LastReaction` goes through the
  reactions and shows which of them write, and to whom.

`SubmissionProofs`, on what is on its way between the client that ends a turn and the
turn that executes its orders:

- `OrdersBelongToTheTurn`: `OrdersOfThisTurn` is not inductive. It speaks of the turn
  sequence alone, and what gets there was sent without a turn number, may have been
  deferred, and is given back in front of what came later. `JourneyInv` says of each empire
  that its turn is in one place only (`OnePlace`): announced by a TURN_UPDATE, being
  played, on the wire, in the event queue, deferred, or in the turn sequence; that there is one of
  it there (`OnlyOnce`); and that it is the server's present turn wherever it is
  (`OfThisTurn`). A turn then ends only when all of it is in the turn sequence, by
  `TurnMayEnd` (in `ProcessingTurn` everybody has submitted, as when `ProcessTurn` was
  posted), and nothing of it is left anywhere else to arrive late.
- `NoOrderIsLost`: by the same invariant. A submission finds no other one of its empire that it could
  replace, and one that is read or given back stays in one of the places that
  `OrdersHeld` counts until `executed` has it.
- `SavesLeaveOutNobody`: by `AskedInv` and `GatheredInv`: the players that have answered
  are those with an entry, and the save is written when they are all that were asked.
  Holds of every instance.
- `SavesAreConsistent`: by `SaveDataInv`. Save data with orders in it is sent by a client
  that has not ended its turn; it goes ahead of the order set (`Precede`), so no turn
  ends before it is read, and an answer to an abandoned save that arrives in a later
  turn has no orders in it.

The lemmas under them are about sequences: `NoneIn`, `OnceIn`, `FewerIn` and `Precede`
under appending, taking the head, concatenation and deletion. Reading, deferring and giving
back are these operations, for any kind of message.

All but `SavesLeaveOutNobody` assume that nobody moderates and that the hotkey does not
repeat an end of turn, `NoOrderIsLost` also that nobody spectates. Each excludes
instances in which the code does otherwise: a moderator ends a turn with order sets still
on their way, a repeated end of turn replaces the order set with an empty one
(`end_turn_twice`), and an observer is among the connections that the dangling
reference of a deferred TURN_ORDERS may designate, so that the orders are dropped. Nothing else
is assumed: any number of empires may play, be asked to save, leave and crash.

`DiplomacyProofs`:

- `DiplomacyTypeCorrect`: typing, with the fact that each pair keeps an entry and
  that the entry is of that pair.
- `MutualPeace` and `NoProposalAtPeace`: by `PeaceInv`. `PeaceIsMutual` alone is not
  inductive: an acceptance makes peace on the word of a proposal that was heard
  earlier, so the invariant adds that the sender of a standing proposal still
  wants peace (`ProposerWantsPeace`), that no proposal stands at peace, and that
  nobody outside a pair counts (`OnlyThePairWants`).
- `CopiesConverge`: by `CopyInv`, which says of every value a client copies that it
  is `Settled`: the *last* update about it in the client's channel brings the
  server's value, or none is there and the copy is right. Three lemmas on
  sequences say how appending and handling updates keep it.

`ClientThreadsProofs`, from one invariant, `ThreadsInvariant`:

- `ThreadsTypeCorrect`, `StaysAvailable`: typing needs what ties the threads together:
  a write is under way exactly when there is something to write, the networking thread
  runs only while the flag is set, and the main thread is in `getting` with an empty
  queue only after the queue has been cleared.
- `NeverStale`: messages on their way in and in the queue are of the present connection,
  and there are none while no networking thread runs. The invariant has to say so
  of `fromServer` too, and that a connection is made only after the `Clear`.
- `OrderKept`: `Upstream`, the concatenation of what is in the connection, in
  `m_outgoing_messages` and in the io_service, is ascending in number and above what
  was received. Lemmas on ascending sequences cover appending, taking the head and
  moving an element across a seam; a write that is `done` is in two queues at once and
  is counted once (`Unwritten`).
- `ThreadsImplementChannel`: every step of the threads is a step or a stutter of
  `MessageChannel` under the mapping at `Channel`. A message moved from the connection
  to the queue stutters; the first synchronous response of the queue is also the first
  of queue and connection together.

`TurnOrdersProofs` begins with single orders: `ExecuteTyped`, `UndoneTyped`,
`ExecuteKeepsColonizers`, `UndoneKeepsColonizers`: executing or undoing any one, in any
universe, keeps the type and `OneColonizer`, the body of `OneColonizerEach`. It
goes from there to order sets of any length and whole turns.
The code's loops over orders, ships and empires are recursive functions in the model;
`IterationProofs` shows that such a function is what a loop passes through
(`IterationExists`), and gives induction in a form about sets of numbers
(`NatSetInduction`, `GreatestNat`), since the library's induction over a predicate
cannot be instantiated. One inductive invariant, `TurnInv`, carries the theorems
`OrdersTypeSafe`, `OneShipColonizes` and `PlayersSeeTheirOrders`:

- `ShownIsOrdered` is not inductive. It compares a plan with the execution of its
  orders from the first, and says nothing of what is left when one in the middle is
  taken back. `Reflects` says instead what each mark of a plan is in terms of the
  order list: a ship colonizes what its order says, it invades what the one of its
  orders says *that takes effect* (refused ones stay in the list), an object is given to
  the recipient of the last order that gives it. `ExecuteAllReflects` shows that executing such a list on
  the server's universe leaves exactly these marks.
- Taking an order back clears a mark. That this is the mark of that order, and that no
  other order keeps a claim on it, needs `LegalList`: colonizing orders of a list are
  for different ships and planets and take effect, of a ship's orders to invade at most
  one takes effect, gifts are by owners. The clicks have to establish it: they take back
  what the ship shows before they order anew (`CancelKeeps`, `IssueKeeps`), and gifts
  are taken back all or none.
- In the middle of `RecindOrders` the list is neither the old nor the new one. `Rest`,
  what is kept of the first orders followed by the orders not yet looked at, is
  the list that the plan reflects at that moment (`RecindKeeps`).
- `TurnLeavesFresh`: after `PreCombatProcessTurns` no mark is left on a ship or a
  planet that still exists, whatever was ordered (`Fresh`); so the next turn begins
  as the first did. That the bound on turns is not exceeded needs that somebody has to
  end a turn.

`TurnOutcomeProofs` goes on to what a turn brings, for `ConquestByTroops` and
`FirstColonizes`:

- A player sees only its own orders, while the server executes those of all empires on one
  universe. `Merged` describes that universe by the *set* of orders executed so far: the
  marks to invade are those of every order that is allowed on the universe the turn began
  with, since nobody else owns the ship and no order changes what is asked; a planet's
  mark to be colonized is the first order's, and so refuses the orders of later empires.
  `MergeOne` adds an order, `MergeAll` an empire's, `MergeOrders` everybody's.
  `ShownInvading`, `ShownColonizers` and `ShownGiving` compare the result with what each
  player was shown, by `TurnInv`.
- Colonization comes before the landing. That it takes no ship from an invasion is
  `OneTask`, through `ColonizersFree`; that nobody lands on a planet of its own, which
  would let the garrison fight its own owner, is in the condition of the order
  (`LandingShown`).
- `CombatOutcome` is about `ResolveGroundCombat` alone: the victor has the most troops,
  the garrison's bonus counted, hence more than a garrison it replaces without it; and who
  lands more than everybody with the bonus is the victor. For equal attackers the larger id decides, so
  nothing stronger holds.
- `SmallestOf` and `FirstHas`: the empires that see themselves colonize a planet are
  those with an order, and the server's colonizers are the ships of the first of them.

Stating both for all constants corrected them. A ship destroyed while it invaded keeps its
mark on the client (`Fresh` says so), so `Invading` counts existing ships; a garrison's
bonus can be worth more than the difference of two landings, where one troop is one unit; a
ship ordered scrapped twice and taken back once is scrapped although it is not shown so,
which `ToldToScrap` allows for.

`GameSetupProofs` proves all six invariants of the run `game_setup`, from one inductive
invariant, `SetupInv`; `SetupInvariant` has one lemma per event of the server, each with
all disconnections it causes, and one per action of a client or AI:

- `LobbyListsAll`, `LobbyHasOneHost`: a handler that drops a player runs another that
  erases its entry and may choose a new host; one that drops several does so in turn, when
  the list has lost the entries of all of them already. `LobbyOpen(s, drops)` is the
  invariant of the lobby in the middle of this: everybody but those still to be dropped
  is listed. `DropStep` and `AllDropped` carry it through the loop, `LeftIdentified` the
  ids. That an erased entry is nobody else's needs that ids are unique among all that
  are connected (`Identified`), and that an AI's entry has no id (`Rows`), so that the
  erasure meant for a stranger (section 6) never hits a player.
- `LobbiesAgree` says nothing of a client until all is quiet. `KnowsHost` and `KnowsList` say
  at every moment what a client will know when it has received all that is on its way: the
  *last* of the messages about the host carries the server's, the last list is the
  server's. While a client waits for the answer to its own question it ignores both, so
  the answer has to come before them. A client whose last list is not the server's has
  sent one that is still to be answered (`SentLast`): the only list the server does not
  answer is one it has already.
- `SetupTypes`: that an AI without a name finds one is `NamesLeft`, a count of the lists on
  their way that have such an entry (`WayRead`, `WayPosted`); the code counts names
  without end, the model has as many as clients may ask for.
- `JoinersFit` and `JoinersProceed`: places kept for AIs and players established are never
  more than entries, and while the state lasts the players are fewer (`JoinersCounted`). The
  entries are the humans' and as many AIs' as there are processes, since AIs have
  different names (`NamedRows`): so while all humans are there some AI has yet to join, and one
  that has connected has its question on its way (`AIsAsk`).

`JourneyInv`, `SaveDataInv`, `GatheredInv`, `TurnInv` and `SetupInv` were checked by TLC as
invariants of small instances of their modules before they were proved.

## 6. Findings

- `saved_twice`: CheckTurnEndConditions is not deferred in `WaitingForSaveData`.
  Orders and a save request that waited together for the end of a turn's processing
  make the check run inside the save; the turn ends and the save is dropped, with its
  SAVE_GAME still on its way. The late answer is counted in the next save, as is the same
  player's answer to that one: the file has two entries of one player.
- `saved_orders`: a player who ends its turn just before it is asked for save data
  is saved without orders; they are in a deferred event.
- `observer_leaves`: an observer who leaves during a save is waited for for ever;
  the orders deferred meanwhile are never executed.
- `end_turn_twice`: the end-turn hotkey pressed while waiting sends an empty order
  set, which replaces the one submitted.
- `contested_colony`: `ServerApp.cpp:2021-2027` says that nobody colonizes a planet if
  multiple empires try to on the same turn. The test never sees two: the server executes all order sets on
  one universe, the first empire's order marks the planet and the orders of the others
  are refused for that mark (`Order.cpp:538`), although each client accepted its own. So
  the empire whose orders are executed first, the one of the smallest id, succeeds.

Met on the way, without a run of their own (most are steps that the passing runs
take; none is forbidden by a property, for the code does them):

- `ServerNetworking.cpp:41`: a write to a player whose client is gone ends the server,
  with the host and every empire connected: a spectator's crash in the middle of the
  updates of a turn is enough. `ExitsOnlyWhenOver` excepts it by name.
- `ServerNetworking.cpp:245`: a read error other than eof or connection_reset raises no
  Disconnection. The server keeps the player, reads no more from it and waits for it.
- `ServerFSM.cpp:165`: through the dangling reference a deferred request to save may be
  taken for another player's and be ignored, and the host, in `SendSynchronousMessage`,
  sleeps for ever, also after the game has ended; a host asleep does not handle END_GAME, and
  a server with a human connected does not stop. Deferred TURN_ORDERS may be taken for a
  moderator's and end a turn without anybody's consent.
- `ServerFSM.cpp:1264`: a moderator who leaves when all orders are in leaves a turn that
  nothing ends: the conditions are checked only when orders arrive.
- A war declaration that arrives when the two empires are already at war is ignored
  and does not withdraw the standing proposal of its sender. `PeaceIsMutual` is
  stated accordingly: only a cancellation withdraws.
- `ClientNetworking.cpp:340`: a client in `SendSynchronousMessage` is not woken when its
  connection is lost; its main thread sleeps for ever. `ClientNetworking.cpp:261`:
  `GetMessage` says it "places it into message" (`ClientNetworking.h:88`), but when
  the connection is lost between its two critical sections it reads the front of an
  empty list.
- `ServerFSM.cpp:374`: in the lobby, a connection that leaves before it has joined has
  id -1, and the first AI entry, whose id is -1 too, is erased for it.
- `ServerApp.cpp:600`: a host that leaves while AIs are joining leaves its place, and its
  id, to the next client that joins; the names differ, `NewGameInit` gives up with an
  error, its caller enters `PlayingGame` all the same, and no turn is ever begun.
- `ServerFSM.cpp:224`: while AIs are still joining, the count of processes and the count
  of players established may coincide by chance and the server exits, or may differ
  with no human left and it stays. A joiners' state that loses a player waits for ever.
- `ServerFSM.cpp:665`: a change of the galaxy settings that crosses a change of a row
  is overwritten by the old settings the row's sender had.
- `FleetWnd.cpp:3296`: "scrap all" orders a ship scrapped a second time; taking back
  one order clears the mark and the ship is scrapped by the other.
- `FleetWnd.cpp:3290`: the menu entry that splits a fleet by design lacks a `break`
  and orders the whole fleet scrapped.
- `Order.cpp:677`: taking back one of several invasions of a planet clears its mark.
- `ServerApp.cpp:2106`: of two equal attackers that beat the garrison the one of the
  larger id gets the planet, with no troops left on it. `ServerApp.cpp:2348`: a planet
  conquered in the turn in which its owner gives it away is given away.

## 7. Only model-checked

Liveness (`TurnsEnd`, `SaveAnswered`, `GameEnds`, `HostLearns`, `SleeperAnswered`,
`DisconnectionNoticed`) is beyond the prover: each is an ENABLED argument under
fairness. The expected violations are TLC's by nature, and say nothing beyond their
instances. Every invariant and every action
property of the passing runs is a theorem, three of them (`OrdersOfThisTurn`, `OrdersNotLost`,
`SaveFileConsistent`) under the assumptions of section 5, without which they are
false; the run `turns` is an instance of those.

## 8. Not modelled

- In `GameSetup`, writes that fail and losses that go unnoticed: a send to a dead
  connection has no effect there and every loss is noticed. The session models both; before a game they
  would stop the server or leave a player waited for, which the properties of the setup
  do not forbid.
- In `ClientThreads`, a write handler that has completed but was not dispatched when
  the networking thread ended, and that stays in the io_service for the next connection:
  `ClearQueues` takes the write's end as handled.
- Clicks on orders after the end of a turn. `MapWnd::EnableOrderIssuing` disables the order
  controls of the windows while the client waits; an order from a control it does not
  reach would stay in the client's set until the next turn.
- Which of several ships of an empire settles on a planet: the code takes the smallest
  id, and the orders of a player leave one ship per planet (`OneColonizerEach`), so that the
  choice in `HandleColonization` has one candidate.
- Loading a saved game, from the menu or the lobby, and lobby chat.
- Discovery of servers on the local network; sockets below the level of messages.
- Orders that move, merge, split or rename; bombardment, which works as invasion on
  fields of its own; orders to the production and research queues.
- Research and production queues, stockpiles and supply: floating-point allocation over
  content tables.
- What follows movement in a turn: combat, effects, growth.
- Combat (a randomised floating-point simulation), effects and conditions (content
  scripts over a large data model), supply and movement over the galaxy graph,
  universe generation (Python), the content parser, serialization formats,
  rendering and all vendored libraries: data and arithmetic without the kind of
  control a model checker explores, or third-party code.

## 9. Plan

What would come next, in this order:

1. `ResearchQueue`, `ProductionQueue`: allocation as folds, checked against a
   reference definition; spending bounded, nothing starved.
2. Loading: the lobby with a saved game, the matching of players with saved
   empires, the orders that are restored and executed again.
3. The composition of `TurnOrders` with `Diplomacy`: wars declared between an order
   and its execution.
4. Fleet movement orders, merging and splitting, whose undoing the client relies on.
