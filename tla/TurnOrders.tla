------------------------------ MODULE TurnOrders ------------------------------
(***************************************************************************)
(* Turns of human players: each gives and takes back orders in the side      *)
(* panel and the fleet window, on its own copy of the universe, and ends its *)
(* turn; when all have, the server executes all orders (TurnRules) and sends *)
(* the universe that results. How turns are agreed on is GameSession's       *)
(* matter; who is at war does not change meanwhile, and fleets do not move.   *)
(***************************************************************************)
EXTENDS TurnRules

CONSTANTS Situations, \* the universes a game may begin with
          MaxTurn,    \* bound on turns
          MaxClicks   \* bound on the clicks of all players

ASSUME TurnOrdersAssumption ==
    /\ MaxTurn \in Nat /\ MaxClicks \in Nat
    /\ \A u \in Situations :
          /\ u \in Universes
          /\ u.scrapped = {} /\ u.aboutColonized = {} /\ u.aboutInvaded = {}
          /\ \A s \in Ships : u.colonize[s] = NoPlanet /\ u.invade[s] = NoPlanet
          /\ \A x \in Fleets \cup Planets : u.given[x] = AllEmpires
          /\ \A f \in Fleets : \A s, t \in f : u.owner[s] = u.owner[t]

VARIABLES
    universe, \* the server's m_universe
    war,      \* EmpireManager's diplomatic statuses: the pairs at war
    plan,     \* each client's universe and orders
    ended,    \* the empires whose orders have been sent
    clicks, turn

vars == <<universe, war, plan, ended, clicks, turn>>

-----------------------------------------------------------------------------
(* SidePanel.cpp: CancelColonizeInvadeBombardScrapShipOrders, guarded by what the ship *)
(* shows.                                                                              *)
Shows(u, s, type) ==
    CASE type = "Colonize" -> u.colonize[s] # NoPlanet
      [] type = "Invade" -> u.invade[s] # NoPlanet
      [] type = "Scrap" -> s \in u.scrapped
      [] type = "Give" -> FALSE

PlacesOf(p, Of(_)) == {i \in DOMAIN p.orders : Of(p.orders[i])}

(* A mutant: the ship keeps its earlier orders. *)
NothingCancelled(p, s) == p

CancelShipOrders(p, s) ==
    RecindOrders(p, PlacesOf(p, LAMBDA o : o.type # "Give" /\ o.ship = s
                                             /\ Shows(p.universe, s, o.type)))

(* What a click does to the plan of the player who clicks.                              *)
Click(e, newPlan) ==
    /\ turn <= MaxTurn
    /\ e \notin ended
    /\ clicks < MaxClicks
    /\ clicks' = clicks + 1
    /\ plan' = [plan EXCEPT ![e] = newPlan]
    /\ UNCHANGED <<universe, war, ended, turn>>

(* ClickColonize takes back the last order to colonise the planet, or orders a ship     *)
(* that the colonise button is for.                                                     *)
ClickColonize(e, p) ==
    LET pending == PlacesOf(plan[e], LAMBDA o : o.type = "Colonize" /\ o.planet = p)
    IN /\ p \notin plan[e].universe.populated
       /\ \/ /\ pending # {}
             /\ Click(e, RecindOrders(plan[e], {Max(pending)}))
          \/ /\ pending = {}
             /\ \E s \in Ships :
                   /\ MayColonize(plan[e].universe, e, s, p)
                   /\ Click(e, IssueOrder(CancelShipOrders(plan[e], s), war,
                                          ColonizeOrder(e, s, p)))

(* Each of a sequence of ships is ordered to invade instead of what it was ordered.      *)
OrderInvasion(p, e, ships, planet) ==
    LET after[i \in 0..Len(ships)] ==
            IF i = 0 THEN p
            ELSE IssueOrder(CancelShipOrders(after[i - 1], ships[i]), war,
                            InvadeOrder(e, ships[i], planet))
    IN  after[Len(ships)]

(* ClickInvade takes back every order to invade the planet, or orders the ships selected. *)
(* The button is there also for a populated planet of an empire that is not an enemy.      *)
ClickInvade(e, p) ==
    LET u == plan[e].universe
        pending == PlacesOf(plan[e], LAMBDA o : o.type = "Invade" /\ o.planet = p)
        selectable == {s \in TroopShips : OwnedShip(u, s, e)}
        enemy == u.owner[p] # e /\ (p \in u.populated \/ {u.owner[p], e} \in war)
    IN /\ p \in u.populated \/ u.owner[p] # AllEmpires
       /\ \/ /\ pending # {}
             /\ Click(e, RecindOrders(plan[e], pending))
          \/ /\ pending = {}
             /\ enemy /\ p \notin u.shielded /\ p \notin u.aboutInvaded
             /\ \E selected \in (SUBSET selectable) \ {{}} :
                   Click(e, OrderInvasion(plan[e], e, SetToSeq(selected), p))

(* The ship's menu has one of the two; PendingScrapOrders finds the last order.            *)
ScrapShip(e, s) ==
    /\ OwnedShip(plan[e].universe, s, e)
    /\ s \notin plan[e].universe.scrapped
    /\ Click(e, IssueOrder(plan[e], war, ScrapOrder(e, s)))

ScrapOrdersOf(e, ships) ==
    PlacesOf(plan[e], LAMBDA o : o.type = "Scrap" /\ o.ship \in ships)

UnscrapShip(e, s) ==
    /\ OwnedShip(plan[e].universe, s, e)
    /\ s \in plan[e].universe.scrapped
    /\ Click(e, RecindOrders(plan[e], {Max(ScrapOrdersOf(e, {s}))}))

OrderScrapping(p, e, ships) ==
    LET after[i \in 0..Len(ships)] ==
            IF i = 0 THEN p ELSE IssueOrder(after[i - 1], war, ScrapOrder(e, ships[i]))
    IN  after[Len(ships)]

(* The fleet's menu orders all ships scrapped, those that are already too.                 *)
ScrapFleet(e, f) ==
    LET u == plan[e].universe
    IN /\ Owned(u, f, e)
       /\ f \cap u.ships \cap u.scrapped # f \cap u.ships
       /\ Click(e, OrderScrapping(plan[e], e, SetToSeq(f \cap u.ships)))

UnscrapFleet(e, f) ==
    /\ Owned(plan[e].universe, f, e)
    /\ f \cap plan[e].universe.scrapped # {}
    /\ Click(e, RecindOrders(plan[e], ScrapOrdersOf(e, f \cap plan[e].universe.ships)))

(* The menus of fleets and planets give to empires at peace that have something here.      *)
Give(e, x, r) ==
    /\ Owned(plan[e].universe, x, e)
    /\ r # e /\ {r, e} \notin war
    /\ PresentIn(plan[e].universe, r)
    /\ Click(e, IssueOrder(plan[e], war, GiveObjectToEmpireOrder(e, x, r)))

CancelGive(e, x) ==
    /\ Owned(plan[e].universe, x, e)
    /\ plan[e].universe.given[x] # AllEmpires
    /\ Click(e, RecindOrders(plan[e], PlacesOf(plan[e], LAMBDA o : o.type = "Give"
                                                                     /\ o.object = x)))

(* ClientApp::StartTurn.                                                                    *)
EndTurn(e) ==
    /\ turn <= MaxTurn
    /\ e \notin ended
    /\ ended' = ended \cup {e}
    /\ UNCHANGED <<universe, war, plan, clicks, turn>>

ProcessTurn ==
    /\ ended = Empires
    /\ \E next \in {PreCombatProcessTurns(universe, war, [e \in Empires |-> plan[e].orders])} :
          /\ universe' = next
          /\ plan' = [e \in Empires |-> Plan(next, <<>>)]
    /\ ended' = {}
    /\ turn' = turn + 1
    /\ UNCHANGED <<war, clicks>>

-----------------------------------------------------------------------------
(* A game in which nothing has been ordered.                                                 *)
Init ==
    /\ universe \in Situations
    /\ war \in SUBSET kSubset(2, Empires)
    /\ plan = [e \in Empires |-> Plan(universe, <<>>)]
    /\ ended = {}
    /\ clicks = 0
    /\ turn = 1

GiveOrders(e) ==
    \/ \E p \in Planets : ClickColonize(e, p) \/ ClickInvade(e, p)
    \/ \E s \in Ships : ScrapShip(e, s) \/ UnscrapShip(e, s)
    \/ \E f \in Fleets : ScrapFleet(e, f) \/ UnscrapFleet(e, f)
    \/ \E x \in Fleets \cup Planets : CancelGive(e, x) \/ \E r \in Empires : Give(e, x, r)

Next == (\E e \in Empires : GiveOrders(e) \/ EndTurn(e)) \/ ProcessTurn

Spec == Init /\ [][Next]_vars

-----------------------------------------------------------------------------
(* Properties. *)

Plans == [universe : Universes, orders : Seq(OrderKinds)]

(* What the server and every client hold is a universe, orders are orders, and a      *)
(* planet's owner and troops stay what they may be through every phase of a turn.      *)
OrdersTypeOK ==
    /\ universe \in Universes
    /\ war \subseteq SUBSET Empires
    /\ \A e \in Empires : plan[e] \in Plans
    /\ ended \subseteq Empires
    /\ clicks \in 0..MaxClicks
    /\ turn \in 1..MaxTurn + 1

OneColonizer(u) ==
    /\ u.aboutColonized = {u.colonize[s] : s \in Ships} \ {NoPlanet}
    /\ \A s, t \in Ships : u.colonize[s] = u.colonize[t] /\ s # t => u.colonize[s] = NoPlanet

(* "There should be only one ship colonzing each planet for this client" (SidePanel):  *)
(* whatever is ordered and taken back, a planet shown as about to be colonised is so     *)
(* by at most one ship, and the mark is there as long as the ship has its order.         *)
OneColonizerEach == OneColonizer(universe) /\ \A e \in Empires : OneColonizer(plan[e].universe)

(* What a player sees of its orders to colonise, invade and give is what its orders do   *)
(* when they are executed again, from the first, on the universe it was sent: nothing     *)
(* that was taken back is left, nothing that is shown is gone. It does not hold of         *)
(* scrapping, which may be ordered twice and is then taken back once.                      *)
ShownIsOrdered ==
    \A e \in Empires :
        LET shown == plan[e].universe
            done == ExecuteAll(universe, war, plan[e].orders)
        IN /\ shown.colonize = done.colonize
           /\ shown.aboutColonized = done.aboutColonized
           /\ shown.invade = done.invade
           /\ shown.given = done.given

Invading(e, p) == {s \in universe.ships : plan[e].universe.invade[s] = p}
ShownColonizing(p) == {e \in Empires : \E s \in Ships : plan[e].universe.colonize[s] = p}
GivenAway(p) == \E e \in Empires : plan[e].universe.given[p] # AllEmpires

Strength(e, p) ==
    (IF e \in Empires THEN Troop * Cardinality(Invading(e, p)) ELSE 0)
      + (IF universe.owner[p] = e THEN universe.troops[p] ELSE 0)

Bonus(e, p) == IF universe.owner[p] = e /\ universe.troops[p] > 0 THEN 1 ELSE 0

(* A planet is conquered only by an empire that lands at least as many troops as any       *)
(* other and more than the garrison, and always by one that lands more than all others     *)
(* and than the garrison with its bonus.                                                    *)
ConquerorsLandedMost ==
    [][ProcessTurn =>
        \A p \in Planets : ~GivenAway(p) /\ ShownColonizing(p) = {} =>
            LET before == universe.owner[p]
                after == universe'.owner[p]
            IN /\ after # before =>
                     /\ Strength(after, p) > Strength(before, p)
                     /\ \A e \in Empires : Strength(after, p) >= Strength(e, p)
               /\ \A e \in Empires :
                     (\A f \in Owners \ {e} : Strength(e, p) > Strength(f, p) + Bonus(f, p))
                        => after = e]_vars

ToldToScrap(s) ==
    \E e \in Empires : \E i \in DOMAIN plan[e].orders :
        plan[e].orders[i].type = "Scrap" /\ plan[e].orders[i].ship = s

(* "Can't colonize if multiple empires attempting to do so on same turn", as the comments *)
(* of HandleColonization have it: a planet that several empires order colonised, and nobody  *)
(* invades or gives away, keeps its owner.                                                   *)
ContestedKeepsOwner ==
    [][ProcessTurn =>
        \A p \in Planets :
            /\ Cardinality(ShownColonizing(p)) > 1
            /\ ~GivenAway(p)
            /\ \A e \in Empires : Invading(e, p) = {}
            => universe'.owner[p] = universe.owner[p]]_vars

(* What happens instead, because the mark that the first empire's order leaves on the planet *)
(* makes ColonizeOrder refuse the others' on the server: of the empires that want to         *)
(* colonise a planet the one of the smallest id does, unless an armed enemy is there; the    *)
(* ships of the others are still there afterwards, free.                                     *)
FirstEmpireColonizes ==
    [][ProcessTurn =>
        \A p \in Planets :
            LET wanting == ShownColonizing(p)
                first == Min(wanting)
            IN wanting # {} /\ ~GivenAway(p) /\ (\A e \in Empires : Invading(e, p) = {}) =>
                   /\ universe'.owner[p] =
                        (IF Blocked(universe, war, first) THEN universe.owner[p] ELSE first)
                   /\ \A e \in wanting \ {first}, s \in Ships :
                        plan[e].universe.colonize[s] = p /\ ~ToldToScrap(s)
                        => s \in universe'.ships /\ universe'.colonize[s] = NoPlanet]_vars
=============================================================================
