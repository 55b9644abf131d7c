-------------------------------- MODULE Orders --------------------------------
(***************************************************************************)
(* The orders a player gives to ships and planets (util/Order.cpp) and the   *)
(* set of orders of a turn (util/OrderSet.cpp). An order is executed on a    *)
(* universe: on the client's, when it is issued, and again on the server's,  *)
(* when the turn is processed. A universe is here one system that everybody  *)
(* sees, in which all ships and planets are; every planet suits the species  *)
(* of every ship. BombardOrder works as InvadeOrder on fields of its own and *)
(* is left out, as are orders that move, merge and split fleets.             *)
(***************************************************************************)
EXTENDS Integers, FiniteSets, SequencesExt

CONSTANTS
    NumEmpires,    \* empires have the ids 1..NumEmpires
    Ships, Planets,
    Fleets,        \* the ships of each fleet
    ColonyShips,   \* ships with colonists
    OutpostShips,  \* ships that can colonise but carry nobody
    TroopShips,    \* ships with troops
    ArmedShips,    \* armed ships, in aggressive fleets
    NoPlanet

ASSUME OrdersAssumption ==
    /\ NumEmpires \in Nat \ {0}
    /\ IsFiniteSet(Ships)
    /\ UNION Fleets = Ships
    /\ \A f, g \in Fleets : f # g => f \cap g = {}
    /\ NoPlanet \notin Planets
    /\ Ships \cap Planets = {} /\ Fleets \cap Planets = {}
    /\ ColonyShips \cap OutpostShips = {}

Empires == 1..NumEmpires
AllEmpires == -1
Owners == Empires \cup {AllEmpires}

Universes ==
    [ships : SUBSET Ships,                          \* those not destroyed
     owner : [Ships \cup Planets -> Owners],
     colonize : [Ships -> Planets \cup {NoPlanet}], \* m_ordered_colonize_planet_id
     invade : [Ships -> Planets \cup {NoPlanet}],   \* m_ordered_invade_planet_id
     scrapped : SUBSET Ships,                       \* m_ordered_scrapped
     given : [Fleets \cup Planets -> Owners],       \* m_ordered_given_to_empire_id
     aboutColonized : SUBSET Planets,               \* m_is_about_to_be_colonized
     aboutInvaded : SUBSET Planets,                 \* m_is_about_to_be_invaded
     populated : SUBSET Planets,
     shielded : SUBSET Planets,
     troops : [Planets -> Nat]]

ColonizeOrder(e, s, p) == [type |-> "Colonize", empire |-> e, ship |-> s, planet |-> p]
InvadeOrder(e, s, p) == [type |-> "Invade", empire |-> e, ship |-> s, planet |-> p]
ScrapOrder(e, s) == [type |-> "Scrap", empire |-> e, ship |-> s]
GiveObjectToEmpireOrder(e, x, r) ==
    [type |-> "Give", empire |-> e, object |-> x, recipient |-> r]

OrderKinds ==
    {ColonizeOrder(e, s, p) : e \in Empires, s \in Ships, p \in Planets}
      \cup {InvadeOrder(e, s, p) : e \in Empires, s \in Ships, p \in Planets}
      \cup {ScrapOrder(e, s) : e \in Empires, s \in Ships}
      \cup {GiveObjectToEmpireOrder(e, x, r) : e \in Empires, x \in Fleets \cup Planets,
                                               r \in Empires}

OwnedShip(u, s, e) == s \in u.ships /\ u.owner[s] = e

(* A fleet is owned with its ships, a planet by itself.                            *)
Owned(u, x, e) == IF x \in Fleets THEN \E s \in x : OwnedShip(u, s, e) ELSE u.owner[x] = e

-----------------------------------------------------------------------------
(* ExecuteImpl of each kind of order.                                               *)

MayColonize(u, e, s, p) ==
    /\ OwnedShip(u, s, e) /\ s \in ColonyShips \cup OutpostShips
    /\ p \notin u.populated
    /\ u.owner[p] = AllEmpires \/ (u.owner[p] = e /\ s \in ColonyShips)
    /\ p \notin u.aboutColonized

ExecuteColonize(u, o) ==
    IF MayColonize(u, o.empire, o.ship, o.planet)
    THEN [u EXCEPT !.aboutColonized = @ \cup {o.planet}, !.colonize[o.ship] = o.planet]
    ELSE u

MayInvade(u, atWar, e, s, p) ==
    /\ OwnedShip(u, s, e) /\ s \in TroopShips
    /\ p \notin u.shielded
    /\ IF u.owner[p] = AllEmpires THEN p \in u.populated
       ELSE u.owner[p] # e /\ {u.owner[p], e} \in atWar

ExecuteInvade(u, atWar, o) ==
    IF MayInvade(u, atWar, o.empire, o.ship, o.planet)
    THEN [u EXCEPT !.aboutInvaded = @ \cup {o.planet}, !.invade[o.ship] = o.planet]
    ELSE u

ExecuteScrap(u, o) ==
    IF OwnedShip(u, o.ship, o.empire) THEN [u EXCEPT !.scrapped = @ \cup {o.ship}] ELSE u

ExecuteGive(u, o) ==
    IF Owned(u, o.object, o.empire) THEN [u EXCEPT !.given[o.object] = o.recipient] ELSE u

(* `atWar' holds the pairs of empires at war.                                       *)
Execute(u, atWar, o) ==
    CASE o.type = "Colonize" -> ExecuteColonize(u, o)
      [] o.type = "Invade" -> ExecuteInvade(u, atWar, o)
      [] o.type = "Scrap" -> ExecuteScrap(u, o)
      [] o.type = "Give" -> ExecuteGive(u, o)

(* A set of orders is executed from the first to the last.                           *)
ExecuteAll(u, atWar, orders) ==
    LET after[i \in 0..Len(orders)] ==
            IF i = 0 THEN u ELSE Execute(after[i - 1], atWar, orders[i])
    IN  after[Len(orders)]

-----------------------------------------------------------------------------
(* UndoImpl of each kind: whether it can be undone, and what that does.              *)

Undoable(u, o) ==
    CASE o.type = "Colonize" ->
             o.planet \in u.aboutColonized /\ o.ship \in u.ships /\ u.colonize[o.ship] = o.planet
      [] o.type = "Invade" -> o.ship \in u.ships /\ u.invade[o.ship] = o.planet
      [] o.type = "Scrap" -> o.ship \in u.ships
      [] o.type = "Give" -> Owned(u, o.object, o.empire)

(* A mutant: the planet keeps its mark. *)
UndoneMarked(u, o) ==
    CASE o.type = "Colonize" -> [u EXCEPT !.colonize[o.ship] = NoPlanet]
      [] o.type = "Invade" -> [u EXCEPT !.invade[o.ship] = NoPlanet]
      [] o.type = "Scrap" -> IF OwnedShip(u, o.ship, o.empire)
                             THEN [u EXCEPT !.scrapped = @ \ {o.ship}] ELSE u
      [] o.type = "Give" -> [u EXCEPT !.given[o.object] = AllEmpires]

Undone(u, o) ==
    CASE o.type = "Colonize" -> [u EXCEPT !.aboutColonized = @ \ {o.planet},
                                          !.colonize[o.ship] = NoPlanet]
      [] o.type = "Invade" -> [u EXCEPT !.aboutInvaded = @ \ {o.planet},
                                        !.invade[o.ship] = NoPlanet]
      [] o.type = "Scrap" -> IF OwnedShip(u, o.ship, o.empire)
                             THEN [u EXCEPT !.scrapped = @ \ {o.ship}] ELSE u
      [] o.type = "Give" -> [u EXCEPT !.given[o.object] = AllEmpires]

(* A player's orders and its copy of the universe.                                   *)
Plan(u, orders) == [universe |-> u, orders |-> orders]

(* OrderSet::IssueOrder keeps the order whether or not it has had an effect.          *)
IssueOrder(plan, atWar, o) ==
    Plan(Execute(plan.universe, atWar, o), Append(plan.orders, o))

(* OrderSet::RecindOrder of the i-th order, if its place is given, or its being left    *)
(* alone; `kept' is what is left of the orders before it. An order that cannot be        *)
(* undone stays.                                                                         *)
RecindOrder(kept, orders, i, places) ==
    IF i \in places /\ Undoable(kept.universe, orders[i])
    THEN Plan(Undone(kept.universe, orders[i]), kept.orders)
    ELSE Plan(kept.universe, Append(kept.orders, orders[i]))

(* The orders at the given places are taken back, first to last.                       *)
RecindOrders(plan, places) ==
    LET kept[i \in 0..Len(plan.orders)] ==
            IF i = 0 THEN Plan(plan.universe, <<>>)
            ELSE RecindOrder(kept[i - 1], plan.orders, i, places)
    IN  kept[Len(plan.orders)]
=============================================================================
