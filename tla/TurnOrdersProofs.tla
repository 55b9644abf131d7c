--------------------------- MODULE TurnOrdersProofs ---------------------------
(***************************************************************************)
(* For any ships, planets and empires, and any number of turns and clicks:   *)
(* universes remain universes (OrdersTypeOK), a planet has one colonizer     *)
(* (OneColonizerEach), and what a player is shown is what its orders do      *)
(* (ShownIsOrdered).                                                         *)
(***************************************************************************)
EXTENDS TurnOrders, IterationProofs

-----------------------------------------------------------------------------
(* Kinds of orders.                                                          *)

LEMMA OrderCases ==
    ASSUME NEW o \in OrderKinds
    PROVE  \/ /\ o.type \in {"Colonize", "Invade"}
              /\ o.empire \in Empires /\ o.ship \in Ships /\ o.planet \in Planets
           \/ /\ o.type = "Scrap"
              /\ o.empire \in Empires /\ o.ship \in Ships
           \/ /\ o.type = "Give"
              /\ o.empire \in Empires /\ o.recipient \in Empires
              /\ o.object \in Fleets \cup Planets
BY DEF OrderKinds, ColonizeOrder, InvadeOrder, ScrapOrder, GiveObjectToEmpireOrder

LEMMA EmpiresAreOwners == Empires \subseteq Owners /\ AllEmpires \in Owners
BY DEF Owners

-----------------------------------------------------------------------------
(* Types.                                                                     *)

(* Whatever order is executed, a universe remains one: no field gets a value the      *)
(* turn's phases do not expect (ExecuteImpl of each order).                           *)
THEOREM ExecuteTyped ==
    ASSUME NEW u \in Universes, NEW atWar, NEW o \in OrderKinds
    PROVE  Execute(u, atWar, o) \in Universes
<1>1. CASE o.type = "Colonize"
  <2>1. o.ship \in Ships /\ o.planet \in Planets
    BY <1>1, OrderCases
  <2>2. ExecuteColonize(u, o) \in Universes
    BY <2>1 DEF ExecuteColonize, Universes
  <2>. QED BY <1>1, <2>2 DEF Execute
<1>2. CASE o.type = "Invade"
  <2>1. o.ship \in Ships /\ o.planet \in Planets
    BY <1>2, OrderCases
  <2>2. ExecuteInvade(u, atWar, o) \in Universes
    BY <2>1 DEF ExecuteInvade, Universes
  <2>. QED BY <1>2, <2>2 DEF Execute
<1>3. CASE o.type = "Scrap"
  <2>1. o.ship \in Ships
    BY <1>3, OrderCases
  <2>2. ExecuteScrap(u, o) \in Universes
    BY <2>1 DEF ExecuteScrap, Universes
  <2>. QED BY <1>3, <2>2 DEF Execute
<1>4. CASE o.type = "Give"
  <2>1. o.object \in Fleets \cup Planets /\ o.recipient \in Owners
    BY <1>4, OrderCases, EmpiresAreOwners
  <2>2. ExecuteGive(u, o) \in Universes
    BY <2>1 DEF ExecuteGive, Universes
  <2>. QED BY <1>4, <2>2 DEF Execute
<1>. QED BY <1>1, <1>2, <1>3, <1>4, OrderCases

(* The same holds of taking an order back (UndoImpl of each).                          *)
THEOREM UndoneTyped ==
    ASSUME NEW u \in Universes, NEW o \in OrderKinds
    PROVE  Undone(u, o) \in Universes
<1>1. CASE o.type \in {"Colonize", "Invade"}
  <2>1. o.ship \in Ships /\ o.planet \in Planets
    BY <1>1, OrderCases
  <2>. QED BY <1>1, <2>1 DEF Undone, Universes
<1>2. CASE o.type = "Scrap"
  <2>1. o.ship \in Ships
    BY <1>2, OrderCases
  <2>. QED BY <1>2, <2>1 DEF Undone, Universes
<1>3. CASE o.type = "Give"
  <2>1. o.object \in Fleets \cup Planets
    BY <1>3, OrderCases
  <2>. QED BY <1>3, <2>1, EmpiresAreOwners DEF Undone, Universes
<1>. QED BY <1>1, <1>2, <1>3, OrderCases

-----------------------------------------------------------------------------
(* One colonizer for each planet.                                                       *)

(* An order given to a ship without a target keeps every planet with one colonizer at   *)
(* most and its mark as long as it has one. The side panel sees to it that the ship has  *)
(* no target (CancelColonizeInvadeBombardScrapShipOrders); ExecuteImpl does not.          *)
THEOREM ExecuteKeepsColonizers ==
    ASSUME NEW u \in Universes, NEW atWar, NEW o \in OrderKinds, OneColonizer(u),
           o.type = "Colonize" => u.colonize[o.ship] = NoPlanet
    PROVE  OneColonizer(Execute(u, atWar, o))
<1>1. CASE o.type = "Colonize" /\ MayColonize(u, o.empire, o.ship, o.planet)
  <2>. DEFINE v == Execute(u, atWar, o)
  <2>1. /\ o.ship \in Ships /\ o.planet \in Planets /\ o.planet # NoPlanet
        /\ o.planet \notin u.aboutColonized
    BY <1>1, OrderCases, OrdersAssumption DEF MayColonize
  <2>2. /\ v.aboutColonized = u.aboutColonized \cup {o.planet}
        /\ v.colonize = [u.colonize EXCEPT ![o.ship] = o.planet]
    BY <1>1 DEF Execute, ExecuteColonize, Universes
  <2>3. /\ u.colonize \in [Ships -> Planets \cup {NoPlanet}]
        /\ \A s \in Ships : v.colonize[s] = IF s = o.ship THEN o.planet ELSE u.colonize[s]
    BY <2>1, <2>2 DEF Universes
  <2>. HIDE DEF v
  <2>4. u.colonize[o.ship] = NoPlanet
    BY <1>1
  <2>5. v.aboutColonized = {v.colonize[s] : s \in Ships} \ {NoPlanet}
    BY <2>1, <2>2, <2>3, <2>4 DEF OneColonizer
  <2>6. \A s \in Ships : u.colonize[s] # o.planet
    BY <2>1 DEF OneColonizer
  <2>7. \A s, t \in Ships : v.colonize[s] = v.colonize[t] /\ s # t => v.colonize[s] = NoPlanet
    BY <2>3, <2>6 DEF OneColonizer
  <2>. QED BY <2>5, <2>7 DEF OneColonizer, v
<1>2. CASE ~(o.type = "Colonize" /\ MayColonize(u, o.empire, o.ship, o.planet))
  <2>1. /\ Execute(u, atWar, o).aboutColonized = u.aboutColonized
        /\ Execute(u, atWar, o).colonize = u.colonize
    BY <1>2, OrderCases
       DEF Execute, ExecuteColonize, ExecuteInvade, ExecuteScrap, ExecuteGive, Universes
  <2>. QED BY <2>1 DEF OneColonizer
<1>. QED BY <1>1, <1>2

(* Taking an order back keeps it too, whatever the order.                                 *)
THEOREM UndoneKeepsColonizers ==
    ASSUME NEW u \in Universes, NEW o \in OrderKinds, OneColonizer(u), Undoable(u, o)
    PROVE  OneColonizer(Undone(u, o))
<1>1. CASE o.type = "Colonize"
  <2>. DEFINE v == Undone(u, o)
  <2>1. /\ o.ship \in Ships /\ o.planet \in Planets /\ o.planet # NoPlanet
        /\ u.colonize[o.ship] = o.planet
    BY <1>1, OrderCases, OrdersAssumption DEF Undoable
  <2>2. /\ v.aboutColonized = u.aboutColonized \ {o.planet}
        /\ v.colonize = [u.colonize EXCEPT ![o.ship] = NoPlanet]
    BY <1>1 DEF Undone, Universes
  <2>3. \A s \in Ships : v.colonize[s] = IF s = o.ship THEN NoPlanet ELSE u.colonize[s]
    BY <2>1, <2>2 DEF Universes
  <2>. HIDE DEF v
  <2>4. \A s \in Ships : u.colonize[s] = o.planet => s = o.ship
    BY <2>1 DEF OneColonizer
  <2>5. v.aboutColonized = {v.colonize[s] : s \in Ships} \ {NoPlanet}
    BY <2>1, <2>2, <2>3, <2>4 DEF OneColonizer
  <2>6. \A s, t \in Ships : v.colonize[s] = v.colonize[t] /\ s # t => v.colonize[s] = NoPlanet
    BY <2>3 DEF OneColonizer
  <2>. QED BY <2>5, <2>6 DEF OneColonizer, v
<1>2. CASE o.type # "Colonize"
  <2>1. Undone(u, o).aboutColonized = u.aboutColonized /\ Undone(u, o).colonize = u.colonize
    BY <1>2, OrderCases DEF Undone, Universes
  <2>. QED BY <2>1 DEF OneColonizer
<1>. QED BY <1>1, <1>2

-----------------------------------------------------------------------------
(* The inductive invariant.                                                  *)

(* Nothing has been ordered: so it is when a turn begins. A ship that is gone may      *)
(* still be marked as invading.                                                        *)
Fresh(u) ==
    /\ u \in Universes
    /\ u.scrapped = {} /\ u.aboutColonized = {}
    /\ \A s \in Ships : u.colonize[s] = NoPlanet
    /\ \A s \in u.ships : u.invade[s] = NoPlanet
    /\ \A x \in Fleets \cup Planets : u.given[x] = AllEmpires

Colonizes(o, s, p) == o.type = "Colonize" /\ o.ship = s /\ o.planet = p

(* Orders to invade that are refused stay in the order set.                            *)
Invades(base, atWar, o, s, p) ==
    /\ o.type = "Invade" /\ o.ship = s /\ o.planet = p
    /\ MayInvade(base, atWar, o.empire, s, p)

Gives(o, x) == o.type = "Give" /\ o.object = x

(* No ship is told to colonize and to invade.                                          *)
OneTask(base, atWar, q) ==
    \A i, j \in 1..Len(q) : \A s \in Ships : \A p \in Planets :
       q[i].type = "Colonize" /\ q[i].ship = s => ~Invades(base, atWar, q[j], s, p)

(* What the orders of empire e are like, given in a turn that began with universe      *)
(* base: no ship has two orders to colonize or two that let it invade or one of each,  *)
(* no planet two to colonize it, and each order to colonize or to give takes effect.   *)
LegalList(base, atWar, e, q) ==
    /\ q \in Seq(OrderKinds)
    /\ \A i \in 1..Len(q) : q[i].empire = e
    /\ \A i \in 1..Len(q) :
          q[i].type = "Colonize" => MayColonize(base, e, q[i].ship, q[i].planet)
    /\ \A i \in 1..Len(q) : q[i].type = "Give" => Owned(base, q[i].object, e)
    /\ \A i, j \in 1..Len(q) :
          /\ q[i].type = "Colonize" /\ q[j].type = "Colonize"
          /\ q[i].ship = q[j].ship \/ q[i].planet = q[j].planet
          => i = j
    /\ \A i, j \in 1..Len(q) : \A s \in Ships : \A p, r \in Planets :
          Invades(base, atWar, q[i], s, p) /\ Invades(base, atWar, q[j], s, r) => i = j
    /\ OneTask(base, atWar, q)

(* The recipient of the last order to give x away, if there is one.                     *)
GivenBy(q, x, r) ==
    \/ r = AllEmpires /\ \A i \in 1..Len(q) : ~Gives(q[i], x)
    \/ \E i \in 1..Len(q) :
          /\ Gives(q[i], x) /\ q[i].recipient = r
          /\ \A j \in 1..Len(q) : j > i => ~Gives(q[j], x)

(* Only orders' marks differ.                                                           *)
SameBut(base, u) ==
    /\ u \in Universes
    /\ u.ships = base.ships /\ u.owner = base.owner
    /\ u.populated = base.populated /\ u.shielded = base.shielded

(* The marks that orders to colonize, invade, scrap and give leave in universe u.        *)
ShowsColonizing(u, q) ==
    /\ \A s \in Ships, p \in Planets :
          u.colonize[s] = p <=> \E i \in 1..Len(q) : Colonizes(q[i], s, p)
    /\ \A p \in Planets :
          p \in u.aboutColonized <=> \E i \in 1..Len(q) : \E s \in Ships : Colonizes(q[i], s, p)

ShowsInvading(base, atWar, u, q) ==
    /\ \A s \in base.ships, p \in Planets :
          u.invade[s] = p <=> \E i \in 1..Len(q) : Invades(base, atWar, q[i], s, p)
    /\ \A s \in Ships \ base.ships : u.invade[s] = base.invade[s]

ShowsScrapping(base, e, u, q) ==
    \A s \in u.scrapped :
       /\ OwnedShip(base, s, e)
       /\ \E i \in 1..Len(q) : q[i].type = "Scrap" /\ q[i].ship = s

ShowsGiving(u, q) == \A x \in Fleets \cup Planets : GivenBy(q, x, u.given[x])

(* Universe u shows the orders q.                                                        *)
Reflects(base, atWar, e, u, q) ==
    /\ SameBut(base, u)
    /\ ShowsColonizing(u, q)
    /\ ShowsInvading(base, atWar, u, q)
    /\ ShowsScrapping(base, e, u, q)
    /\ ShowsGiving(u, q)

PlanOK(base, atWar, e, p) ==
    LegalList(base, atWar, e, p.orders) /\ Reflects(base, atWar, e, p.universe, p.orders)

TurnInv ==
    /\ OrdersTypeOK
    /\ Fresh(universe)
    /\ ended # {} => turn <= MaxTurn
    /\ \A e \in Empires : PlanOK(universe, war, e, plan[e])

-----------------------------------------------------------------------------
(* Loops over orders, ships and empires: each passes through values of one type, one   *)
(* per element.                                                                        *)

(* f[i] is universe u after the first i orders of q have been executed.                *)
ExecutesAll(f, u, atWar, q) ==
    /\ f \in [0..Len(q) -> Universes]
    /\ f[0] = u
    /\ \A i \in 1..Len(q) : f[i] = Execute(f[i - 1], atWar, q[i])
    /\ ExecuteAll(u, atWar, q) = f[Len(q)]

(* Such an f exists, and what it ends with is what ExecuteAll returns. So it is with    *)
(* each loop below.                                                                     *)
LEMMA ExecuteAllIterates ==
    ASSUME NEW u \in Universes, NEW atWar, NEW q \in Seq(OrderKinds)
    PROVE  \E f : ExecutesAll(f, u, atWar, q)
<1>. DEFINE n == Len(q)
            step == [x \in (1..n) \X Universes |->
                       Execute(x[2], atWar, q[x[1]])]
            Body(f) == [i \in 0..n |->
                          IF i = 0 THEN u
                          ELSE Execute(f[i - 1], atWar, q[i])]
<1>1. n \in Nat /\ \A i \in 1..n : q[i] \in OrderKinds
  OBVIOUS
<1>2. u \in Universes /\ step \in [(1..n) \X Universes -> Universes]
  BY <1>1, ExecuteTyped
<1>3. PICK g : Iterates(g, n, Universes, u, step)
  <2>. HIDE DEF step, n
  <2>. QED BY <1>1, <1>2, IterationExists
<1>4. /\ g = [i \in 0..n |-> g[i]] /\ g[0] = u
      /\ \A i \in 1..n : g[i] = Execute(g[i - 1], atWar, q[i])
  <2>1. /\ g = [i \in 0..n |-> g[i]] /\ g[0] = u
        /\ \A i \in 1..n : g[i - 1] \in Universes /\ g[i] = step[<<i, g[i - 1]>>]
    <3>. HIDE DEF step, n
    <3>. QED BY <1>1, <1>3 DEF Iterates
  <2>. QED BY <2>1
<1>5. \E f : f = Body(f)
  <2>. HIDE DEF step, n
  <2>1. \A i \in 0..n : i = 0 \/ i \in 1..n
    BY <1>1
  <2>2. \A i \in 0..n : g[i] = IF i = 0 THEN u ELSE Execute(g[i - 1], atWar, q[i])
    BY <2>1, <1>4
  <2>3. g = Body(g)
    BY <1>4, <2>2
  <2>. HIDE DEF Body
  <2>. QED BY <2>3
<1>. DEFINE h == CHOOSE f : f = Body(f)
<1>6. h = Body(h)
  <2>. HIDE DEF Body
  <2>. QED BY <1>5
<1>7. ExecuteAll(u, atWar, q) = h[n]
  BY DEF ExecuteAll
<1>. HIDE DEF h
<1>8. /\ h = [i \in 0..n |-> h[i]] /\ h[0] = u
      /\ \A i \in 1..n : h[i] = Execute(h[i - 1], atWar, q[i])
  <2>. HIDE DEF step, n
  <2>1. h = [i \in 0..n |-> h[i]]
    BY <1>6
  <2>2. \A i \in 0..n : h[i] = IF i = 0 THEN u ELSE Execute(h[i - 1], atWar, q[i])
    BY <1>6
  <2>3. 0 \in 0..n /\ \A i \in 1..n : i \in 0..n /\ i # 0
    BY <1>1
  <2>. QED BY <2>1, <2>2, <2>3
<1>9. \A i \in 1..n : h[i - 1] \in Universes => h[i] \in Universes
  <2>. SUFFICES ASSUME NEW i \in 1..n, h[i - 1] \in Universes PROVE h[i] \in Universes
    OBVIOUS
  <2>1. h[i] = Execute(h[i - 1], atWar, q[i])
    BY <1>8
  <2>. HIDE DEF step, Body
  <2>. QED BY <1>1, <2>1, ExecuteTyped
<1>10. h \in [0..n -> Universes]
  <2>1. h[0] \in Universes /\ h = [i \in 0..n |-> h[i]]
    BY <1>2, <1>8
  <2>. HIDE DEF step, n, Body
  <2>. QED BY <1>1, <1>9, <2>1, IterationTyped
<1>11. ExecutesAll(h, u, atWar, q)
  BY <1>7, <1>8, <1>10 DEF ExecutesAll
<1>. QED BY <1>11

(* Plans: a universe with orders.                                                        *)
LEMMA PlanTyped ==
    ASSUME NEW u \in Universes, NEW q \in Seq(OrderKinds)
    PROVE  Plan(u, q) \in Plans /\ Plan(u, q).universe = u /\ Plan(u, q).orders = q
BY DEF Plan, Plans

LEMMA PlanFields ==
    ASSUME NEW p \in Plans
    PROVE  p.universe \in Universes /\ p.orders \in Seq(OrderKinds)
BY DEF Plans

LEMMA RecindOrderTyped ==
    ASSUME NEW kept \in Plans, NEW q, NEW i, q[i] \in OrderKinds, NEW places
    PROVE  RecindOrder(kept, q, i, places) \in Plans
<1>1. kept.universe \in Universes /\ kept.orders \in Seq(OrderKinds)
  BY PlanFields
<1>2. Append(kept.orders, q[i]) \in Seq(OrderKinds)
  BY <1>1
<1>. QED BY <1>1, <1>2, UndoneTyped, PlanTyped DEF RecindOrder

(* f[i] is what RecindOrders has left of plan p's first i orders.                        *)
RecindsOrders(f, p, places) ==
    /\ f \in [0..Len(p.orders) -> Plans]
    /\ f[0] = Plan(p.universe, <<>>)
    /\ \A i \in 1..Len(p.orders) : f[i] = RecindOrder(f[i - 1], p.orders, i, places)
    /\ RecindOrders(p, places) = f[Len(p.orders)]

LEMMA RecindOrdersIterates ==
    ASSUME NEW p \in Plans, NEW places
    PROVE  \E f : RecindsOrders(f, p, places)
<1>. DEFINE n == Len(p.orders)
            step == [x \in (1..n) \X Plans |->
                       RecindOrder(x[2], p.orders, x[1], places)]
            Body(f) == [i \in 0..n |->
                          IF i = 0 THEN Plan(p.universe, <<>>)
                          ELSE RecindOrder(f[i - 1], p.orders, i, places)]
<1>1. /\ n \in Nat /\ \A i \in 1..n : p.orders[i] \in OrderKinds
      /\ p.universe \in Universes /\ <<>> \in Seq(OrderKinds)
  BY PlanFields
<1>2. Plan(p.universe, <<>>) \in Plans /\ step \in [(1..n) \X Plans -> Plans]
  BY <1>1, RecindOrderTyped, PlanTyped
<1>3. PICK g : Iterates(g, n, Plans, Plan(p.universe, <<>>), step)
  <2>. HIDE DEF step, n
  <2>. QED BY <1>1, <1>2, IterationExists
<1>4. /\ g = [i \in 0..n |-> g[i]] /\ g[0] = Plan(p.universe, <<>>)
      /\ \A i \in 1..n : g[i] = RecindOrder(g[i - 1], p.orders, i, places)
  <2>1. /\ g = [i \in 0..n |-> g[i]] /\ g[0] = Plan(p.universe, <<>>)
        /\ \A i \in 1..n : g[i - 1] \in Plans /\ g[i] = step[<<i, g[i - 1]>>]
    <3>. HIDE DEF step, n
    <3>. QED BY <1>1, <1>3 DEF Iterates
  <2>. QED BY <2>1
<1>5. \E f : f = Body(f)
  <2>. HIDE DEF step, n
  <2>1. \A i \in 0..n : i = 0 \/ i \in 1..n
    BY <1>1
  <2>2. \A i \in 0..n : g[i] = IF i = 0 THEN Plan(p.universe, <<>>) ELSE RecindOrder(g[i - 1], p.orders, i, places)
    BY <2>1, <1>4
  <2>3. g = Body(g)
    BY <1>4, <2>2
  <2>. HIDE DEF Body
  <2>. QED BY <2>3
<1>. DEFINE h == CHOOSE f : f = Body(f)
<1>6. h = Body(h)
  <2>. HIDE DEF Body
  <2>. QED BY <1>5
<1>7. RecindOrders(p, places) = h[n]
  BY DEF RecindOrders
<1>. HIDE DEF h
<1>8. /\ h = [i \in 0..n |-> h[i]] /\ h[0] = Plan(p.universe, <<>>)
      /\ \A i \in 1..n : h[i] = RecindOrder(h[i - 1], p.orders, i, places)
  <2>. HIDE DEF step, n
  <2>1. h = [i \in 0..n |-> h[i]]
    BY <1>6
  <2>2. \A i \in 0..n : h[i] = IF i = 0 THEN Plan(p.universe, <<>>) ELSE RecindOrder(h[i - 1], p.orders, i, places)
    BY <1>6
  <2>3. 0 \in 0..n /\ \A i \in 1..n : i \in 0..n /\ i # 0
    BY <1>1
  <2>. QED BY <2>1, <2>2, <2>3
<1>9. \A i \in 1..n : h[i - 1] \in Plans => h[i] \in Plans
  <2>. SUFFICES ASSUME NEW i \in 1..n, h[i - 1] \in Plans PROVE h[i] \in Plans
    OBVIOUS
  <2>1. h[i] = RecindOrder(h[i - 1], p.orders, i, places)
    BY <1>8
  <2>. HIDE DEF step, Body
  <2>. QED BY <1>1, <2>1, RecindOrderTyped, PlanTyped
<1>10. h \in [0..n -> Plans]
  <2>1. h[0] \in Plans /\ h = [i \in 0..n |-> h[i]]
    BY <1>2, <1>8
  <2>. HIDE DEF step, n, Body
  <2>. QED BY <1>1, <1>9, <2>1, IterationTyped
<1>11. RecindsOrders(h, p, places)
  BY <1>7, <1>8, <1>10 DEF RecindsOrders
<1>. QED BY <1>11

LEMMA RecindOrdersTyped ==
    ASSUME NEW p \in Plans, NEW places
    PROVE  RecindOrders(p, places) \in Plans
<1>1. Len(p.orders) \in Nat
  BY PlanFields
<1>2. PICK f : RecindsOrders(f, p, places)
  BY RecindOrdersIterates
<1>. QED BY <1>1, <1>2 DEF RecindsOrders

LEMMA CancelTyped ==
    ASSUME NEW p \in Plans, NEW s \in Ships
    PROVE  CancelShipOrders(p, s) \in Plans
BY RecindOrdersTyped DEF CancelShipOrders

LEMMA IssueTyped ==
    ASSUME NEW p \in Plans, NEW atWar, NEW o \in OrderKinds
    PROVE  IssueOrder(p, atWar, o) \in Plans
<1>1. p.universe \in Universes /\ Append(p.orders, o) \in Seq(OrderKinds)
  BY PlanFields
<1>. QED BY <1>1, ExecuteTyped, PlanTyped DEF IssueOrder

LEMMA OrdersTyped ==
    /\ \A e \in Empires, s \in Ships, p \in Planets :
          ColonizeOrder(e, s, p) \in OrderKinds /\ InvadeOrder(e, s, p) \in OrderKinds
    /\ \A e \in Empires, s \in Ships : ScrapOrder(e, s) \in OrderKinds
    /\ \A e, r \in Empires, x \in Fleets \cup Planets :
          GiveObjectToEmpireOrder(e, x, r) \in OrderKinds
BY DEF OrderKinds

(* f[i] is plan p after the first i ships have been ordered to invade.                   *)
OrdersInvasion(f, p, e, ships, planet) ==
    /\ f \in [0..Len(ships) -> Plans]
    /\ f[0] = p
    /\ \A i \in 1..Len(ships) : f[i] = IssueOrder(CancelShipOrders(f[i - 1], ships[i]), war, InvadeOrder(e, ships[i], planet))
    /\ OrderInvasion(p, e, ships, planet) = f[Len(ships)]

LEMMA OrderInvasionIterates ==
    ASSUME NEW p \in Plans, NEW e \in Empires, NEW planet \in Planets, NEW ships \in Seq(Ships)
    PROVE  \E f : OrdersInvasion(f, p, e, ships, planet)
<1>. DEFINE n == Len(ships)
            step == [x \in (1..n) \X Plans |->
                       IssueOrder(CancelShipOrders(x[2], ships[x[1]]), war, InvadeOrder(e, ships[x[1]], planet))]
            Body(f) == [i \in 0..n |->
                          IF i = 0 THEN p
                          ELSE IssueOrder(CancelShipOrders(f[i - 1], ships[i]), war, InvadeOrder(e, ships[i], planet))]
<1>1. n \in Nat /\ \A i \in 1..n : ships[i] \in Ships
  OBVIOUS
<1>2. p \in Plans /\ step \in [(1..n) \X Plans -> Plans]
  BY <1>1, CancelTyped, IssueTyped, OrdersTyped
<1>3. PICK g : Iterates(g, n, Plans, p, step)
  <2>. HIDE DEF step, n
  <2>. QED BY <1>1, <1>2, IterationExists
<1>4. /\ g = [i \in 0..n |-> g[i]] /\ g[0] = p
      /\ \A i \in 1..n : g[i] = IssueOrder(CancelShipOrders(g[i - 1], ships[i]), war, InvadeOrder(e, ships[i], planet))
  <2>1. /\ g = [i \in 0..n |-> g[i]] /\ g[0] = p
        /\ \A i \in 1..n : g[i - 1] \in Plans /\ g[i] = step[<<i, g[i - 1]>>]
    <3>. HIDE DEF step, n
    <3>. QED BY <1>1, <1>3 DEF Iterates
  <2>. QED BY <2>1
<1>5. \E f : f = Body(f)
  <2>. HIDE DEF step, n
  <2>1. \A i \in 0..n : i = 0 \/ i \in 1..n
    BY <1>1
  <2>2. \A i \in 0..n : g[i] = IF i = 0 THEN p ELSE IssueOrder(CancelShipOrders(g[i - 1], ships[i]), war, InvadeOrder(e, ships[i], planet))
    BY <2>1, <1>4
  <2>3. g = Body(g)
    BY <1>4, <2>2
  <2>. HIDE DEF Body
  <2>. QED BY <2>3
<1>. DEFINE h == CHOOSE f : f = Body(f)
<1>6. h = Body(h)
  <2>. HIDE DEF Body
  <2>. QED BY <1>5
<1>7. OrderInvasion(p, e, ships, planet) = h[n]
  BY DEF OrderInvasion
<1>. HIDE DEF h
<1>8. /\ h = [i \in 0..n |-> h[i]] /\ h[0] = p
      /\ \A i \in 1..n : h[i] = IssueOrder(CancelShipOrders(h[i - 1], ships[i]), war, InvadeOrder(e, ships[i], planet))
  <2>. HIDE DEF step, n
  <2>1. h = [i \in 0..n |-> h[i]]
    BY <1>6
  <2>2. \A i \in 0..n : h[i] = IF i = 0 THEN p ELSE IssueOrder(CancelShipOrders(h[i - 1], ships[i]), war, InvadeOrder(e, ships[i], planet))
    BY <1>6
  <2>3. 0 \in 0..n /\ \A i \in 1..n : i \in 0..n /\ i # 0
    BY <1>1
  <2>. QED BY <2>1, <2>2, <2>3
<1>9. \A i \in 1..n : h[i - 1] \in Plans => h[i] \in Plans
  <2>. SUFFICES ASSUME NEW i \in 1..n, h[i - 1] \in Plans PROVE h[i] \in Plans
    OBVIOUS
  <2>1. h[i] = IssueOrder(CancelShipOrders(h[i - 1], ships[i]), war, InvadeOrder(e, ships[i], planet))
    BY <1>8
  <2>. HIDE DEF step, Body
  <2>. QED BY <1>1, <2>1, CancelTyped, IssueTyped, OrdersTyped
<1>10. h \in [0..n -> Plans]
  <2>1. h[0] \in Plans /\ h = [i \in 0..n |-> h[i]]
    BY <1>2, <1>8
  <2>. HIDE DEF step, n, Body
  <2>. QED BY <1>1, <1>9, <2>1, IterationTyped
<1>11. OrdersInvasion(h, p, e, ships, planet)
  BY <1>7, <1>8, <1>10 DEF OrdersInvasion
<1>. QED BY <1>11

(* f[i] is plan p after the first i ships have been ordered scrapped.                    *)
OrdersScrapping(f, p, e, ships) ==
    /\ f \in [0..Len(ships) -> Plans]
    /\ f[0] = p
    /\ \A i \in 1..Len(ships) : f[i] = IssueOrder(f[i - 1], war, ScrapOrder(e, ships[i]))
    /\ OrderScrapping(p, e, ships) = f[Len(ships)]

LEMMA OrderScrappingIterates ==
    ASSUME NEW p \in Plans, NEW e \in Empires, NEW ships \in Seq(Ships)
    PROVE  \E f : OrdersScrapping(f, p, e, ships)
<1>. DEFINE n == Len(ships)
            step == [x \in (1..n) \X Plans |->
                       IssueOrder(x[2], war, ScrapOrder(e, ships[x[1]]))]
            Body(f) == [i \in 0..n |->
                          IF i = 0 THEN p
                          ELSE IssueOrder(f[i - 1], war, ScrapOrder(e, ships[i]))]
<1>1. n \in Nat /\ \A i \in 1..n : ships[i] \in Ships
  OBVIOUS
<1>2. p \in Plans /\ step \in [(1..n) \X Plans -> Plans]
  BY <1>1, IssueTyped, OrdersTyped
<1>3. PICK g : Iterates(g, n, Plans, p, step)
  <2>. HIDE DEF step, n
  <2>. QED BY <1>1, <1>2, IterationExists
<1>4. /\ g = [i \in 0..n |-> g[i]] /\ g[0] = p
      /\ \A i \in 1..n : g[i] = IssueOrder(g[i - 1], war, ScrapOrder(e, ships[i]))
  <2>1. /\ g = [i \in 0..n |-> g[i]] /\ g[0] = p
        /\ \A i \in 1..n : g[i - 1] \in Plans /\ g[i] = step[<<i, g[i - 1]>>]
    <3>. HIDE DEF step, n
    <3>. QED BY <1>1, <1>3 DEF Iterates
  <2>. QED BY <2>1
<1>5. \E f : f = Body(f)
  <2>. HIDE DEF step, n
  <2>1. \A i \in 0..n : i = 0 \/ i \in 1..n
    BY <1>1
  <2>2. \A i \in 0..n : g[i] = IF i = 0 THEN p ELSE IssueOrder(g[i - 1], war, ScrapOrder(e, ships[i]))
    BY <2>1, <1>4
  <2>3. g = Body(g)
    BY <1>4, <2>2
  <2>. HIDE DEF Body
  <2>. QED BY <2>3
<1>. DEFINE h == CHOOSE f : f = Body(f)
<1>6. h = Body(h)
  <2>. HIDE DEF Body
  <2>. QED BY <1>5
<1>7. OrderScrapping(p, e, ships) = h[n]
  BY DEF OrderScrapping
<1>. HIDE DEF h
<1>8. /\ h = [i \in 0..n |-> h[i]] /\ h[0] = p
      /\ \A i \in 1..n : h[i] = IssueOrder(h[i - 1], war, ScrapOrder(e, ships[i]))
  <2>. HIDE DEF step, n
  <2>1. h = [i \in 0..n |-> h[i]]
    BY <1>6
  <2>2. \A i \in 0..n : h[i] = IF i = 0 THEN p ELSE IssueOrder(h[i - 1], war, ScrapOrder(e, ships[i]))
    BY <1>6
  <2>3. 0 \in 0..n /\ \A i \in 1..n : i \in 0..n /\ i # 0
    BY <1>1
  <2>. QED BY <2>1, <2>2, <2>3
<1>9. \A i \in 1..n : h[i - 1] \in Plans => h[i] \in Plans
  <2>. SUFFICES ASSUME NEW i \in 1..n, h[i - 1] \in Plans PROVE h[i] \in Plans
    OBVIOUS
  <2>1. h[i] = IssueOrder(h[i - 1], war, ScrapOrder(e, ships[i]))
    BY <1>8
  <2>. HIDE DEF step, Body
  <2>. QED BY <1>1, <2>1, IssueTyped, OrdersTyped
<1>10. h \in [0..n -> Plans]
  <2>1. h[0] \in Plans /\ h = [i \in 0..n |-> h[i]]
    BY <1>2, <1>8
  <2>. HIDE DEF step, n, Body
  <2>. QED BY <1>1, <1>9, <2>1, IterationTyped
<1>11. OrdersScrapping(h, p, e, ships)
  BY <1>7, <1>8, <1>10 DEF OrdersScrapping
<1>. QED BY <1>11

LEMMA EmpiresCounted == NumEmpires \in Nat /\ Empires = 1..NumEmpires
BY OrdersAssumption DEF Empires

LEMMA ExecuteAllTyped ==
    ASSUME NEW u \in Universes, NEW atWar, NEW q \in Seq(OrderKinds)
    PROVE  ExecuteAll(u, atWar, q) \in Universes
<1>1. Len(q) \in Nat
  OBVIOUS
<1>2. PICK f : ExecutesAll(f, u, atWar, q)
  BY ExecuteAllIterates
<1>. QED BY <1>1, <1>2 DEF ExecutesAll

(* f[e] is universe u after the orders of empires 1 to e.                                *)
ExecutesOrders(f, u, atWar, orders) ==
    /\ f \in [0..NumEmpires -> Universes]
    /\ f[0] = u
    /\ \A i \in 1..NumEmpires : f[i] = ExecuteAll(f[i - 1], atWar, orders[i])
    /\ ExecuteOrders(u, atWar, orders) = f[NumEmpires]

LEMMA ExecuteOrdersIterates ==
    ASSUME NEW u \in Universes, NEW atWar, NEW orders \in [Empires -> Seq(OrderKinds)]
    PROVE  \E f : ExecutesOrders(f, u, atWar, orders)
<1>. DEFINE n == NumEmpires
            step == [x \in (1..n) \X Universes |->
                       ExecuteAll(x[2], atWar, orders[x[1]])]
            Body(f) == [i \in 0..n |->
                          IF i = 0 THEN u
                          ELSE ExecuteAll(f[i - 1], atWar, orders[i])]
<1>1. n \in Nat /\ \A i \in 1..n : orders[i] \in Seq(OrderKinds)
  BY EmpiresCounted
<1>2. u \in Universes /\ step \in [(1..n) \X Universes -> Universes]
  BY <1>1, ExecuteAllTyped
<1>3. PICK g : Iterates(g, n, Universes, u, step)
  <2>. HIDE DEF step, n
  <2>. QED BY <1>1, <1>2, IterationExists
<1>4. /\ g = [i \in 0..n |-> g[i]] /\ g[0] = u
      /\ \A i \in 1..n : g[i] = ExecuteAll(g[i - 1], atWar, orders[i])
  <2>1. /\ g = [i \in 0..n |-> g[i]] /\ g[0] = u
        /\ \A i \in 1..n : g[i - 1] \in Universes /\ g[i] = step[<<i, g[i - 1]>>]
    <3>. HIDE DEF step, n
    <3>. QED BY <1>1, <1>3 DEF Iterates
  <2>. QED BY <2>1
<1>5. \E f : f = Body(f)
  <2>. HIDE DEF step, n
  <2>1. \A i \in 0..n : i = 0 \/ i \in 1..n
    BY <1>1
  <2>2. \A i \in 0..n : g[i] = IF i = 0 THEN u ELSE ExecuteAll(g[i - 1], atWar, orders[i])
    BY <2>1, <1>4
  <2>3. g = Body(g)
    BY <1>4, <2>2
  <2>. HIDE DEF Body
  <2>. QED BY <2>3
<1>. DEFINE h == CHOOSE f : f = Body(f)
<1>6. h = Body(h)
  <2>. HIDE DEF Body
  <2>. QED BY <1>5
<1>7. ExecuteOrders(u, atWar, orders) = h[n]
  BY DEF ExecuteOrders
<1>. HIDE DEF h
<1>8. /\ h = [i \in 0..n |-> h[i]] /\ h[0] = u
      /\ \A i \in 1..n : h[i] = ExecuteAll(h[i - 1], atWar, orders[i])
  <2>. HIDE DEF step, n
  <2>1. h = [i \in 0..n |-> h[i]]
    BY <1>6
  <2>2. \A i \in 0..n : h[i] = IF i = 0 THEN u ELSE ExecuteAll(h[i - 1], atWar, orders[i])
    BY <1>6
  <2>3. 0 \in 0..n /\ \A i \in 1..n : i \in 0..n /\ i # 0
    BY <1>1
  <2>. QED BY <2>1, <2>2, <2>3
<1>9. \A i \in 1..n : h[i - 1] \in Universes => h[i] \in Universes
  <2>. SUFFICES ASSUME NEW i \in 1..n, h[i - 1] \in Universes PROVE h[i] \in Universes
    OBVIOUS
  <2>1. h[i] = ExecuteAll(h[i - 1], atWar, orders[i])
    BY <1>8
  <2>. HIDE DEF step, Body
  <2>. QED BY <1>1, <2>1, ExecuteAllTyped
<1>10. h \in [0..n -> Universes]
  <2>1. h[0] \in Universes /\ h = [i \in 0..n |-> h[i]]
    BY <1>2, <1>8
  <2>. HIDE DEF step, n, Body
  <2>. QED BY <1>1, <1>9, <2>1, IterationTyped
<1>11. ExecutesOrders(h, u, atWar, orders)
  BY <1>7, <1>8, <1>10 DEF ExecutesOrders
<1>. QED BY <1>11

-----------------------------------------------------------------------------
(* The phases of PreCombatProcessTurns keep a universe a universe.                      *)

LEMMA ColonizationTyped ==
    ASSUME NEW u \in Universes, NEW atWar
    PROVE  HandleColonization(u, atWar) \in Universes
<1>. DEFINE planets == Colonized(u, atWar)
            settler == [p \in planets |-> CHOOSE s \in Colonizers(u, p) : TRUE]
            settlers == {settler[p] : p \in planets}
<1>1. \A p \in planets : p \in Planets /\ settler[p] \in Ships
  <2>1. \A p \in planets : p \in Planets /\ Colonizers(u, p) # {}
    BY DEF Colonized, EmpiresColonizing
  <2>2. \A p \in planets : Colonizers(u, p) \subseteq Ships
    BY DEF Colonizers, Universes
  <2>. QED BY <2>1, <2>2
<1>. HIDE DEF planets, settler
<1>2. [x \in DOMAIN u.owner |-> IF x \in planets THEN u.owner[settler[x]] ELSE u.owner[x]]
        \in [Ships \cup Planets -> Owners]
  BY <1>1 DEF Universes
<1>3. [s \in Ships |-> IF \E p \in Planets : s \in Colonizers(u, p)
                      THEN NoPlanet ELSE u.colonize[s]] \in [Ships -> Planets \cup {NoPlanet}]
  BY DEF Universes
<1>4. /\ u.ships \ settlers \in SUBSET Ships
      /\ u.populated \cup {p \in planets : settler[p] \in ColonyShips} \in SUBSET Planets
      /\ {p \in u.aboutColonized : Colonizers(u, p) = {}} \in SUBSET Planets
  BY <1>1 DEF Universes
<1>. HIDE DEF settlers
<1>. QED BY <1>2, <1>3, <1>4 DEF HandleColonization, Universes, planets, settler, settlers

LEMMA ProductTyped == \A m, n \in Nat : m * n \in Nat
OBVIOUS

LEMMA LandingCounted ==
    ASSUME NEW u \in Universes, NEW p, NEW e
    PROVE  Cardinality(Landing(u, p, e)) \in Nat
<1>1. Landing(u, p, e) \subseteq Ships
  BY DEF Landing, Invaders, Universes
<1>2. IsFiniteSet(Landing(u, p, e))
  BY <1>1, OrdersAssumption, FS_Subset
<1>. QED BY <1>2, FS_CardinalityType

(* Troops are counted in natural numbers.                                                *)
LEMMA TroopsTyped ==
    ASSUME NEW u \in Universes, NEW p \in Planets, NEW e
    PROVE  TroopsOf(u, p, e) \in Nat
<1>1. Troop * Cardinality(Landing(u, p, e)) \in Nat
  BY LandingCounted, ProductTyped, TroopAssumption
<1>2. u.troops[p] \in Nat
  BY DEF Universes
<1>. QED BY <1>1, <1>2 DEF TroopsOf

LEMMA OwnersCounted == Owners = (1..NumEmpires) \cup {-1} /\ AllEmpires = -1
BY DEF Owners, Empires, AllEmpires

(* A side that nobody beats is found where there are sides.                              *)
LEMMA SomeSideStrongest ==
    ASSUME NEW u \in Universes, NEW p \in Planets, NEW S \in SUBSET Owners, S # {}
    PROVE  \E e \in S : \A f \in S \ {e} :
              \/ TroopsOf(u, p, e) > TroopsOf(u, p, f)
              \/ TroopsOf(u, p, e) = TroopsOf(u, p, f) /\ e > f
<1>. DEFINE h == [e \in Owners |-> TroopsOf(u, p, e)]
<1>1. \A e \in S : h[e] \in Int
  BY TroopsTyped
<1>2. S \in SUBSET ((1..NumEmpires) \cup {-1})
  BY OwnersCounted
<1>3. PICK e \in S : Strongest(e, S, h)
  <2>. HIDE DEF h
  <2>. QED BY <1>1, <1>2, EmpiresCounted, StrongestExists
<1>. QED BY <1>3 DEF Strongest

(* The victor of a ground combat is one of its sides and has more left than nothing.      *)
LEMMA VictorTyped ==
    ASSUME NEW u \in Universes, NEW p \in Planets, Sides(u, p) # {}
    PROVE  /\ Victor(u, p) \in Sides(u, p) /\ Victor(u, p) \in Owners
           /\ \A f \in Sides(u, p) \ {Victor(u, p)} :
                 \/ TroopsOf(u, p, Victor(u, p)) > TroopsOf(u, p, f)
                 \/ TroopsOf(u, p, Victor(u, p)) = TroopsOf(u, p, f) /\ Victor(u, p) > f
<1>1. Sides(u, p) \in SUBSET Owners
  BY DEF Sides
<1>2. \E e \in Sides(u, p) : \A f \in Sides(u, p) \ {e} :
              \/ TroopsOf(u, p, e) > TroopsOf(u, p, f)
              \/ TroopsOf(u, p, e) = TroopsOf(u, p, f) /\ e > f
  BY <1>1, SomeSideStrongest
<1>. QED BY <1>1, <1>2 DEF Victor

(* What the next side has is never more than the victor has (ResolveGroundCombat).        *)
LEMMA RemainingTyped ==
    ASSUME NEW u \in Universes, NEW p \in Planets, Sides(u, p) # {}
    PROVE  Remaining(u, p) \in Nat
<1>. DEFINE e == Victor(u, p)
            rest == Sides(u, p) \ {e}
            others == {TroopsOf(u, p, f) : f \in rest}
<1>1. \A f : TroopsOf(u, p, f) \in Nat
  BY TroopsTyped
<1>2. \A f \in rest : TroopsOf(u, p, f) <= TroopsOf(u, p, e)
  BY <1>1, VictorTyped
<1>3. \E m \in others \cup {0} : \A k \in others \cup {0} : m >= k
  <2>1. CASE rest = {}
    BY <2>1
  <2>2. CASE rest # {}
    <3>1. rest \in SUBSET Owners
      BY DEF Sides
    <3>2. PICK g \in rest : \A f \in rest \ {g} :
              \/ TroopsOf(u, p, g) > TroopsOf(u, p, f)
              \/ TroopsOf(u, p, g) = TroopsOf(u, p, f) /\ g > f
      <4>. HIDE DEF rest
      <4>. QED BY <2>2, <3>1, SomeSideStrongest
    <3>. HIDE DEF rest
    <3>3. \A f \in rest : TroopsOf(u, p, g) >= TroopsOf(u, p, f)
      BY <1>1, <3>2
    <3>. QED BY <1>1, <3>3
  <2>. QED BY <2>1, <2>2
<1>. HIDE DEF e, rest
<1>4. Max(others \cup {0}) \in others \cup {0}
  BY <1>3 DEF Max
<1>5. Max(others \cup {0}) \in Nat /\ Max(others \cup {0}) <= TroopsOf(u, p, e)
  BY <1>1, <1>2, <1>4
<1>6. Remaining(u, p) = TroopsOf(u, p, e) - Max(others \cup {0})
  BY DEF Remaining, e, rest
<1>. QED BY <1>1, <1>5, <1>6

LEMMA InvasionTyped ==
    ASSUME NEW u \in Universes
    PROVE  HandleInvasion(u) \in Universes
<1>. DEFINE fought == Contested(u)
            taken == {p \in fought : Victor(u, p) # u.owner[p]}
<1>1. \A p \in fought : p \in Planets /\ Sides(u, p) # {}
  BY DEF Contested
<1>2. \A p \in fought : Victor(u, p) \in Owners /\ Remaining(u, p) \in Nat
  BY <1>1, VictorTyped, RemainingTyped
<1>. HIDE DEF fought
<1>3. [x \in DOMAIN u.owner |-> IF x \in taken THEN Victor(u, x) ELSE u.owner[x]]
        \in [Ships \cup Planets -> Owners]
  BY <1>2 DEF Universes
<1>4. [p \in Planets |-> IF p \in fought THEN Remaining(u, p) ELSE u.troops[p]] \in [Planets -> Nat]
  BY <1>2 DEF Universes
<1>5. /\ u.ships \ Invaders(u) \in SUBSET Ships
      /\ u.shielded \ taken \in SUBSET Planets
      /\ u.aboutInvaded \ {u.invade[s] : s \in Invaders(u)} \in SUBSET Planets
  BY DEF Universes
<1>. HIDE DEF taken
<1>. QED BY <1>3, <1>4, <1>5 DEF HandleInvasion, Universes, fought, taken

LEMMA ReceiveTyped ==
    ASSUME NEW u \in Universes, NEW gifts, NEW r \in Owners
    PROVE  Receive(u, gifts, r) \in Universes
<1>. DEFINE passed == (gifts \cap Planets) \cup ((UNION (gifts \cap Fleets)) \cap u.ships)
<1>. HIDE DEF passed
<1>1. [x \in DOMAIN u.owner |-> IF x \in passed THEN r ELSE u.owner[x]]
        \in [Ships \cup Planets -> Owners]
  BY DEF Universes
<1>. QED BY <1>1 DEF Receive, Universes, passed

(* f[r] is universe u after empires 1 to r have received their gifts.                     *)
HandlesGifting(f, u, collected) ==
    /\ f \in [0..NumEmpires -> Universes]
    /\ f[0] = collected
    /\ \A i \in 1..NumEmpires : f[i] = Receive(f[i - 1], GiftsTo(u, i), i)
    /\ HandleGifting(u) = f[NumEmpires]

LEMMA GiftingIterates ==
    ASSUME NEW u \in Universes, NEW collected,
           collected = [u EXCEPT !.given = [x \in Fleets \cup Planets |-> AllEmpires]]
    PROVE  \E f : HandlesGifting(f, u, collected)
<1>. DEFINE n == NumEmpires
            step == [x \in (1..n) \X Universes |->
                       Receive(x[2], GiftsTo(u, x[1]), x[1])]
            Body(f) == [i \in 0..n |->
                          IF i = 0 THEN collected
                          ELSE Receive(f[i - 1], GiftsTo(u, i), i)]
<1>1. /\ n \in Nat /\ \A i \in 1..n : i \in Owners
      /\ collected \in Universes
  BY EmpiresCounted, EmpiresAreOwners DEF Universes
<1>2. collected \in Universes /\ step \in [(1..n) \X Universes -> Universes]
  BY <1>1, ReceiveTyped
<1>3. PICK g : Iterates(g, n, Universes, collected, step)
  <2>. HIDE DEF step, n
  <2>. QED BY <1>1, <1>2, IterationExists
<1>4. /\ g = [i \in 0..n |-> g[i]] /\ g[0] = collected
      /\ \A i \in 1..n : g[i] = Receive(g[i - 1], GiftsTo(u, i), i)
  <2>1. /\ g = [i \in 0..n |-> g[i]] /\ g[0] = collected
        /\ \A i \in 1..n : g[i - 1] \in Universes /\ g[i] = step[<<i, g[i - 1]>>]
    <3>. HIDE DEF step, n
    <3>. QED BY <1>1, <1>3 DEF Iterates
  <2>. QED BY <2>1
<1>5. \E f : f = Body(f)
  <2>. HIDE DEF step, n
  <2>1. \A i \in 0..n : i = 0 \/ i \in 1..n
    BY <1>1
  <2>2. \A i \in 0..n : g[i] = IF i = 0 THEN collected ELSE Receive(g[i - 1], GiftsTo(u, i), i)
    BY <2>1, <1>4
  <2>3. g = Body(g)
    BY <1>4, <2>2
  <2>. HIDE DEF Body
  <2>. QED BY <2>3
<1>. DEFINE h == CHOOSE f : f = Body(f)
<1>6. h = Body(h)
  <2>. HIDE DEF Body
  <2>. QED BY <1>5
<1>7. HandleGifting(u) = h[n]
  BY DEF HandleGifting
<1>. HIDE DEF h
<1>8. /\ h = [i \in 0..n |-> h[i]] /\ h[0] = collected
      /\ \A i \in 1..n : h[i] = Receive(h[i - 1], GiftsTo(u, i), i)
  <2>. HIDE DEF step, n
  <2>1. h = [i \in 0..n |-> h[i]]
    BY <1>6
  <2>2. \A i \in 0..n : h[i] = IF i = 0 THEN collected ELSE Receive(h[i - 1], GiftsTo(u, i), i)
    BY <1>6
  <2>3. 0 \in 0..n /\ \A i \in 1..n : i \in 0..n /\ i # 0
    BY <1>1
  <2>. QED BY <2>1, <2>2, <2>3
<1>9. \A i \in 1..n : h[i - 1] \in Universes => h[i] \in Universes
  <2>. SUFFICES ASSUME NEW i \in 1..n, h[i - 1] \in Universes PROVE h[i] \in Universes
    OBVIOUS
  <2>1. h[i] = Receive(h[i - 1], GiftsTo(u, i), i)
    BY <1>8
  <2>. HIDE DEF step, Body
  <2>. QED BY <1>1, <2>1, ReceiveTyped
<1>10. h \in [0..n -> Universes]
  <2>1. h[0] \in Universes /\ h = [i \in 0..n |-> h[i]]
    BY <1>2, <1>8
  <2>. HIDE DEF step, n, Body
  <2>. QED BY <1>1, <1>9, <2>1, IterationTyped
<1>11. HandlesGifting(h, u, collected)
  BY <1>7, <1>8, <1>10 DEF HandlesGifting
<1>. QED BY <1>11

LEMMA ScrappingTyped ==
    ASSUME NEW u \in Universes
    PROVE  HandleScrapping(u) \in Universes
BY DEF HandleScrapping, Universes

-----------------------------------------------------------------------------
(* A turn's orders, executed by the server one empire after the other: only ships of   *)
(* empires in M have been told to colonize, each planet about to be colonized has a     *)
(* ship that was, and only ships with troops invade.                                   *)
Executed(base, v, M) ==
    /\ SameBut(base, v)
    /\ v.given \in [Fleets \cup Planets -> Owners]
    /\ \A s \in Ships : v.colonize[s] # NoPlanet =>
          s \in M /\ s \in base.ships /\ base.owner[s] \in Empires
    /\ \A p \in v.aboutColonized : \E s \in Ships : v.colonize[s] = p
    /\ \A s \in base.ships : v.invade[s] # NoPlanet => s \in TroopShips

LEMMA NoPlanetNone == NoPlanet \notin Planets
BY OrdersAssumption

LEMMA ExecuteSameBut ==
    ASSUME NEW base, NEW u, SameBut(base, u), NEW atWar, NEW o \in OrderKinds
    PROVE  SameBut(base, Execute(u, atWar, o))
<1>0. u \in Universes
  BY DEF SameBut
<1>1. Execute(u, atWar, o) \in Universes
  BY <1>0, ExecuteTyped
<1>2. /\ Execute(u, atWar, o).ships = u.ships
      /\ Execute(u, atWar, o).owner = u.owner
      /\ Execute(u, atWar, o).populated = u.populated
      /\ Execute(u, atWar, o).shielded = u.shielded
  BY <1>0, OrderCases
     DEF Execute, ExecuteColonize, ExecuteInvade, ExecuteScrap, ExecuteGive, Universes
<1>. QED BY <1>1, <1>2 DEF SameBut

(* One order more.                                                                      *)
LEMMA ExecutedOne ==
    ASSUME NEW base, NEW v, NEW M, Executed(base, v, M), NEW atWar, NEW o \in OrderKinds,
           o.type = "Colonize" => o.ship \notin M
    PROVE  Executed(base, Execute(v, atWar, o), 
                    M \cup {s \in Ships : o.type = "Colonize" /\ s = o.ship})
<1>. DEFINE w == Execute(v, atWar, o)
<1>0. v \in Universes
  BY DEF Executed, SameBut
<1>1. SameBut(base, w) /\ w \in Universes
  BY ExecuteSameBut DEF Executed, SameBut
<1>2. w.given \in [Fleets \cup Planets -> Owners]
  BY <1>1 DEF Universes
<1>3. CASE o.type = "Colonize" /\ MayColonize(v, o.empire, o.ship, o.planet)
  <2>1. /\ o.ship \in Ships /\ o.planet \in Planets /\ o.planet # NoPlanet
        /\ o.empire \in Empires
    BY <1>3, OrderCases, NoPlanetNone
  <2>2. /\ w.aboutColonized = v.aboutColonized \cup {o.planet}
        /\ w.colonize = [v.colonize EXCEPT ![o.ship] = o.planet]
        /\ w.invade = v.invade
    BY <1>3, <1>0 DEF Execute, ExecuteColonize, Universes
  <2>3. v.colonize[o.ship] = NoPlanet /\ o.ship \in base.ships /\ base.owner[o.ship] = o.empire
    BY <1>3, <2>1 DEF Executed, MayColonize, OwnedShip, SameBut
  <2>4. \A s \in Ships : w.colonize[s] = IF s = o.ship THEN o.planet ELSE v.colonize[s]
    BY <1>0, <2>1, <2>2 DEF Universes
  <2>. HIDE DEF w
  <2>5. \A s \in Ships : w.colonize[s] # NoPlanet =>
          /\ s \in M \cup {t \in Ships : o.type = "Colonize" /\ t = o.ship}
          /\ s \in base.ships /\ base.owner[s] \in Empires
    BY <1>3, <2>1, <2>3, <2>4 DEF Executed
  <2>6. \A p \in w.aboutColonized : \E s \in Ships : w.colonize[s] = p
    <3>. SUFFICES ASSUME NEW p \in w.aboutColonized PROVE \E s \in Ships : w.colonize[s] = p
      OBVIOUS
    <3>1. CASE p = o.planet
      BY <3>1, <2>1, <2>4
    <3>2. CASE p # o.planet
      <4>1. PICK s \in Ships : v.colonize[s] = p
        BY <3>2, <2>2 DEF Executed
      <4>2. p \in Planets
        BY <1>1 DEF Universes
      <4>3. s # o.ship
        BY <4>1, <4>2, <2>3, NoPlanetNone
      <4>. QED BY <4>1, <4>3, <2>4
    <3>. QED BY <3>1, <3>2
  <2>7. \A s \in base.ships : w.invade[s] # NoPlanet => s \in TroopShips
    BY <2>2 DEF Executed
  <2>. QED BY <1>1, <1>2, <2>5, <2>6, <2>7 DEF Executed, w
<1>4. CASE ~(o.type = "Colonize" /\ MayColonize(v, o.empire, o.ship, o.planet))
  <2>1. w.aboutColonized = v.aboutColonized /\ w.colonize = v.colonize
    BY <1>4, <1>0, OrderCases
       DEF Execute, ExecuteColonize, ExecuteInvade, ExecuteScrap, ExecuteGive, Universes
  <2>2. \A s \in Ships : w.invade[s] = v.invade[s] \/ s \in TroopShips
    <3>1. CASE o.type = "Invade"
      <4>1. CASE MayInvade(v, atWar, o.empire, o.ship, o.planet)
        <5>1. w.invade = [v.invade EXCEPT ![o.ship] = o.planet] /\ o.ship \in TroopShips
          BY <3>1, <4>1, <1>0 DEF Execute, ExecuteInvade, Universes, MayInvade
        <5>. HIDE DEF w
        <5>. QED BY <5>1, <1>0 DEF Universes
      <4>2. CASE ~MayInvade(v, atWar, o.empire, o.ship, o.planet)
        BY <3>1, <4>2 DEF Execute, ExecuteInvade
      <4>. QED BY <4>1, <4>2
    <3>2. CASE o.type # "Invade"
      <4>1. w.invade = v.invade
        BY <3>2, <1>0, OrderCases
           DEF Execute, ExecuteColonize, ExecuteScrap, ExecuteGive, Universes
      <4>. QED BY <4>1
    <3>. QED BY <3>1, <3>2
  <2>3. base.ships \subseteq Ships
    BY <1>0 DEF Executed, SameBut, Universes
  <2>. HIDE DEF w
  <2>4. \A s \in base.ships : w.invade[s] # NoPlanet => s \in TroopShips
    BY <2>2, <2>3 DEF Executed
  <2>5. \A s \in Ships : w.colonize[s] # NoPlanet =>
          /\ s \in M \cup {t \in Ships : o.type = "Colonize" /\ t = o.ship}
          /\ s \in base.ships /\ base.owner[s] \in Empires
    BY <2>1 DEF Executed
  <2>6. \A p \in w.aboutColonized : \E s \in Ships : w.colonize[s] = p
    BY <2>1 DEF Executed
  <2>. QED BY <1>1, <1>2, <2>4, <2>5, <2>6 DEF Executed, w
<1>. QED BY <1>3, <1>4

(* Gifts change owners and are then forgotten.                                           *)
LEMMA GiftingKeeps ==
    ASSUME NEW u \in Universes
    PROVE  /\ HandleGifting(u) \in Universes
           /\ HandleGifting(u).ships = u.ships
           /\ HandleGifting(u).invade = u.invade /\ HandleGifting(u).colonize = u.colonize
           /\ HandleGifting(u).aboutColonized = u.aboutColonized
           /\ \A x \in Fleets \cup Planets : HandleGifting(u).given[x] = AllEmpires
<1>. DEFINE n == NumEmpires
            collected == [u EXCEPT !.given = [x \in Fleets \cup Planets |-> AllEmpires]]
            Same(v) == /\ v.ships = u.ships
                       /\ v.invade = u.invade /\ v.colonize = u.colonize
                       /\ v.aboutColonized = u.aboutColonized
                       /\ \A x \in Fleets \cup Planets : v.given[x] = AllEmpires
<1>1. n \in Nat /\ collected \in Universes /\ Same(collected)
  BY EmpiresCounted, EmpiresAreOwners DEF Universes
<1>0. PICK f : HandlesGifting(f, u, collected)
  BY GiftingIterates
<1>2. /\ f \in [0..n -> Universes]
       /\ f[0] = collected
       /\ \A r \in 1..n : f[r] = Receive(f[r - 1], GiftsTo(u, r), r)
       /\ HandleGifting(u) = f[n]
  BY <1>0 DEF HandlesGifting
<1>. HIDE DEF collected
<1>. DEFINE T == {r \in 0..n : Same(f[r])}
<1>3. 0 \in T
  <2>. HIDE DEF Same
  <2>. QED BY <1>1, <1>2
<1>4. ASSUME NEW r \in 0..n - 1, r \in T PROVE r + 1 \in T
  <2>1. /\ r + 1 \in 1..n /\ f[r + 1] = Receive(f[r], GiftsTo(u, r + 1), r + 1)
        /\ f[r] \in Universes /\ Same(f[r])
    <3>. HIDE DEF Same
    <3>. QED BY <1>1, <1>2, <1>4
  <2>2. /\ f[r + 1].ships = f[r].ships /\ f[r + 1].invade = f[r].invade
        /\ f[r + 1].colonize = f[r].colonize /\ f[r + 1].given = f[r].given
        /\ f[r + 1].aboutColonized = f[r].aboutColonized
    BY <2>1 DEF Receive, Universes
  <2>3. Same(f[r + 1])
    BY <2>1, <2>2
  <2>. HIDE DEF Same
  <2>. QED BY <2>1, <2>3
<1>5. n \in T
  <2>. HIDE DEF T
  <2>1. 0..n \subseteq T
    BY <1>1, <1>3, <1>4, NatSetInduction
  <2>. QED BY <1>1, <2>1
<1>6. f[n] \in Universes
  BY <1>1, <1>2
<1>7. Same(f[n])
  <2>. HIDE DEF Same
  <2>. QED BY <1>5
<1>8. HandleGifting(u) = f[n]
  BY <1>0 DEF HandlesGifting
<1>. QED BY <1>6, <1>7, <1>8

(* All orders of one empire, whose ships have not been told to colonize.                *)
LEMMA ExecutedAll ==
    ASSUME NEW base \in Universes, NEW v, NEW M, Executed(base, v, M), NEW atWar,
           NEW e \in Empires, NEW q, LegalList(base, atWar, e, q),
           \A s \in M : base.owner[s] # e
    PROVE  Executed(base, ExecuteAll(v, atWar, q), M \cup {s \in Ships : base.owner[s] = e})
<1>. DEFINE n == Len(q)
            Told(i) == {s \in Ships : \E j \in 1..i : q[j].type = "Colonize" /\ q[j].ship = s}
<1>1. /\ q \in Seq(OrderKinds) /\ v \in Universes
      /\ n \in Nat /\ \A i \in 1..n : q[i] \in OrderKinds
  BY DEF LegalList, Executed, SameBut
<1>0. PICK f : ExecutesAll(f, v, atWar, q)
  BY <1>1, ExecuteAllIterates
<1>2. /\ f \in [0..n -> Universes]
      /\ f[0] = v
      /\ \A i \in 1..n : f[i] = Execute(f[i - 1], atWar, q[i])
      /\ ExecuteAll(v, atWar, q) = f[n]
  BY <1>0 DEF ExecutesAll
<1>3. \A i \in 1..n : q[i].type = "Colonize" =>
         q[i].ship \in Ships /\ base.owner[q[i].ship] = e /\ q[i].ship \notin M \cup Told(i - 1)
  <2>. SUFFICES ASSUME NEW i \in 1..n, q[i].type = "Colonize"
                PROVE  /\ q[i].ship \in Ships /\ base.owner[q[i].ship] = e
                       /\ q[i].ship \notin M \cup Told(i - 1)
    OBVIOUS
  <2>1. q[i].ship \in Ships /\ base.owner[q[i].ship] = e
    BY <1>1, OrderCases DEF LegalList, MayColonize, OwnedShip
  <2>2. q[i].ship \notin Told(i - 1)
    <3>1. \A j \in 1..i - 1 : j \in 1..n /\ j # i
      BY <1>1
    <3>. QED BY <3>1 DEF LegalList
  <2>. QED BY <2>1, <2>2
<1>. DEFINE T == {i \in 0..n : Executed(base, f[i], M \cup Told(i))}
<1>4. 0 \in T
  <2>1. M \cup Told(0) = M
    OBVIOUS
  <2>. HIDE DEF Told
  <2>. QED BY <1>1, <1>2, <2>1
<1>5. ASSUME NEW i \in 0..n - 1, i \in T PROVE i + 1 \in T
  <2>1. i + 1 \in 1..n /\ f[i + 1] = Execute(f[i], atWar, q[i + 1]) /\ q[i + 1] \in OrderKinds
    BY <1>1, <1>2
  <2>. DEFINE o == q[i + 1]
  <2>2. o.type = "Colonize" => o.ship \notin M \cup Told(i)
    BY <2>1, <1>3
  <2>3. Executed(base, Execute(f[i], atWar, o),
                 (M \cup Told(i)) \cup {s \in Ships : o.type = "Colonize" /\ s = o.ship})
    <3>. HIDE DEF Told, o
    <3>1. Executed(base, f[i], M \cup Told(i)) /\ o \in OrderKinds
      BY <1>5, <2>1 DEF o
    <3>. QED BY <3>1, <2>2, ExecutedOne
  <2>4. Told(i + 1) = Told(i) \cup {s \in Ships : o.type = "Colonize" /\ s = o.ship}
    <3>1. \A j : j \in 1..i + 1 <=> j \in 1..i \/ j = i + 1
      OBVIOUS
    <3>. QED BY <3>1
  <2>. HIDE DEF Told, o
  <2>5. Executed(base, f[i + 1], M \cup Told(i + 1))
    <3>1. (M \cup Told(i)) \cup {s \in Ships : o.type = "Colonize" /\ s = o.ship}
            = M \cup Told(i + 1)
      BY <2>4
    <3>. QED BY <2>1, <2>3, <3>1 DEF o
  <2>. QED BY <2>1, <2>5
<1>6. n \in T
  <2>. HIDE DEF T
  <2>1. 0..n \subseteq T
    BY <1>1, <1>4, <1>5, NatSetInduction
  <2>. QED BY <1>1, <2>1
<1>7. Told(n) \subseteq {s \in Ships : base.owner[s] = e}
  BY <1>1, <1>3
<1>. HIDE DEF Told
<1>. QED BY <1>2, <1>6, <1>7 DEF Executed

(* The orders of all empires.                                                            *)
LEMMA ExecutedOrders ==
    ASSUME NEW base, Fresh(base), NEW atWar, NEW orders \in [Empires -> Seq(OrderKinds)],
           \A e \in Empires : LegalList(base, atWar, e, orders[e])
    PROVE  Executed(base, ExecuteOrders(base, atWar, orders), Ships)
<1>. DEFINE n == NumEmpires
            Of(e) == {s \in Ships : base.owner[s] \in 1..e}
<1>1. n \in Nat /\ Empires = 1..n /\ base \in Universes
  BY EmpiresCounted DEF Fresh
<1>0. PICK f : ExecutesOrders(f, base, atWar, orders)
  BY <1>1, ExecuteOrdersIterates
<1>2. /\ f \in [0..n -> Universes]
      /\ f[0] = base
      /\ \A e \in 1..n : f[e] = ExecuteAll(f[e - 1], atWar, orders[e])
      /\ ExecuteOrders(base, atWar, orders) = f[n]
  BY <1>0 DEF ExecutesOrders
<1>. DEFINE T == {e \in 0..n : Executed(base, f[e], Of(e))}
<1>3. 0 \in T
  <2>1. base.ships \subseteq Ships
    BY <1>1 DEF Universes
  <2>2. Executed(base, base, Of(0))
    BY <1>1, <2>1 DEF Fresh, Executed, SameBut, Universes
  <2>. HIDE DEF Of
  <2>. QED BY <1>1, <1>2, <2>2
<1>4. ASSUME NEW e \in 0..n - 1, e \in T PROVE e + 1 \in T
  <2>1. e + 1 \in 1..n /\ e + 1 \in Empires /\ f[e + 1] = ExecuteAll(f[e], atWar, orders[e + 1])
    BY <1>1, <1>2
  <2>2. \A s \in Of(e) : base.owner[s] # e + 1
    BY <1>1
  <2>3. Of(e + 1) = Of(e) \cup {s \in Ships : base.owner[s] = e + 1}
    <3>1. \A k : k \in 1..e + 1 <=> k \in 1..e \/ k = e + 1
      OBVIOUS
    <3>. QED BY <3>1
  <2>. HIDE DEF Of
  <2>4. Executed(base, f[e + 1], Of(e) \cup {s \in Ships : base.owner[s] = e + 1})
    <3>1. Executed(base, f[e], Of(e)) /\ LegalList(base, atWar, e + 1, orders[e + 1])
      BY <1>4, <2>1
    <3>. QED BY <1>1, <2>1, <2>2, <3>1, ExecutedAll
  <2>5. Executed(base, f[e + 1], Of(e + 1))
    BY <2>3, <2>4
  <2>6. e + 1 \in 0..n
    BY <1>1
  <2>. QED BY <2>5, <2>6
<1>5. n \in T
  <2>. HIDE DEF T
  <2>1. 0..n \subseteq T
    BY <1>1, <1>3, <1>4, NatSetInduction
  <2>. QED BY <1>1, <2>1
<1>6. Of(n) \subseteq Ships
  OBVIOUS
<1>. HIDE DEF Of
<1>. QED BY <1>2, <1>5, <1>6 DEF Executed

(* HandleColonization forgets every order to colonize, HandleInvasion takes away the    *)
(* ships that invaded, HandleGifting and HandleScrapping forget gifts and scrapping:     *)
(* a turn begins with nothing ordered.                                                   *)
THEOREM TurnLeavesFresh ==
    ASSUME NEW base, Fresh(base), NEW atWar, NEW orders \in [Empires -> Seq(OrderKinds)],
           \A e \in Empires : LegalList(base, atWar, e, orders[e])
    PROVE  Fresh(PreCombatProcessTurns(base, atWar, orders))
<1>. DEFINE u0 == ExecuteOrders(base, atWar, orders)
            u1 == HandleColonization(u0, atWar)
            u2 == HandleInvasion(u1)
            u3 == HandleGifting(u2)
            u4 == HandleScrapping(u3)
<1>1. Executed(base, u0, Ships) /\ u0 \in Universes
  <2>. HIDE DEF u1, u2, u3, u4
  <2>1. Executed(base, u0, Ships)
    BY ExecutedOrders
  <2>. QED BY <2>1 DEF Executed, SameBut
<1>. HIDE DEF u0
<1>2. u1 \in Universes
  BY <1>1, ColonizationTyped
<1>3. /\ u1.ships \subseteq u0.ships /\ u1.invade = u0.invade
      /\ u1.colonize = [s \in Ships |-> IF \E p \in Planets : s \in Colonizers(u0, p)
                                        THEN NoPlanet ELSE u0.colonize[s]]
      /\ u1.aboutColonized = {p \in u0.aboutColonized : Colonizers(u0, p) = {}}
  BY <1>1 DEF HandleColonization, Universes
<1>4. \A s \in Ships : u0.colonize[s] # NoPlanet =>
         u0.colonize[s] \in Planets /\ s \in Colonizers(u0, u0.colonize[s])
  BY <1>1 DEF Executed, SameBut, Colonizers, Universes
<1>5. (\A s \in Ships : u1.colonize[s] = NoPlanet) /\ u1.aboutColonized = {}
  <2>1. \A p \in u0.aboutColonized : p \in Planets /\ \E s \in Ships : u0.colonize[s] = p
    BY <1>1 DEF Executed, Universes
  <2>. QED BY <1>3, <1>4, <2>1, NoPlanetNone
<1>6. \A s \in u1.ships : s \in Ships /\ (u1.invade[s] # NoPlanet => s \in TroopShips)
  BY <1>1, <1>3 DEF Executed, SameBut, Universes
<1>. HIDE DEF u1
<1>7. /\ u2 \in Universes
      /\ u2.ships = u1.ships \ Invaders(u1)
      /\ u2.invade = u1.invade /\ u2.colonize = u1.colonize
      /\ u2.aboutColonized = u1.aboutColonized
  BY <1>2, InvasionTyped DEF HandleInvasion, Universes
<1>8. \A s \in u2.ships : u2.invade[s] = NoPlanet
  BY <1>6, <1>7 DEF Invaders
<1>. HIDE DEF u2
<1>9. /\ u3 \in Universes
      /\ u3.ships = u2.ships
      /\ u3.invade = u2.invade /\ u3.colonize = u2.colonize
      /\ u3.aboutColonized = u2.aboutColonized
      /\ \A x \in Fleets \cup Planets : u3.given[x] = AllEmpires
  BY <1>7, GiftingKeeps
<1>. HIDE DEF u3
<1>10. /\ u4 \in Universes
       /\ u4.ships \subseteq u3.ships /\ u4.scrapped = {}
       /\ u4.invade = u3.invade /\ u4.colonize = u3.colonize
       /\ u4.aboutColonized = u3.aboutColonized /\ u4.given = u3.given
  BY <1>9, ScrappingTyped DEF HandleScrapping, Universes
<1>. HIDE DEF u4
<1>11. Fresh(u4)
  BY <1>5, <1>7, <1>8, <1>9, <1>10 DEF Fresh
<1>. QED BY <1>11 DEF PreCombatProcessTurns, u4, u3, u2, u1, u0

-----------------------------------------------------------------------------
(* One more order in a player's plan.                                                    *)

LEMMA Appended ==
    ASSUME NEW q \in Seq(OrderKinds), NEW o \in OrderKinds
    PROVE  /\ Append(q, o) \in Seq(OrderKinds)
           /\ Len(q) \in Nat /\ Len(Append(q, o)) = Len(q) + 1
           /\ \A i \in 1..Len(q) : i \in 1..Len(q) + 1 /\ Append(q, o)[i] = q[i]
           /\ Len(q) + 1 \in 1..Len(q) + 1 /\ Append(q, o)[Len(q) + 1] = o
           /\ \A i \in 1..Len(q) + 1 : i \in 1..Len(q) \/ i = Len(q) + 1
OBVIOUS

(* Who owns what does not change while orders are given.                                 *)
LEMMA SameOwners ==
    ASSUME NEW base, NEW u, SameBut(base, u), NEW e
    PROVE  /\ \A s : OwnedShip(u, s, e) <=> OwnedShip(base, s, e)
           /\ \A x : Owned(u, x, e) <=> Owned(base, x, e)
           /\ \A atWar, s, p : MayInvade(u, atWar, e, s, p) <=> MayInvade(base, atWar, e, s, p)
BY DEF SameBut, OwnedShip, Owned, MayInvade

(* Each order leaves marks of its own kind only.                                          *)
LEMMA ExecuteLeaves ==
    ASSUME NEW u \in Universes, NEW atWar, NEW o \in OrderKinds
    PROVE  /\ o.type # "Colonize" => /\ Execute(u, atWar, o).colonize = u.colonize
                                     /\ Execute(u, atWar, o).aboutColonized = u.aboutColonized
           /\ o.type # "Invade" => Execute(u, atWar, o).invade = u.invade
           /\ o.type # "Scrap" => Execute(u, atWar, o).scrapped = u.scrapped
           /\ o.type # "Give" => Execute(u, atWar, o).given = u.given
BY OrderCases DEF Execute, ExecuteColonize, ExecuteInvade, ExecuteScrap, ExecuteGive, Universes

LEMMA IssueColonize ==
    ASSUME NEW base, Fresh(base), NEW atWar, NEW e \in Empires, NEW u, NEW q,
           Reflects(base, atWar, e, u, q), NEW o \in OrderKinds,
           q \in Seq(OrderKinds), LegalList(base, atWar, e, Append(q, o))
    PROVE  ShowsColonizing(Execute(u, atWar, o), Append(q, o))
<1>. DEFINE r == Append(q, o)
            n == Len(q)
            w == Execute(u, atWar, o)
<1>1. /\ n \in Nat /\ Len(r) = n + 1
      /\ \A i \in 1..n : i \in 1..n + 1 /\ r[i] = q[i]
      /\ n + 1 \in 1..n + 1 /\ r[n + 1] = o
      /\ \A i \in 1..n + 1 : i \in 1..n \/ i = n + 1
  BY Appended
<1>2. /\ u \in Universes
      /\ \A s \in Ships, p \in Planets :
            u.colonize[s] = p <=> \E i \in 1..n : Colonizes(q[i], s, p)
      /\ \A p \in Planets :
            p \in u.aboutColonized <=> \E i \in 1..n : \E s \in Ships : Colonizes(q[i], s, p)
  BY DEF Reflects, SameBut, ShowsColonizing
<1>3. /\ \A i \in 1..Len(r) : r[i].empire = e
      /\ \A i \in 1..Len(r) :
            r[i].type = "Colonize" => MayColonize(base, e, r[i].ship, r[i].planet)
      /\ \A i, j \in 1..Len(r) :
            /\ r[i].type = "Colonize" /\ r[j].type = "Colonize"
            /\ r[i].ship = r[j].ship \/ r[i].planet = r[j].planet
            => i = j
  BY DEF LegalList
<1>. HIDE DEF r
<1>4. CASE o.type = "Colonize"
  <2>1. o.ship \in Ships /\ o.planet \in Planets
    BY <1>4, OrderCases
  <2>2. \A i \in 1..n : q[i].type = "Colonize" => q[i].ship # o.ship /\ q[i].planet # o.planet
    <3>. SUFFICES ASSUME NEW i \in 1..n, q[i].type = "Colonize",
                         q[i].ship = o.ship \/ q[i].planet = o.planet
                  PROVE  FALSE
      OBVIOUS
    <3>1. i # n + 1 /\ r[i] = q[i] /\ i \in 1..Len(r) /\ n + 1 \in 1..Len(r)
      BY <1>1
    <3>. QED BY <1>1, <1>3, <1>4, <3>1
  <2>3. o.planet \notin u.aboutColonized
    BY <1>2, <2>1, <2>2 DEF Colonizes
  <2>4. MayColonize(u, o.empire, o.ship, o.planet)
    <3>1. o.empire = e /\ MayColonize(base, e, o.ship, o.planet)
      BY <1>1, <1>3, <1>4
    <3>. QED BY <3>1, <2>3, SameOwners DEF MayColonize, Reflects, SameBut
  <2>5. /\ w.colonize = [u.colonize EXCEPT ![o.ship] = o.planet]
        /\ w.aboutColonized = u.aboutColonized \cup {o.planet}
    BY <1>2, <1>4, <2>4 DEF Execute, ExecuteColonize, Universes
  <2>6. \A s \in Ships : w.colonize[s] = IF s = o.ship THEN o.planet ELSE u.colonize[s]
    BY <1>2, <2>5 DEF Universes
  <2>. HIDE DEF w, n
  <2>7. ASSUME NEW s \in Ships, NEW p \in Planets
        PROVE  w.colonize[s] = p <=> \E i \in 1..Len(r) : Colonizes(r[i], s, p)
    <3>1. (\E i \in 1..Len(r) : Colonizes(r[i], s, p))
            <=> (\E i \in 1..n : Colonizes(q[i], s, p)) \/ Colonizes(o, s, p)
      BY <1>1
    <3>2. CASE s = o.ship
      <4>1. \A i \in 1..n : ~Colonizes(q[i], s, p)
        BY <2>2, <3>2 DEF Colonizes
      <4>2. Colonizes(o, s, p) <=> o.planet = p
        BY <1>4, <3>2 DEF Colonizes
      <4>. QED BY <2>6, <3>1, <3>2, <4>1, <4>2
    <3>3. CASE s # o.ship
      <4>1. ~Colonizes(o, s, p)
        BY <3>3 DEF Colonizes
      <4>. QED BY <1>2, <2>6, <3>1, <3>3, <4>1
    <3>. QED BY <3>2, <3>3
  <2>8. ASSUME NEW p \in Planets
        PROVE  p \in w.aboutColonized
                 <=> \E i \in 1..Len(r) : \E s \in Ships : Colonizes(r[i], s, p)
    <3>1. (\E i \in 1..Len(r) : \E s \in Ships : Colonizes(r[i], s, p))
            <=> \/ \E i \in 1..n : \E s \in Ships : Colonizes(q[i], s, p)
                \/ \E s \in Ships : Colonizes(o, s, p)
      BY <1>1
    <3>2. (\E s \in Ships : Colonizes(o, s, p)) <=> p = o.planet
      BY <1>4, <2>1 DEF Colonizes
    <3>. QED BY <1>2, <2>5, <3>1, <3>2
  <2>. QED BY <2>7, <2>8 DEF r, w, ShowsColonizing
<1>5. CASE o.type # "Colonize"
  <2>1. w.colonize = u.colonize /\ w.aboutColonized = u.aboutColonized
    BY <1>2, <1>5, ExecuteLeaves
  <2>2. \A s, p : ~Colonizes(o, s, p)
    BY <1>5 DEF Colonizes
  <2>3. \A s, p : (\E i \in 1..Len(r) : Colonizes(r[i], s, p))
                    <=> (\E i \in 1..n : Colonizes(q[i], s, p))
    BY <1>1, <2>2
  <2>4. \A p : (\E i \in 1..Len(r) : \E s \in Ships : Colonizes(r[i], s, p))
                 <=> (\E i \in 1..n : \E s \in Ships : Colonizes(q[i], s, p))
    BY <1>1, <2>2
  <2>. HIDE DEF w, n
  <2>. QED BY <1>2, <2>1, <2>3, <2>4 DEF r, w, ShowsColonizing
<1>. QED BY <1>4, <1>5

LEMMA IssueInvade ==
    ASSUME NEW base, Fresh(base), NEW atWar, NEW e \in Empires, NEW u, NEW q,
           Reflects(base, atWar, e, u, q), NEW o \in OrderKinds,
           q \in Seq(OrderKinds), LegalList(base, atWar, e, Append(q, o))
    PROVE  ShowsInvading(base, atWar, Execute(u, atWar, o), Append(q, o))
<1>. DEFINE r == Append(q, o)
            n == Len(q)
            w == Execute(u, atWar, o)
<1>1. /\ n \in Nat /\ Len(r) = n + 1
      /\ \A i \in 1..n : i \in 1..n + 1 /\ r[i] = q[i]
      /\ n + 1 \in 1..n + 1 /\ r[n + 1] = o
      /\ \A i \in 1..n + 1 : i \in 1..n \/ i = n + 1
  BY Appended
<1>2. /\ u \in Universes /\ SameBut(base, u)
      /\ \A s \in base.ships, p \in Planets :
            u.invade[s] = p <=> \E i \in 1..n : Invades(base, atWar, q[i], s, p)
      /\ \A s \in Ships \ base.ships : u.invade[s] = base.invade[s]
  BY DEF Reflects, SameBut, ShowsInvading, ShowsScrapping
<1>3. /\ \A i \in 1..Len(r) : r[i].empire = e
      /\ \A i, j \in 1..Len(r) : \A s \in Ships : \A p, t \in Planets :
            Invades(base, atWar, r[i], s, p) /\ Invades(base, atWar, r[j], s, t) => i = j
  BY DEF LegalList
<1>4. base.ships \subseteq Ships
  BY DEF Fresh, Universes
<1>. HIDE DEF r
<1>5. CASE o.type = "Invade" /\ MayInvade(base, atWar, o.empire, o.ship, o.planet)
  <2>1. o.ship \in Ships /\ o.planet \in Planets
    BY <1>5, OrderCases
  <2>2. o.ship \in base.ships /\ Invades(base, atWar, o, o.ship, o.planet)
    BY <1>5 DEF MayInvade, OwnedShip, Invades
  <2>3. \A i \in 1..n : \A p \in Planets : ~Invades(base, atWar, q[i], o.ship, p)
    <3>. SUFFICES ASSUME NEW i \in 1..n, NEW p \in Planets, Invades(base, atWar, q[i], o.ship, p)
                  PROVE  FALSE
      OBVIOUS
    <3>1. i # n + 1 /\ r[i] = q[i] /\ i \in 1..Len(r) /\ n + 1 \in 1..Len(r) /\ r[n + 1] = o
      BY <1>1
    <3>. QED BY <1>3, <2>1, <2>2, <3>1
  <2>4. MayInvade(u, atWar, o.empire, o.ship, o.planet)
    <3>1. o.empire = e
      BY <1>1, <1>3
    <3>. QED BY <1>2, <1>5, <3>1, SameOwners
  <2>5. w.invade = [u.invade EXCEPT ![o.ship] = o.planet]
    BY <1>2, <1>5, <2>4 DEF Execute, ExecuteInvade, Universes
  <2>6. \A s \in Ships : w.invade[s] = IF s = o.ship THEN o.planet ELSE u.invade[s]
    BY <1>2, <2>5 DEF Universes
  <2>. HIDE DEF w, n
  <2>7. ASSUME NEW s \in base.ships, NEW p \in Planets
        PROVE  w.invade[s] = p <=> \E i \in 1..Len(r) : Invades(base, atWar, r[i], s, p)
    <3>1. (\E i \in 1..Len(r) : Invades(base, atWar, r[i], s, p))
            <=> (\E i \in 1..n : Invades(base, atWar, q[i], s, p)) \/ Invades(base, atWar, o, s, p)
      BY <1>1
    <3>2. CASE s = o.ship
      <4>1. \A i \in 1..n : ~Invades(base, atWar, q[i], s, p)
        BY <2>3, <3>2
      <4>2. Invades(base, atWar, o, s, p) <=> o.planet = p
        BY <1>5, <3>2 DEF Invades
      <4>. QED BY <2>1, <2>6, <3>1, <3>2, <4>1, <4>2
    <3>3. CASE s # o.ship
      <4>1. ~Invades(base, atWar, o, s, p)
        BY <3>3 DEF Invades
      <4>2. w.invade[s] = u.invade[s]
        BY <1>4, <2>6, <3>3
      <4>. QED BY <1>2, <3>1, <4>1, <4>2
    <3>. QED BY <3>2, <3>3
  <2>8. \A s \in Ships \ base.ships : w.invade[s] = base.invade[s]
    BY <1>2, <2>2, <2>6
  <2>. QED BY <2>7, <2>8 DEF r, w, ShowsInvading
<1>6. CASE ~(o.type = "Invade" /\ MayInvade(base, atWar, o.empire, o.ship, o.planet))
  <2>1. w.invade = u.invade
    <3>1. CASE o.type # "Invade"
      BY <1>2, <3>1, ExecuteLeaves
    <3>2. CASE o.type = "Invade"
      <4>1. ~MayInvade(u, atWar, o.empire, o.ship, o.planet)
        BY <1>2, <1>6, <3>2, SameOwners
      <4>. QED BY <3>2, <4>1 DEF Execute, ExecuteInvade
    <3>. QED BY <3>1, <3>2
  <2>2. \A s, p : ~Invades(base, atWar, o, s, p)
    BY <1>6 DEF Invades
  <2>3. \A s, p : (\E i \in 1..Len(r) : Invades(base, atWar, r[i], s, p))
                    <=> (\E i \in 1..n : Invades(base, atWar, q[i], s, p))
    BY <1>1, <2>2
  <2>. HIDE DEF w, n
  <2>. QED BY <1>2, <2>1, <2>3 DEF r, w, ShowsInvading
<1>. QED BY <1>5, <1>6

LEMMA IssueScrap ==
    ASSUME NEW base, NEW atWar, NEW e \in Empires, NEW u, NEW q,
           Reflects(base, atWar, e, u, q), NEW o \in OrderKinds, o.empire = e,
           q \in Seq(OrderKinds)
    PROVE  ShowsScrapping(base, e, Execute(u, atWar, o), Append(q, o))
<1>. DEFINE r == Append(q, o)
            n == Len(q)
            w == Execute(u, atWar, o)
<1>1. /\ n \in Nat /\ Len(r) = n + 1
      /\ \A i \in 1..n : i \in 1..n + 1 /\ r[i] = q[i]
      /\ n + 1 \in 1..n + 1 /\ r[n + 1] = o
  BY Appended
<1>2. /\ u \in Universes /\ SameBut(base, u)
      /\ \A s \in u.scrapped : /\ OwnedShip(base, s, e)
                               /\ \E i \in 1..n : q[i].type = "Scrap" /\ q[i].ship = s
  BY DEF Reflects, SameBut, ShowsInvading, ShowsScrapping
<1>3. \A s \in w.scrapped :
         s \in u.scrapped \/ (o.type = "Scrap" /\ s = o.ship /\ OwnedShip(u, s, e))
  <2>1. CASE o.type # "Scrap"
    BY <1>2, <2>1, ExecuteLeaves
  <2>2. CASE o.type = "Scrap"
    BY <1>2, <2>2 DEF Execute, ExecuteScrap, Universes
  <2>. QED BY <2>1, <2>2
<1>. HIDE DEF r, w, n
<1>4. ASSUME NEW s \in w.scrapped
      PROVE  OwnedShip(base, s, e) /\ \E i \in 1..Len(r) : r[i].type = "Scrap" /\ r[i].ship = s
  <2>1. CASE s \in u.scrapped
    BY <1>1, <1>2, <2>1
  <2>2. CASE o.type = "Scrap" /\ s = o.ship /\ OwnedShip(u, s, e)
    BY <1>1, <1>2, <2>2, SameOwners
  <2>. QED BY <1>3, <2>1, <2>2
<1>. QED BY <1>4 DEF r, w, ShowsScrapping

LEMMA IssueGive ==
    ASSUME NEW base, NEW atWar, NEW e \in Empires, NEW u, NEW q,
           Reflects(base, atWar, e, u, q), NEW o \in OrderKinds,
           q \in Seq(OrderKinds), LegalList(base, atWar, e, Append(q, o))
    PROVE  ShowsGiving(Execute(u, atWar, o), Append(q, o))
<1>. DEFINE r == Append(q, o)
            n == Len(q)
            w == Execute(u, atWar, o)
<1>1. /\ n \in Nat /\ Len(r) = n + 1
      /\ \A i \in 1..n : i \in 1..n + 1 /\ r[i] = q[i]
      /\ n + 1 \in 1..n + 1 /\ r[n + 1] = o
      /\ \A i \in 1..n + 1 : i \in 1..n \/ i = n + 1
  BY Appended
<1>2. /\ u \in Universes /\ SameBut(base, u)
      /\ \A x \in Fleets \cup Planets : GivenBy(q, x, u.given[x])
  BY DEF Reflects, SameBut, ShowsGiving
<1>3. \A i \in 1..Len(r) :
         r[i].empire = e /\ (r[i].type = "Give" => Owned(base, r[i].object, e))
  BY DEF LegalList
<1>. HIDE DEF r
<1>4. ASSUME NEW x \in Fleets \cup Planets, ~Gives(o, x) PROVE GivenBy(r, x, u.given[x])
  <2>1. GivenBy(q, x, u.given[x])
    BY <1>2
  <2>2. CASE u.given[x] = AllEmpires /\ \A i \in 1..n : ~Gives(q[i], x)
    <3>1. \A i \in 1..Len(r) : ~Gives(r[i], x)
      BY <1>1, <1>4, <2>2
    <3>. QED BY <2>2, <3>1 DEF GivenBy
  <2>3. CASE \E i \in 1..n : /\ Gives(q[i], x) /\ q[i].recipient = u.given[x]
                             /\ \A j \in 1..n : j > i => ~Gives(q[j], x)
    <3>1. PICK i \in 1..n : /\ Gives(q[i], x) /\ q[i].recipient = u.given[x]
                            /\ \A j \in 1..n : j > i => ~Gives(q[j], x)
      BY <2>3
    <3>2. i \in 1..Len(r) /\ Gives(r[i], x) /\ r[i].recipient = u.given[x]
      BY <1>1, <3>1
    <3>3. \A j \in 1..Len(r) : j > i => ~Gives(r[j], x)
      BY <1>1, <1>4, <3>1
    <3>. QED BY <3>2, <3>3 DEF GivenBy
  <2>. QED BY <2>1, <2>2, <2>3 DEF GivenBy
<1>5. CASE o.type = "Give"
  <2>1. o.object \in Fleets \cup Planets
    BY <1>5, OrderCases
  <2>2. Owned(u, o.object, o.empire)
    <3>1. o.empire = e /\ Owned(base, o.object, e)
      BY <1>1, <1>3, <1>5
    <3>. QED BY <1>2, <3>1, SameOwners
  <2>3. w.given = [u.given EXCEPT ![o.object] = o.recipient]
    BY <1>2, <1>5, <2>2 DEF Execute, ExecuteGive, Universes
  <2>4. \A x \in Fleets \cup Planets : w.given[x] = IF x = o.object THEN o.recipient ELSE u.given[x]
    BY <1>2, <2>3 DEF Universes
  <2>. HIDE DEF w
  <2>5. ASSUME NEW x \in Fleets \cup Planets PROVE GivenBy(r, x, w.given[x])
    <3>1. CASE x = o.object
      <4>1. n + 1 \in 1..Len(r) /\ Gives(r[n + 1], x) /\ r[n + 1].recipient = w.given[x]
        BY <1>1, <1>5, <2>4, <3>1 DEF Gives
      <4>2. \A j \in 1..Len(r) : ~(j > n + 1)
        BY <1>1
      <4>. QED BY <4>1, <4>2 DEF GivenBy
    <3>2. CASE x # o.object
      <4>1. ~Gives(o, x) /\ w.given[x] = u.given[x]
        BY <2>4, <3>2 DEF Gives
      <4>. QED BY <1>4, <4>1
    <3>. QED BY <3>1, <3>2
  <2>. QED BY <2>5 DEF r, w, ShowsGiving
<1>6. CASE o.type # "Give"
  <2>1. w.given = u.given /\ \A x : ~Gives(o, x)
    BY <1>2, <1>6, ExecuteLeaves DEF Gives
  <2>. HIDE DEF w
  <2>. QED BY <1>4, <2>1 DEF r, w, ShowsGiving
<1>. QED BY <1>5, <1>6

(* What a universe shows after an order is executed is the list with the order added, if  *)
(* that is a list of a player.                                                            *)
LEMMA IssueReflects ==
    ASSUME NEW base, Fresh(base), NEW atWar, NEW e \in Empires, NEW u, NEW q,
           Reflects(base, atWar, e, u, q), NEW o \in OrderKinds,
           q \in Seq(OrderKinds), LegalList(base, atWar, e, Append(q, o))
    PROVE  Reflects(base, atWar, e, Execute(u, atWar, o), Append(q, o))
<1>. DEFINE r == Append(q, o)
            w == Execute(u, atWar, o)
<1>1. SameBut(base, w)
  BY ExecuteSameBut DEF Reflects
<1>2. o.empire = e
  <2>1. \A i \in 1..Len(r) : r[i].empire = e
    BY DEF LegalList
  <2>2. Len(q) + 1 \in 1..Len(r) /\ r[Len(q) + 1] = o
    BY Appended
  <2>. HIDE DEF r
  <2>. QED BY <2>1, <2>2
<1>3. ShowsColonizing(w, r) /\ ShowsInvading(base, atWar, w, r)
  BY IssueColonize, IssueInvade
<1>4. ShowsScrapping(base, e, w, r) /\ ShowsGiving(w, r)
  BY <1>2, IssueScrap, IssueGive
<1>. HIDE DEF r, w
<1>5. Reflects(base, atWar, e, w, r)
  BY <1>1, <1>3, <1>4 DEF Reflects
<1>. QED BY <1>5 DEF r, w

-----------------------------------------------------------------------------
(* One order less in a player's plan.                                                    *)

(* List r is q without its k-th order.                                                   *)
Without(q, k, r) ==
    /\ k \in 1..Len(q)
    /\ r \in Seq(OrderKinds) /\ Len(r) = Len(q) - 1
    /\ \A j \in 1..Len(r) : r[j] = IF j < k THEN q[j] ELSE q[j + 1]

(* The place of an order of r in q, and of an order of q that is left in r.               *)
Before(j, k) == IF j < k THEN j ELSE j + 1
After(i, k) == IF i < k THEN i ELSE i - 1

LEMMA WithoutPlaces ==
    ASSUME NEW q \in Seq(OrderKinds), NEW k, NEW r, Without(q, k, r)
    PROVE  /\ \A j \in 1..Len(r) :
                 /\ Before(j, k) \in 1..Len(q) /\ Before(j, k) # k
                 /\ r[j] = q[Before(j, k)]
           /\ \A i, j \in 1..Len(r) : Before(i, k) = Before(j, k) => i = j
           /\ \A i \in 1..Len(q) : i # k => After(i, k) \in 1..Len(r) /\ r[After(i, k)] = q[i]
           /\ \A i \in 1..Len(q), j \in 1..Len(r) :
                 i # k /\ j > After(i, k) => Before(j, k) > i
<1>1. k \in 1..Len(q) /\ Len(q) \in Nat /\ Len(r) = Len(q) - 1
  BY DEF Without
<1>2. ASSUME NEW j \in 1..Len(r)
      PROVE  Before(j, k) \in 1..Len(q) /\ Before(j, k) # k /\ r[j] = q[Before(j, k)]
  BY <1>1 DEF Without, Before
<1>3. ASSUME NEW i \in 1..Len(q), i # k
      PROVE  After(i, k) \in 1..Len(r) /\ r[After(i, k)] = q[i]
  <2>1. After(i, k) \in 1..Len(r)
    BY <1>1, <1>3 DEF After
  <2>2. Before(After(i, k), k) = i
    BY <1>1, <1>3 DEF After, Before
  <2>. QED BY <2>1, <2>2, <1>2
<1>4. \A i, j \in 1..Len(r) : Before(i, k) = Before(j, k) => i = j
  BY <1>1 DEF Before
<1>5. \A i \in 1..Len(q), j \in 1..Len(r) : i # k /\ j > After(i, k) => Before(j, k) > i
  BY <1>1 DEF Before, After
<1>. QED BY <1>2, <1>3, <1>4, <1>5

LEMMA WithoutLegal ==
    ASSUME NEW base, NEW atWar, NEW e, NEW q, LegalList(base, atWar, e, q),
           NEW k, NEW r, Without(q, k, r)
    PROVE  LegalList(base, atWar, e, r)
<1>1. q \in Seq(OrderKinds) /\ r \in Seq(OrderKinds)
  BY DEF LegalList, Without
<1>2. /\ \A j \in 1..Len(r) : Before(j, k) \in 1..Len(q) /\ r[j] = q[Before(j, k)]
      /\ \A i, j \in 1..Len(r) : Before(i, k) = Before(j, k) => i = j
  BY <1>1, WithoutPlaces
<1>3. /\ \A i \in 1..Len(r) : r[i].empire = e
      /\ \A i \in 1..Len(r) :
            r[i].type = "Colonize" => MayColonize(base, e, r[i].ship, r[i].planet)
      /\ \A i \in 1..Len(r) : r[i].type = "Give" => Owned(base, r[i].object, e)
  BY <1>2 DEF LegalList
<1>4. ASSUME NEW i \in 1..Len(r), NEW j \in 1..Len(r),
             r[i].type = "Colonize" /\ r[j].type = "Colonize",
             r[i].ship = r[j].ship \/ r[i].planet = r[j].planet
      PROVE  i = j
  <2>1. Before(i, k) = Before(j, k)
    BY <1>2, <1>4 DEF LegalList
  <2>. QED BY <1>2, <2>1
<1>5. ASSUME NEW i \in 1..Len(r), NEW j \in 1..Len(r), NEW s \in Ships,
             NEW p \in Planets, NEW t \in Planets,
             Invades(base, atWar, r[i], s, p), Invades(base, atWar, r[j], s, t)
      PROVE  i = j
  <2>1. Before(i, k) = Before(j, k)
    BY <1>2, <1>5 DEF LegalList
  <2>. QED BY <1>2, <2>1
<1>6. OneTask(base, atWar, r)
  <2>1. OneTask(base, atWar, q)
    BY DEF LegalList
  <2>. QED BY <1>2, <2>1 DEF OneTask
<1>. QED BY <1>1, <1>3, <1>4, <1>5, <1>6 DEF LegalList

(* Taking an order back erases marks of its own kind only.                                 *)
LEMMA UndoneLeaves ==
    ASSUME NEW u \in Universes, NEW o \in OrderKinds
    PROVE  /\ o.type # "Colonize" => /\ Undone(u, o).colonize = u.colonize
                                     /\ Undone(u, o).aboutColonized = u.aboutColonized
           /\ o.type # "Invade" => Undone(u, o).invade = u.invade
           /\ o.type # "Scrap" => Undone(u, o).scrapped = u.scrapped
           /\ o.type # "Give" => Undone(u, o).given = u.given
BY OrderCases DEF Undone, Universes

LEMMA UndoneSameBut ==
    ASSUME NEW base, NEW u, SameBut(base, u), NEW o \in OrderKinds
    PROVE  SameBut(base, Undone(u, o))
<1>0. u \in Universes
  BY DEF SameBut
<1>1. Undone(u, o) \in Universes
  BY <1>0, UndoneTyped
<1>2. /\ Undone(u, o).ships = u.ships
      /\ Undone(u, o).owner = u.owner
      /\ Undone(u, o).populated = u.populated
      /\ Undone(u, o).shielded = u.shielded
  BY <1>0, OrderCases DEF Undone, Universes
<1>. QED BY <1>1, <1>2 DEF SameBut

LEMMA RecindColonize ==
    ASSUME NEW base, NEW atWar, NEW e \in Empires, NEW u \in Universes, NEW q,
           ShowsColonizing(u, q), LegalList(base, atWar, e, q),
           NEW k, NEW r, Without(q, k, r), Undoable(u, q[k])
    PROVE  ShowsColonizing(Undone(u, q[k]), r)
<1>. DEFINE o == q[k]
            w == Undone(u, o)
            n == Len(q)
            m == Len(r)
<1>1. q \in Seq(OrderKinds) /\ k \in 1..n /\ o \in OrderKinds
  BY DEF LegalList, Without
<1>2. /\ \A j \in 1..m : Before(j, k) \in 1..n /\ Before(j, k) # k /\ r[j] = q[Before(j, k)]
      /\ \A i \in 1..n : i # k => After(i, k) \in 1..m /\ r[After(i, k)] = q[i]
  BY <1>1, WithoutPlaces
<1>3. /\ \A s \in Ships, p \in Planets :
            u.colonize[s] = p <=> \E i \in 1..n : Colonizes(q[i], s, p)
      /\ \A p \in Planets :
            p \in u.aboutColonized <=> \E i \in 1..n : \E s \in Ships : Colonizes(q[i], s, p)
  BY DEF ShowsColonizing
<1>4. CASE o.type = "Colonize"
  <2>1. o.ship \in Ships /\ o.planet \in Planets
    BY <1>1, <1>4, OrderCases
  <2>2. \A i \in 1..n : q[i].type = "Colonize" /\ i # k =>
           q[i].ship # o.ship /\ q[i].planet # o.planet
    BY <1>1, <1>4 DEF LegalList
  <2>3. /\ w.colonize = [u.colonize EXCEPT ![o.ship] = NoPlanet]
        /\ w.aboutColonized = u.aboutColonized \ {o.planet}
    BY <1>4 DEF Undone, Universes
  <2>4. \A s \in Ships : w.colonize[s] = IF s = o.ship THEN NoPlanet ELSE u.colonize[s]
    BY <2>3 DEF Universes
  <2>. HIDE DEF w, n, m
  <2>5. ASSUME NEW s \in Ships, NEW p \in Planets
        PROVE  w.colonize[s] = p <=> \E j \in 1..m : Colonizes(r[j], s, p)
    <3>1. CASE s = o.ship
      <4>1. \A j \in 1..m : ~Colonizes(r[j], s, p)
        BY <1>2, <2>2, <3>1 DEF Colonizes
      <4>2. w.colonize[s] # p
        BY <2>4, <3>1, NoPlanetNone
      <4>. QED BY <4>1, <4>2
    <3>2. CASE s # o.ship
      <4>1. ~Colonizes(o, s, p)
        BY <3>2 DEF Colonizes
      <4>2. (\E i \in 1..n : Colonizes(q[i], s, p)) <=> (\E j \in 1..m : Colonizes(r[j], s, p))
        BY <1>2, <4>1
      <4>. QED BY <1>3, <2>4, <3>2, <4>2
    <3>. QED BY <3>1, <3>2
  <2>6. ASSUME NEW p \in Planets
        PROVE  p \in w.aboutColonized <=> \E j \in 1..m : \E s \in Ships : Colonizes(r[j], s, p)
    <3>1. CASE p = o.planet
      <4>1. \A j \in 1..m : \A s \in Ships : ~Colonizes(r[j], s, p)
        BY <1>2, <2>2, <3>1 DEF Colonizes
      <4>. QED BY <2>3, <3>1, <4>1
    <3>2. CASE p # o.planet
      <4>1. \A s : ~Colonizes(o, s, p)
        BY <3>2 DEF Colonizes
      <4>2. (\E i \in 1..n : \E s \in Ships : Colonizes(q[i], s, p))
               <=> (\E j \in 1..m : \E s \in Ships : Colonizes(r[j], s, p))
        BY <1>2, <4>1
      <4>. QED BY <1>3, <2>3, <3>2, <4>2
    <3>. QED BY <3>1, <3>2
  <2>. QED BY <2>5, <2>6 DEF ShowsColonizing, w, m
<1>5. CASE o.type # "Colonize"
  <2>1. w.colonize = u.colonize /\ w.aboutColonized = u.aboutColonized
    BY <1>1, <1>5, UndoneLeaves
  <2>2. \A s, p : ~Colonizes(o, s, p)
    BY <1>5 DEF Colonizes
  <2>. HIDE DEF w, n, m
  <2>3. \A s, p : (\E i \in 1..n : Colonizes(q[i], s, p)) <=> (\E j \in 1..m : Colonizes(r[j], s, p))
    BY <1>2, <2>2
  <2>4. \A p : (\E i \in 1..n : \E s \in Ships : Colonizes(q[i], s, p))
                 <=> (\E j \in 1..m : \E s \in Ships : Colonizes(r[j], s, p))
    BY <1>2, <2>2
  <2>. HIDE DEF o
  <2>5. ASSUME NEW s \in Ships, NEW p \in Planets
        PROVE  w.colonize[s] = p <=> \E j \in 1..m : Colonizes(r[j], s, p)
    BY <1>3, <2>1, <2>3
  <2>6. ASSUME NEW p \in Planets
        PROVE  p \in w.aboutColonized <=> \E j \in 1..m : \E s \in Ships : Colonizes(r[j], s, p)
    BY <1>3, <2>1, <2>4
  <2>. QED BY <2>5, <2>6 DEF ShowsColonizing, w, m, o
<1>. QED BY <1>4, <1>5

LEMMA RecindInvade ==
    ASSUME NEW base, Fresh(base), NEW atWar, NEW e \in Empires, NEW u, SameBut(base, u), NEW q,
           ShowsInvading(base, atWar, u, q), LegalList(base, atWar, e, q),
           NEW k, NEW r, Without(q, k, r), Undoable(u, q[k])
    PROVE  ShowsInvading(base, atWar, Undone(u, q[k]), r)
<1>. DEFINE o == q[k]
            w == Undone(u, o)
            n == Len(q)
            m == Len(r)
<1>1. /\ q \in Seq(OrderKinds) /\ k \in 1..n /\ o \in OrderKinds
      /\ u \in Universes /\ u.ships = base.ships /\ base.ships \subseteq Ships
  BY DEF LegalList, Without, SameBut, Universes
<1>2. /\ \A j \in 1..m : Before(j, k) \in 1..n /\ Before(j, k) # k /\ r[j] = q[Before(j, k)]
      /\ \A i \in 1..n : i # k => After(i, k) \in 1..m /\ r[After(i, k)] = q[i]
  <2>1. q \in Seq(OrderKinds)
    BY <1>1
  <2>. QED BY <2>1, WithoutPlaces
<1>3. /\ \A s \in base.ships, p \in Planets :
            u.invade[s] = p <=> \E i \in 1..n : Invades(base, atWar, q[i], s, p)
      /\ \A s \in Ships \ base.ships : u.invade[s] = base.invade[s]
  BY DEF ShowsInvading
<1>4. CASE o.type = "Invade"
  <2>1. o.ship \in base.ships /\ o.ship \in Ships /\ o.planet \in Planets /\ u.invade[o.ship] = o.planet
    BY <1>1, <1>4, OrderCases DEF Undoable
  <2>2. Invades(base, atWar, o, o.ship, o.planet)
    <3>1. PICK i \in 1..n : Invades(base, atWar, q[i], o.ship, o.planet)
      BY <1>3, <2>1
    <3>2. q[i].empire = e /\ o.empire = e
      BY <1>1 DEF LegalList
    <3>. QED BY <1>4, <3>1, <3>2 DEF Invades
  <2>3. \A i \in 1..n : \A p \in Planets : i # k => ~Invades(base, atWar, q[i], o.ship, p)
    BY <1>1, <2>1, <2>2 DEF LegalList
  <2>4. w.invade = [u.invade EXCEPT ![o.ship] = NoPlanet]
    BY <1>1, <1>4 DEF Undone, Universes
  <2>5. \A s \in Ships : w.invade[s] = IF s = o.ship THEN NoPlanet ELSE u.invade[s]
    BY <1>1, <2>4 DEF Universes
  <2>. HIDE DEF w, n, m
  <2>6. ASSUME NEW s \in base.ships, NEW p \in Planets
        PROVE  w.invade[s] = p <=> \E j \in 1..m : Invades(base, atWar, r[j], s, p)
    <3>1. CASE s = o.ship
      <4>1. \A j \in 1..m : ~Invades(base, atWar, r[j], s, p)
        BY <1>2, <2>3, <3>1
      <4>2. w.invade[s] # p
        BY <2>1, <2>5, <3>1, NoPlanetNone
      <4>. QED BY <4>1, <4>2
    <3>2. CASE s # o.ship
      <4>1. ~Invades(base, atWar, o, s, p)
        BY <3>2 DEF Invades
      <4>2. (\E i \in 1..n : Invades(base, atWar, q[i], s, p))
              <=> (\E j \in 1..m : Invades(base, atWar, r[j], s, p))
        BY <1>2, <4>1
      <4>3. w.invade[s] = u.invade[s]
        BY <1>1, <2>5, <3>2
      <4>. QED BY <1>3, <4>2, <4>3
    <3>. QED BY <3>1, <3>2
  <2>7. \A s \in Ships \ base.ships : w.invade[s] = base.invade[s]
    BY <1>3, <2>1, <2>5
  <2>. QED BY <2>6, <2>7 DEF ShowsInvading, w, m
<1>5. CASE o.type # "Invade"
  <2>1. w.invade = u.invade
    BY <1>1, <1>5, UndoneLeaves
  <2>2. \A s, p : ~Invades(base, atWar, o, s, p)
    BY <1>5 DEF Invades
  <2>. HIDE DEF w, n, m
  <2>3. \A s, p : (\E i \in 1..n : Invades(base, atWar, q[i], s, p))
                    <=> (\E j \in 1..m : Invades(base, atWar, r[j], s, p))
    BY <1>2, <2>2
  <2>. HIDE DEF o
  <2>4. ASSUME NEW s \in base.ships, NEW p \in Planets
        PROVE  w.invade[s] = p <=> \E j \in 1..m : Invades(base, atWar, r[j], s, p)
    BY <1>3, <2>1, <2>3
  <2>5. \A s \in Ships \ base.ships : w.invade[s] = base.invade[s]
    BY <1>3, <2>1
  <2>. QED BY <2>4, <2>5 DEF ShowsInvading, w, m, o
<1>. QED BY <1>4, <1>5

LEMMA RecindScrap ==
    ASSUME NEW base, NEW atWar, NEW e \in Empires, NEW u, SameBut(base, u), NEW q,
           ShowsScrapping(base, e, u, q), LegalList(base, atWar, e, q),
           NEW k, NEW r, Without(q, k, r)
    PROVE  ShowsScrapping(base, e, Undone(u, q[k]), r)
<1>. DEFINE o == q[k]
            w == Undone(u, o)
<1>1. /\ q \in Seq(OrderKinds) /\ k \in 1..Len(q) /\ o \in OrderKinds /\ o.empire = e
      /\ u \in Universes
  BY DEF LegalList, Without, SameBut
<1>2. \A i \in 1..Len(q) : i # k => After(i, k) \in 1..Len(r) /\ r[After(i, k)] = q[i]
  BY <1>1, WithoutPlaces
<1>3. \A s \in u.scrapped :
         /\ OwnedShip(base, s, e)
         /\ \E i \in 1..Len(q) : q[i].type = "Scrap" /\ q[i].ship = s
  BY DEF ShowsScrapping
<1>4. \A s \in w.scrapped : s \in u.scrapped /\ ~(o.type = "Scrap" /\ o.ship = s)
  <2>1. CASE o.type # "Scrap"
    BY <1>1, <2>1, UndoneLeaves
  <2>2. CASE o.type = "Scrap" /\ OwnedShip(u, o.ship, o.empire)
    BY <1>1, <2>2 DEF Undone, Universes
  <2>3. CASE o.type = "Scrap" /\ ~OwnedShip(u, o.ship, o.empire)
    <3>1. w = u /\ o.ship \notin u.scrapped
      BY <1>1, <1>3, <2>3, SameOwners DEF Undone
    <3>. QED BY <3>1
  <2>. QED BY <2>1, <2>2, <2>3
<1>. HIDE DEF w
<1>5. ASSUME NEW s \in w.scrapped
      PROVE  OwnedShip(base, s, e) /\ \E j \in 1..Len(r) : r[j].type = "Scrap" /\ r[j].ship = s
  <2>1. PICK i \in 1..Len(q) : q[i].type = "Scrap" /\ q[i].ship = s
    BY <1>3, <1>4
  <2>2. i # k
    BY <1>4, <2>1
  <2>. QED BY <1>2, <1>3, <1>4, <2>1, <2>2
<1>. QED BY <1>5 DEF ShowsScrapping, w

(* The last order to give x is still the last, if it is not taken back.                    *)
LEMMA RecindGive ==
    ASSUME NEW q \in Seq(OrderKinds), NEW k, NEW r, Without(q, k, r), NEW x, NEW g,
           GivenBy(q, x, g), ~Gives(q[k], x)
    PROVE  GivenBy(r, x, g)
<1>1. /\ \A j \in 1..Len(r) : Before(j, k) \in 1..Len(q) /\ r[j] = q[Before(j, k)]
      /\ \A i \in 1..Len(q) : i # k => After(i, k) \in 1..Len(r) /\ r[After(i, k)] = q[i]
      /\ \A i \in 1..Len(q), j \in 1..Len(r) : i # k /\ j > After(i, k) => Before(j, k) > i
  BY WithoutPlaces
<1>2. CASE g = AllEmpires /\ \A i \in 1..Len(q) : ~Gives(q[i], x)
  <2>1. \A j \in 1..Len(r) : ~Gives(r[j], x)
    BY <1>1, <1>2
  <2>. QED BY <1>2, <2>1 DEF GivenBy
<1>3. CASE \E i \in 1..Len(q) : /\ Gives(q[i], x) /\ q[i].recipient = g
                                /\ \A j \in 1..Len(q) : j > i => ~Gives(q[j], x)
  <2>1. PICK i \in 1..Len(q) : /\ Gives(q[i], x) /\ q[i].recipient = g
                               /\ \A j \in 1..Len(q) : j > i => ~Gives(q[j], x)
    BY <1>3
  <2>2. i # k
    BY <2>1
  <2>3. After(i, k) \in 1..Len(r) /\ Gives(r[After(i, k)], x) /\ r[After(i, k)].recipient = g
    BY <1>1, <2>1, <2>2
  <2>4. \A j \in 1..Len(r) : j > After(i, k) => ~Gives(r[j], x)
    BY <1>1, <2>1, <2>2
  <2>. QED BY <2>3, <2>4 DEF GivenBy
<1>. QED BY <1>2, <1>3 DEF GivenBy

-----------------------------------------------------------------------------
(* Several orders less: RecindOrders.                                                      *)

(* Of the orders q, those kept of the first i and all that follow.                         *)
Rest(L, q, i) ==
    [j \in 1..(Len(L) + Len(q) - i) |-> IF j <= Len(L) THEN L[j] ELSE q[j - Len(L) + i]]

LEMMA RestTyped ==
    ASSUME NEW L \in Seq(OrderKinds), NEW q \in Seq(OrderKinds), NEW i \in 0..Len(q)
    PROVE  /\ Rest(L, q, i) \in Seq(OrderKinds)
           /\ Len(Rest(L, q, i)) = Len(L) + Len(q) - i
           /\ \A j \in 1..Len(L) + Len(q) - i :
                 Rest(L, q, i)[j] = IF j <= Len(L) THEN L[j] ELSE q[j - Len(L) + i]
<1>. DEFINE m == Len(L) + Len(q) - i
<1>1. Len(L) \in Nat /\ Len(q) \in Nat /\ m \in Nat
  OBVIOUS
<1>2. \A j \in 1..m : (IF j <= Len(L) THEN L[j] ELSE q[j - Len(L) + i]) \in OrderKinds
  <2>. SUFFICES ASSUME NEW j \in 1..m
                PROVE  (IF j <= Len(L) THEN L[j] ELSE q[j - Len(L) + i]) \in OrderKinds
    OBVIOUS
  <2>1. CASE j <= Len(L)
    BY <1>1, <2>1
  <2>2. CASE ~(j <= Len(L))
    <3>1. j - Len(L) + i \in 1..Len(q)
      BY <1>1, <2>2
    <3>. QED BY <2>2, <3>1
  <2>. QED BY <2>1, <2>2
<1>3. Rest(L, q, i) = [j \in 1..m |-> IF j <= Len(L) THEN L[j] ELSE q[j - Len(L) + i]]
  BY DEF Rest
<1>. HIDE DEF m
<1>4. Rest(L, q, i) \in [1..m -> OrderKinds]
  BY <1>2, <1>3
<1>. QED BY <1>1, <1>3, <1>4 DEF m

LEMMA RestOnce ==
    ASSUME NEW L \in Seq(OrderKinds), NEW q \in Seq(OrderKinds)
    PROVE  /\ Rest(<<>>, q, 0) = q
           /\ Rest(L, q, Len(q)) = L
<1>1. Rest(<<>>, q, 0) = q
  <2>1. Len(<<>>) = 0 /\ Len(q) \in Nat /\ q = [j \in 1..Len(q) |-> q[j]]
    OBVIOUS
  <2>2. 1..(Len(<<>>) + Len(q) - 0) = 1..Len(q)
    BY <2>1
  <2>3. \A j \in 1..Len(q) :
           (IF j <= Len(<<>>) THEN <<>>[j] ELSE q[j - Len(<<>>) + 0]) = q[j]
    BY <2>1
  <2>. QED BY <2>1, <2>2, <2>3 DEF Rest
<1>2. Rest(L, q, Len(q)) = L
  <2>1. Len(L) \in Nat /\ Len(q) \in Nat /\ L = [j \in 1..Len(L) |-> L[j]]
    OBVIOUS
  <2>2. 1..(Len(L) + Len(q) - Len(q)) = 1..Len(L)
    BY <2>1
  <2>. QED BY <2>1, <2>2 DEF Rest
<1>. QED BY <1>1, <1>2

LEMMA RestKeep ==
    ASSUME NEW L \in Seq(OrderKinds), NEW q \in Seq(OrderKinds), NEW i \in 0..Len(q) - 1
    PROVE  Rest(Append(L, q[i + 1]), q, i + 1) = Rest(L, q, i)
<1>. DEFINE M == Append(L, q[i + 1])
            m == Len(L) + Len(q) - i
<1>1. /\ Len(L) \in Nat /\ Len(q) \in Nat /\ i + 1 \in 1..Len(q) /\ q[i + 1] \in OrderKinds
      /\ m \in Nat
  OBVIOUS
<1>2. /\ Len(M) = Len(L) + 1
      /\ \A j \in 1..Len(L) : M[j] = L[j]
      /\ M[Len(L) + 1] = q[i + 1]
  BY <1>1, Appended
<1>. HIDE DEF M
<1>3. Len(M) + Len(q) - (i + 1) = m
  BY <1>1, <1>2
<1>4. \A j \in 1..m : (IF j <= Len(M) THEN M[j] ELSE q[j - Len(M) + (i + 1)])
                         = (IF j <= Len(L) THEN L[j] ELSE q[j - Len(L) + i])
  <2>. SUFFICES ASSUME NEW j \in 1..m
                PROVE  (IF j <= Len(M) THEN M[j] ELSE q[j - Len(M) + (i + 1)])
                         = (IF j <= Len(L) THEN L[j] ELSE q[j - Len(L) + i])
    OBVIOUS
  <2>1. CASE j <= Len(L)
    BY <1>1, <1>2, <2>1
  <2>2. CASE j = Len(L) + 1
    <3>1. j - Len(L) + i = i + 1
      BY <1>1, <2>2
    <3>. QED BY <1>1, <1>2, <2>2, <3>1
  <2>3. CASE j > Len(L) + 1
    <3>1. j - Len(M) + (i + 1) = j - Len(L) + i
      BY <1>1, <1>2, <2>3
    <3>. QED BY <1>1, <1>2, <2>3, <3>1
  <2>. QED BY <1>1, <2>1, <2>2, <2>3
<1>. HIDE DEF m
<1>5. Rest(M, q, i + 1) = Rest(L, q, i)
  <2>1. Rest(L, q, i) = [j \in 1..m |-> IF j <= Len(L) THEN L[j] ELSE q[j - Len(L) + i]]
    BY DEF Rest, m
  <2>2. Rest(M, q, i + 1) = [j \in 1..m |-> IF j <= Len(M) THEN M[j] ELSE q[j - Len(M) + (i + 1)]]
    BY <1>3 DEF Rest
  <2>. QED BY <1>4, <2>1, <2>2
<1>. QED BY <1>5 DEF M

LEMMA RestRecind ==
    ASSUME NEW L \in Seq(OrderKinds), NEW q \in Seq(OrderKinds), NEW i \in 0..Len(q) - 1
    PROVE  /\ Without(Rest(L, q, i), Len(L) + 1, Rest(L, q, i + 1))
           /\ Rest(L, q, i)[Len(L) + 1] = q[i + 1]
<1>1. Len(L) \in Nat /\ Len(q) \in Nat /\ i + 1 \in 0..Len(q) /\ i \in 0..Len(q)
  OBVIOUS
<1>. DEFINE a == Rest(L, q, i)
            b == Rest(L, q, i + 1)
<1>2. /\ Len(a) = Len(L) + Len(q) - i
      /\ \A j \in 1..Len(L) + Len(q) - i : a[j] = IF j <= Len(L) THEN L[j] ELSE q[j - Len(L) + i]
  BY <1>1, RestTyped
<1>3. /\ b \in Seq(OrderKinds)
      /\ Len(b) = Len(L) + Len(q) - (i + 1)
      /\ \A j \in 1..Len(L) + Len(q) - (i + 1) :
            b[j] = IF j <= Len(L) THEN L[j] ELSE q[j - Len(L) + (i + 1)]
  BY <1>1, RestTyped
<1>. HIDE DEF a, b
<1>4. a[Len(L) + 1] = q[i + 1]
  <2>1. Len(L) + 1 \in 1..Len(L) + Len(q) - i /\ (Len(L) + 1) - Len(L) + i = i + 1
    BY <1>1
  <2>. QED BY <1>1, <1>2, <2>1
<1>5. \A j \in 1..Len(b) : b[j] = IF j < Len(L) + 1 THEN a[j] ELSE a[j + 1]
  <2>. SUFFICES ASSUME NEW j \in 1..Len(b)
                PROVE  b[j] = IF j < Len(L) + 1 THEN a[j] ELSE a[j + 1]
    OBVIOUS
  <2>1. CASE j <= Len(L)
    <3>1. j \in 1..Len(L) + Len(q) - i /\ j \in 1..Len(L) + Len(q) - (i + 1) /\ j < Len(L) + 1
      BY <1>1, <1>3, <2>1
    <3>. QED BY <1>2, <1>3, <2>1, <3>1
  <2>2. CASE j > Len(L)
    <3>1. /\ j + 1 \in 1..Len(L) + Len(q) - i /\ j \in 1..Len(L) + Len(q) - (i + 1)
          /\ ~(j < Len(L) + 1) /\ ~(j + 1 <= Len(L)) /\ ~(j <= Len(L))
          /\ (j + 1) - Len(L) + i = j - Len(L) + (i + 1)
      BY <1>1, <1>3, <2>2
    <3>2. a[j + 1] = q[(j + 1) - Len(L) + i]
      BY <1>2, <3>1
    <3>3. b[j] = q[j - Len(L) + (i + 1)]
      BY <1>3, <3>1
    <3>. QED BY <3>1, <3>2, <3>3
  <2>. QED BY <1>1, <1>3, <2>1, <2>2
<1>6. Len(L) + 1 \in 1..Len(a) /\ Len(b) = Len(a) - 1
  BY <1>1, <1>2, <1>3
<1>. QED BY <1>3, <1>4, <1>5, <1>6 DEF Without, a, b

(* Orders that are refused leave no mark.                                                  *)
TakesEffect(base, atWar, o) ==
    \/ o.type = "Colonize" \/ o.type = "Give"
    \/ o.type = "Invade" /\ MayInvade(base, atWar, o.empire, o.ship, o.planet)

(* An order that took effect can be undone.                                                *)
LEMMA EffectiveUndoable ==
    ASSUME NEW base, NEW atWar, NEW e, NEW v, NEW q,
           LegalList(base, atWar, e, q), SameBut(base, v),
           ShowsColonizing(v, q), ShowsInvading(base, atWar, v, q),
           NEW k \in 1..Len(q), TakesEffect(base, atWar, q[k])
    PROVE  Undoable(v, q[k])
<1>. DEFINE o == q[k]
<1>1. q \in Seq(OrderKinds) /\ o \in OrderKinds /\ o.empire = e
  BY DEF LegalList
<1>2. CASE o.type = "Colonize"
  <2>1. o.ship \in Ships /\ o.planet \in Planets /\ Colonizes(o, o.ship, o.planet)
    BY <1>1, <1>2, OrderCases DEF Colonizes
  <2>2. v.colonize[o.ship] = o.planet /\ o.planet \in v.aboutColonized
    BY <2>1 DEF ShowsColonizing
  <2>3. o.ship \in v.ships
    BY <1>2 DEF LegalList, MayColonize, OwnedShip, SameBut
  <2>. QED BY <1>2, <2>2, <2>3 DEF Undoable
<1>3. CASE o.type = "Invade"
  <2>1. o.ship \in Ships /\ o.planet \in Planets
    BY <1>1, <1>3, OrderCases
  <2>2. MayInvade(base, atWar, o.empire, o.ship, o.planet)
    BY <1>3 DEF TakesEffect
  <2>3. o.ship \in base.ships /\ Invades(base, atWar, o, o.ship, o.planet)
    BY <1>3, <2>2 DEF MayInvade, OwnedShip, Invades
  <2>4. v.invade[o.ship] = o.planet /\ o.ship \in v.ships
    BY <2>1, <2>3 DEF ShowsInvading, SameBut
  <2>. QED BY <1>3, <2>4 DEF Undoable
<1>4. CASE o.type = "Give"
  <2>1. Owned(base, o.object, o.empire)
    BY <1>1, <1>4 DEF LegalList
  <2>2. Owned(v, o.object, o.empire)
    BY <2>1, SameOwners
  <2>. QED BY <1>4, <2>2 DEF Undoable
<1>. QED BY <1>2, <1>3, <1>4 DEF TakesEffect

(* The orders L are some of the first i of q, and none of those chosen that took effect.    *)
Kept(base, atWar, L, q, i, places) ==
    \A j \in 1..Len(L) : \E k \in 1..i :
       L[j] = q[k] /\ (k \in places => ~TakesEffect(base, atWar, q[k]))

(* The gifts of what is not in G are shown, those of what is in G may have been taken back. *)
ShowsGivingBut(G, v, q) ==
    \A x \in Fleets \cup Planets :
       GivenBy(q, x, v.given[x]) \/ (x \in G /\ v.given[x] = AllEmpires)

RecindingOK(base, atWar, e, G, kept, q, i, places) ==
    /\ kept \in Plans
    /\ SameBut(base, kept.universe)
    /\ LegalList(base, atWar, e, Rest(kept.orders, q, i))
    /\ ShowsColonizing(kept.universe, Rest(kept.orders, q, i))
    /\ ShowsInvading(base, atWar, kept.universe, Rest(kept.orders, q, i))
    /\ ShowsScrapping(base, e, kept.universe, Rest(kept.orders, q, i))
    /\ ShowsGivingBut(G, kept.universe, Rest(kept.orders, q, i))
    /\ Kept(base, atWar, kept.orders, q, i, places)

LEMMA KeepOne ==
    ASSUME NEW base, NEW atWar, NEW e, NEW G, NEW places,
           NEW kept, NEW q \in Seq(OrderKinds), NEW i \in 0..Len(q) - 1,
           RecindingOK(base, atWar, e, G, kept, q, i, places),
           i + 1 \in places => ~TakesEffect(base, atWar, q[i + 1])
    PROVE  RecindingOK(base, atWar, e, G, Plan(kept.universe, Append(kept.orders, q[i + 1])),
                       q, i + 1, places)
<1>. DEFINE L == kept.orders
            v == kept.universe
            M == Append(L, q[i + 1])
            p == Plan(v, M)
<1>1. L \in Seq(OrderKinds) /\ v \in Universes /\ q[i + 1] \in OrderKinds
  BY PlanFields DEF RecindingOK
<1>2. Rest(M, q, i + 1) = Rest(L, q, i)
  BY <1>1, RestKeep
<1>3. M \in Seq(OrderKinds) /\ p \in Plans /\ p.universe = v /\ p.orders = M
  <2>1. M \in Seq(OrderKinds)
    BY <1>1, Appended
  <2>. HIDE DEF M
  <2>. QED BY <1>1, <2>1, PlanTyped
<1>4. Kept(base, atWar, M, q, i + 1, places)
  <2>1. Kept(base, atWar, L, q, i, places)
    BY DEF RecindingOK
  <2>. SUFFICES ASSUME NEW j \in 1..Len(M)
                PROVE  \E k \in 1..i + 1 : M[j] = q[k] /\ (k \in places => ~TakesEffect(base, atWar, q[k]))
    BY DEF Kept
  <2>2. CASE j \in 1..Len(L)
    <3>1. M[j] = L[j]
      BY <1>1, <2>2, Appended
    <3>2. PICK k \in 1..i : L[j] = q[k] /\ (k \in places => ~TakesEffect(base, atWar, q[k]))
      BY <2>1, <2>2 DEF Kept
    <3>3. k \in 1..i + 1
      OBVIOUS
    <3>. QED BY <3>1, <3>2, <3>3
  <2>3. CASE j = Len(L) + 1
    <3>1. M[j] = q[i + 1]
      BY <1>1, <2>3, Appended
    <3>2. i + 1 \in 1..i + 1
      OBVIOUS
    <3>. QED BY <3>1, <3>2
  <2>4. j \in 1..Len(L) \/ j = Len(L) + 1
    BY <1>1, Appended
  <2>. QED BY <2>2, <2>3, <2>4
<1>. HIDE DEF M, p
<1>. QED
  <2>1. RecindingOK(base, atWar, e, G, p, q, i + 1, places)
    BY <1>2, <1>3, <1>4 DEF RecindingOK
  <2>. QED BY <2>1 DEF p, M

LEMMA RecindOne ==
    ASSUME NEW base, Fresh(base), NEW atWar, NEW e \in Empires, NEW G, NEW places,
           NEW kept, NEW q \in Seq(OrderKinds), NEW i \in 0..Len(q) - 1,
           RecindingOK(base, atWar, e, G, kept, q, i, places),
           Undoable(kept.universe, q[i + 1]),
           q[i + 1].type = "Give" => q[i + 1].object \in G
    PROVE  RecindingOK(base, atWar, e, G, Plan(Undone(kept.universe, q[i + 1]), kept.orders),
                       q, i + 1, places)
<1>. DEFINE L == kept.orders
            v == kept.universe
            o == q[i + 1]
            w == Undone(v, o)
            a == Rest(L, q, i)
            b == Rest(L, q, i + 1)
            k == Len(L) + 1
            p == Plan(w, L)
<1>1. L \in Seq(OrderKinds) /\ v \in Universes /\ o \in OrderKinds
  BY PlanFields DEF RecindingOK
<1>2. Without(a, k, b) /\ a[k] = o
  BY <1>1, RestRecind
<1>3. /\ SameBut(base, v) /\ LegalList(base, atWar, e, a)
      /\ ShowsColonizing(v, a) /\ ShowsInvading(base, atWar, v, a)
      /\ ShowsScrapping(base, e, v, a) /\ ShowsGivingBut(G, v, a)
      /\ Kept(base, atWar, L, q, i, places)
  BY DEF RecindingOK
<1>4. SameBut(base, w) /\ w \in Universes
  BY <1>1, <1>3, UndoneSameBut DEF SameBut
<1>5. p \in Plans /\ p.universe = w /\ p.orders = L
  BY <1>1, <1>4, PlanTyped
<1>6. Undoable(v, a[k]) /\ w = Undone(v, a[k])
  BY <1>2
<1>. HIDE DEF a, b, k, p
<1>7. LegalList(base, atWar, e, b)
  BY <1>2, <1>3, WithoutLegal
<1>8. ShowsColonizing(w, b)
  BY <1>1, <1>2, <1>3, <1>6, RecindColonize
<1>9. ShowsInvading(base, atWar, w, b)
  BY <1>2, <1>3, <1>6, RecindInvade
<1>10. ShowsScrapping(base, e, w, b)
  BY <1>2, <1>3, <1>6, RecindScrap
<1>11. ShowsGivingBut(G, w, b)
  <2>. SUFFICES ASSUME NEW x \in Fleets \cup Planets
                PROVE  GivenBy(b, x, w.given[x]) \/ (x \in G /\ w.given[x] = AllEmpires)
    BY DEF ShowsGivingBut
  <2>1. CASE Gives(o, x)
    <3>1. w.given = [v.given EXCEPT ![x] = AllEmpires]
      BY <1>1, <2>1 DEF Gives, Undone, Universes
    <3>2. w.given[x] = AllEmpires
      BY <1>1, <3>1 DEF Universes
    <3>. QED BY <2>1, <3>2 DEF Gives
  <2>2. CASE ~Gives(o, x)
    <3>1. w.given[x] = v.given[x]
      <4>1. CASE o.type = "Give"
        <5>1. w.given = [v.given EXCEPT ![o.object] = AllEmpires] /\ o.object # x
          BY <1>1, <2>2, <4>1 DEF Gives, Undone, Universes
        <5>. HIDE DEF w
        <5>. QED BY <1>1, <5>1 DEF Universes
      <4>2. CASE o.type # "Give"
        BY <1>1, <4>2, UndoneLeaves
      <4>. QED BY <4>1, <4>2
    <3>. HIDE DEF w
    <3>2. CASE GivenBy(a, x, v.given[x])
      <4>1. a \in Seq(OrderKinds)
        BY <1>3 DEF LegalList
      <4>2. ~Gives(a[k], x)
        BY <1>2, <2>2
      <4>3. GivenBy(b, x, v.given[x])
        BY <1>2, <3>2, <4>1, <4>2, RecindGive
      <4>. QED BY <3>1, <4>3
    <3>3. CASE x \in G /\ v.given[x] = AllEmpires
      BY <3>1, <3>3
    <3>. QED BY <1>3, <3>2, <3>3 DEF ShowsGivingBut
  <2>. QED BY <2>1, <2>2
<1>12. Kept(base, atWar, L, q, i + 1, places)
  <2>1. 1..i \subseteq 1..i + 1
    OBVIOUS
  <2>. QED BY <1>3, <2>1 DEF Kept
<1>. HIDE DEF L, w
<1>13. RecindingOK(base, atWar, e, G, p, q, i + 1, places)
  BY <1>4, <1>5, <1>7, <1>8, <1>9, <1>10, <1>11, <1>12 DEF RecindingOK, b
<1>. QED BY <1>13 DEF p, w, o, L, v

(* Everything that RecindOrders leaves: a plan in order, whose orders are some of those     *)
(* that there were, none of the chosen ones that took effect. Either all orders to give an  *)
(* object away are chosen or none is.                                                       *)
RecindKept(base, atWar, p, places) ==
    \A j \in 1..Len(RecindOrders(p, places).orders) : \E k \in 1..Len(p.orders) :
       /\ RecindOrders(p, places).orders[j] = p.orders[k]
       /\ k \in places => ~TakesEffect(base, atWar, p.orders[k])

LEMMA RecindKeeps ==
    ASSUME NEW base, Fresh(base), NEW atWar, NEW e \in Empires, NEW G, NEW places,
           NEW p \in Plans, PlanOK(base, atWar, e, p),
           \A j \in 1..Len(p.orders) :
              p.orders[j].type = "Give" => (j \in places <=> p.orders[j].object \in G)
    PROVE  /\ RecindOrders(p, places) \in Plans
           /\ PlanOK(base, atWar, e, RecindOrders(p, places))
           /\ RecindKept(base, atWar, p, places)
<1>. DEFINE q == p.orders
            n == Len(q)
<1>1. q \in Seq(OrderKinds) /\ n \in Nat /\ p.universe \in Universes
  BY PlanFields
<1>2. PICK f : RecindsOrders(f, p, places)
  BY RecindOrdersIterates
<1>3. /\ f[0] = Plan(p.universe, <<>>)
      /\ \A i \in 1..n : f[i] = RecindOrder(f[i - 1], q, i, places)
      /\ RecindOrders(p, places) = f[n]
  BY <1>2 DEF RecindsOrders
<1>. HIDE DEF n
<1>. DEFINE T == {i \in 0..n : RecindingOK(base, atWar, e, G, f[i], q, i, places)}
<1>4. 0 \in T
  <2>1. <<>> \in Seq(OrderKinds) /\ Len(<<>>) = 0 /\ Rest(<<>>, q, 0) = q
    BY <1>1, RestOnce
  <2>2. f[0] \in Plans /\ f[0].universe = p.universe /\ f[0].orders = <<>>
    <3>. DEFINE none == <<>>
    <3>1. f[0] = Plan(p.universe, none) /\ none \in Seq(OrderKinds)
      BY <1>3, <2>1
    <3>. HIDE DEF none
    <3>2. f[0] \in Plans /\ f[0].universe = p.universe /\ f[0].orders = none
      BY <1>1, <3>1, PlanTyped
    <3>. QED BY <3>2 DEF none
  <2>3. /\ SameBut(base, p.universe) /\ LegalList(base, atWar, e, q)
        /\ ShowsColonizing(p.universe, q) /\ ShowsInvading(base, atWar, p.universe, q)
        /\ ShowsScrapping(base, e, p.universe, q) /\ ShowsGivingBut(G, p.universe, q)
    BY DEF PlanOK, Reflects, ShowsGiving, ShowsGivingBut
  <2>4. Kept(base, atWar, <<>>, q, 0, places)
    BY <2>1 DEF Kept
  <2>. HIDE DEF q
  <2>5. RecindingOK(base, atWar, e, G, f[0], q, 0, places)
    BY <2>1, <2>2, <2>3, <2>4 DEF RecindingOK
  <2>. QED BY <1>1, <2>5
<1>5. ASSUME NEW i \in 0..n - 1, i \in T PROVE i + 1 \in T
  <2>1. i + 1 \in 1..n /\ i + 1 \in 0..n /\ i \in 0..Len(q) - 1
    BY <1>1 DEF n
  <2>2. f[i + 1] = RecindOrder(f[i], q, i + 1, places)
    BY <1>3, <2>1
  <2>3. RecindingOK(base, atWar, e, G, f[i], q, i, places)
    BY <1>5
  <2>4. q[i + 1].type = "Give" => (i + 1 \in places <=> q[i + 1].object \in G)
    BY <2>1 DEF n
  <2>5. q \in Seq(OrderKinds)
    BY <1>1
  <2>. HIDE DEF q
  <2>6. CASE i + 1 \in places /\ Undoable(f[i].universe, q[i + 1])
    <3>1. RecindingOK(base, atWar, e, G, Plan(Undone(f[i].universe, q[i + 1]), f[i].orders),
                      q, i + 1, places)
      BY <2>1, <2>3, <2>4, <2>5, <2>6, RecindOne
    <3>2. f[i + 1] = Plan(Undone(f[i].universe, q[i + 1]), f[i].orders)
      BY <2>2, <2>6 DEF RecindOrder
    <3>. QED BY <2>1, <3>1, <3>2
  <2>7. CASE ~(i + 1 \in places /\ Undoable(f[i].universe, q[i + 1]))
    <3>1. i + 1 \in places => ~TakesEffect(base, atWar, q[i + 1])
      <4>. SUFFICES ASSUME i + 1 \in places, TakesEffect(base, atWar, q[i + 1]) PROVE FALSE
        OBVIOUS
      <4>. DEFINE L == f[i].orders
                  v == f[i].universe
                  a == Rest(L, q, i)
                  k == Len(L) + 1
      <4>1. L \in Seq(OrderKinds) /\ LegalList(base, atWar, e, a) /\ SameBut(base, v)
            /\ ShowsColonizing(v, a) /\ ShowsInvading(base, atWar, v, a)
        BY <2>3, PlanFields DEF RecindingOK
      <4>2. a[k] = q[i + 1] /\ k \in 1..Len(a)
        BY <2>1, <2>5, <4>1, RestRecind DEF Without
      <4>. HIDE DEF L, v, a, k
      <4>3. Undoable(v, a[k])
        BY <4>1, <4>2, EffectiveUndoable
      <4>. QED BY <2>7, <4>2, <4>3 DEF v
    <3>2. RecindingOK(base, atWar, e, G, Plan(f[i].universe, Append(f[i].orders, q[i + 1])),
                      q, i + 1, places)
      BY <2>1, <2>3, <2>5, <3>1, KeepOne
    <3>3. f[i + 1] = Plan(f[i].universe, Append(f[i].orders, q[i + 1]))
      BY <2>2, <2>7 DEF RecindOrder
    <3>. QED BY <2>1, <3>2, <3>3
  <2>. QED BY <2>6, <2>7
<1>6. n \in T
  <2>. HIDE DEF T
  <2>1. 0..n \subseteq T
    BY <1>1, <1>4, <1>5, NatSetInduction
  <2>. QED BY <1>1, <2>1
<1>. DEFINE r == RecindOrders(p, places)
<1>7. RecindingOK(base, atWar, e, G, r, q, n, places)
  BY <1>3, <1>6
<1>. HIDE DEF r, T
<1>8. r \in Plans /\ r.universe \in Universes /\ r.orders \in Seq(OrderKinds)
  BY <1>7, PlanFields DEF RecindingOK
<1>9. Rest(r.orders, q, n) = r.orders
  BY <1>1, <1>8, RestOnce DEF n
<1>10. /\ SameBut(base, r.universe)
       /\ LegalList(base, atWar, e, r.orders)
       /\ ShowsColonizing(r.universe, r.orders)
       /\ ShowsInvading(base, atWar, r.universe, r.orders)
       /\ ShowsScrapping(base, e, r.universe, r.orders)
       /\ ShowsGivingBut(G, r.universe, r.orders)
       /\ Kept(base, atWar, r.orders, q, n, places)
  BY <1>7, <1>9 DEF RecindingOK
<1>11. ShowsGiving(r.universe, r.orders)
  <2>. SUFFICES ASSUME NEW x \in Fleets \cup Planets, x \in G, r.universe.given[x] = AllEmpires
                PROVE  GivenBy(r.orders, x, r.universe.given[x])
    BY <1>10 DEF ShowsGiving, ShowsGivingBut
  <2>1. \A j \in 1..Len(r.orders) : ~Gives(r.orders[j], x)
    <3>. SUFFICES ASSUME NEW j \in 1..Len(r.orders), Gives(r.orders[j], x) PROVE FALSE
      OBVIOUS
    <3>1. PICK k \in 1..n : /\ r.orders[j] = q[k]
                            /\ k \in places => ~TakesEffect(base, atWar, q[k])
      BY <1>10 DEF Kept
    <3>2. q[k].type = "Give" /\ q[k].object = x
      BY <3>1 DEF Gives
    <3>3. k \in places
      BY <3>2 DEF n
    <3>. QED BY <3>1, <3>2, <3>3 DEF TakesEffect
  <2>. QED BY <2>1 DEF GivenBy
<1>12. PlanOK(base, atWar, e, r)
  BY <1>10, <1>11 DEF PlanOK, Reflects
<1>13. RecindKept(base, atWar, p, places)
  BY <1>10 DEF Kept, RecindKept, r, n
<1>. QED BY <1>8, <1>12, <1>13 DEF r

-----------------------------------------------------------------------------
(* What each click does to a player's plan.                                                 *)

(* Ship s has been ordered nothing that shows but being scrapped or given.                   *)
Unordered(base, atWar, q, s) ==
    \A i \in 1..Len(q) :
       /\ ~(q[i].type = "Colonize" /\ q[i].ship = s)
       /\ \A p \in Planets : ~Invades(base, atWar, q[i], s, p)

(* The orders r are some of q.                                                               *)
SomeOf(r, q) == \A j \in 1..Len(r) : \E k \in 1..Len(q) : r[j] = q[k]

LEMMA CancelKeeps ==
    ASSUME NEW base, Fresh(base), NEW atWar, NEW e \in Empires, NEW s \in Ships,
           NEW p \in Plans, PlanOK(base, atWar, e, p)
    PROVE  /\ CancelShipOrders(p, s) \in Plans
           /\ PlanOK(base, atWar, e, CancelShipOrders(p, s))
           /\ Unordered(base, atWar, CancelShipOrders(p, s).orders, s)
           /\ SomeOf(CancelShipOrders(p, s).orders, p.orders)
<1>. DEFINE q == p.orders
            u == p.universe
            places == {i \in DOMAIN q : q[i].type # "Give" /\ q[i].ship = s /\ Shows(u, s, q[i].type)}
            r == RecindOrders(p, places)
<1>1. /\ CancelShipOrders(p, s) = r
      /\ q \in Seq(OrderKinds) /\ DOMAIN q = 1..Len(q)
  BY PlanFields DEF CancelShipOrders, PlacesOf
<1>2. \A j \in 1..Len(q) : q[j].type = "Give" => (j \in places <=> q[j].object \in {})
  OBVIOUS
<1>3. \A k \in 1..Len(q) : k \notin places =>
         \/ q[k].type = "Give" \/ q[k].ship # s \/ ~Shows(u, s, q[k].type)
  BY <1>1
<1>. HIDE DEF places
<1>4. r \in Plans /\ PlanOK(base, atWar, e, r) /\ RecindKept(base, atWar, p, places)
  <2>. HIDE DEF r
  <2>1. \E G : \A j \in 1..Len(p.orders) :
                 p.orders[j].type = "Give" => (j \in places <=> p.orders[j].object \in G)
    BY <1>2
  <2>. QED BY <2>1, RecindKeeps DEF r
<1>. HIDE DEF r
<1>5. /\ SameBut(base, u) /\ LegalList(base, atWar, e, q)
      /\ ShowsColonizing(u, q) /\ ShowsInvading(base, atWar, u, q)
  BY DEF PlanOK, Reflects
<1>6. ASSUME NEW j \in 1..Len(r.orders)
      PROVE  /\ ~(r.orders[j].type = "Colonize" /\ r.orders[j].ship = s)
             /\ \A x \in Planets : ~Invades(base, atWar, r.orders[j], s, x)
             /\ \E k \in 1..Len(q) : r.orders[j] = q[k]
  <2>1. PICK k \in 1..Len(q) : /\ r.orders[j] = q[k]
                               /\ k \in places => ~TakesEffect(base, atWar, q[k])
    BY <1>4 DEF RecindKept, r
  <2>2. q[k] \in OrderKinds
    BY <1>1
  <2>3. ~(q[k].type = "Colonize" /\ q[k].ship = s)
    <3>. SUFFICES ASSUME q[k].type = "Colonize", q[k].ship = s PROVE FALSE
      OBVIOUS
    <3>1. q[k].planet \in Planets /\ Colonizes(q[k], s, q[k].planet)
      BY <2>2, OrderCases DEF Colonizes
    <3>2. u.colonize[s] = q[k].planet
      BY <1>5, <3>1 DEF ShowsColonizing
    <3>3. Shows(u, s, q[k].type)
      BY <3>1, <3>2, NoPlanetNone DEF Shows
    <3>. QED BY <1>3, <2>1, <3>3 DEF TakesEffect
  <2>4. ASSUME NEW x \in Planets, Invades(base, atWar, q[k], s, x) PROVE FALSE
    <3>1. s \in base.ships /\ q[k].type = "Invade" /\ q[k].ship = s /\ q[k].planet = x
          /\ MayInvade(base, atWar, q[k].empire, s, x)
      BY <2>4 DEF Invades, MayInvade, OwnedShip
    <3>2. u.invade[s] = x
      BY <1>5, <2>4, <3>1 DEF ShowsInvading
    <3>3. Shows(u, s, q[k].type)
      BY <3>1, <3>2, NoPlanetNone DEF Shows
    <3>. QED BY <1>3, <2>1, <3>1, <3>3 DEF TakesEffect
  <2>. QED BY <2>1, <2>3, <2>4
<1>. QED BY <1>1, <1>4, <1>6 DEF Unordered, SomeOf

(* An order that keeps a list of orders legal keeps a plan in order.                         *)
LEMMA IssueKeeps ==
    ASSUME NEW base, Fresh(base), NEW atWar, NEW e \in Empires, NEW o \in OrderKinds,
           NEW p \in Plans, PlanOK(base, atWar, e, p),
           LegalList(base, atWar, e, Append(p.orders, o))
    PROVE  /\ IssueOrder(p, atWar, o) \in Plans
           /\ PlanOK(base, atWar, e, IssueOrder(p, atWar, o))
<1>. DEFINE q == p.orders
            r == Append(q, o)
            w == Execute(p.universe, atWar, o)
<1>1. q \in Seq(OrderKinds) /\ p.universe \in Universes
  BY PlanFields
<1>2. r \in Seq(OrderKinds)
  BY <1>1, Appended
<1>3. Reflects(base, atWar, e, w, r)
  BY <1>1, IssueReflects DEF PlanOK
<1>4. w \in Universes
  BY <1>3 DEF Reflects, SameBut
<1>5. IssueOrder(p, atWar, o) = Plan(w, r)
  BY DEF IssueOrder
<1>. HIDE DEF r, w
<1>6. /\ Plan(w, r) \in Plans
      /\ Plan(w, r).universe = w /\ Plan(w, r).orders = r
  BY <1>2, <1>4, PlanTyped
<1>. QED BY <1>3, <1>5, <1>6 DEF PlanOK, r

LEMMA LegalAppend ==
    ASSUME NEW base, NEW atWar, NEW e \in Empires, NEW q, LegalList(base, atWar, e, q),
           NEW o \in OrderKinds, o.empire = e,
           o.type = "Colonize" =>
              /\ MayColonize(base, e, o.ship, o.planet)
              /\ \A i \in 1..Len(q) : q[i].type = "Colonize" => q[i].planet # o.planet,
           o.type = "Give" => Owned(base, o.object, e),
           o.type \in {"Colonize", "Invade"} => Unordered(base, atWar, q, o.ship)
    PROVE  LegalList(base, atWar, e, Append(q, o))
<1>. DEFINE r == Append(q, o)
            n == Len(q)
<1>1. q \in Seq(OrderKinds)
  BY DEF LegalList
<1>2. /\ r \in Seq(OrderKinds) /\ n \in Nat /\ Len(r) = n + 1
      /\ \A i \in 1..n : i \in 1..n + 1 /\ r[i] = q[i]
      /\ r[n + 1] = o
      /\ \A i \in 1..n + 1 : i \in 1..n \/ i = n + 1
  BY <1>1, Appended
<1>. HIDE DEF r
<1>3. /\ \A i \in 1..Len(r) : r[i].empire = e
      /\ \A i \in 1..Len(r) :
            r[i].type = "Colonize" => MayColonize(base, e, r[i].ship, r[i].planet)
      /\ \A i \in 1..Len(r) : r[i].type = "Give" => Owned(base, r[i].object, e)
  BY <1>2 DEF LegalList
<1>4. ASSUME NEW i \in 1..Len(r), NEW j \in 1..Len(r),
             r[i].type = "Colonize" /\ r[j].type = "Colonize",
             r[i].ship = r[j].ship \/ r[i].planet = r[j].planet
      PROVE  i = j
  <2>1. CASE i \in 1..n /\ j \in 1..n
    BY <1>2, <1>4, <2>1 DEF LegalList
  <2>2. CASE i = n + 1 \/ j = n + 1
    <3>1. \A k \in 1..n : o.type = "Colonize" /\ q[k].type = "Colonize" =>
             q[k].ship # o.ship /\ q[k].planet # o.planet
      BY DEF Unordered
    <3>. QED BY <1>2, <1>4, <2>2, <3>1
  <2>. QED BY <1>2, <2>1, <2>2
<1>5. ASSUME NEW i \in 1..Len(r), NEW j \in 1..Len(r), NEW s \in Ships,
             NEW p \in Planets, NEW t \in Planets,
             Invades(base, atWar, r[i], s, p), Invades(base, atWar, r[j], s, t)
      PROVE  i = j
  <2>1. CASE i \in 1..n /\ j \in 1..n
    BY <1>2, <1>5, <2>1 DEF LegalList
  <2>2. ASSUME NEW k \in 1..n, NEW x \in Planets, NEW y \in Planets,
               Invades(base, atWar, q[k], s, x), Invades(base, atWar, o, s, y)
        PROVE  FALSE
    BY <2>2 DEF Invades, Unordered
  <2>3. CASE i = n + 1 \/ j = n + 1
    BY <1>2, <1>5, <2>2, <2>3
  <2>. QED BY <1>2, <2>1, <2>3
<1>6. ASSUME NEW i \in 1..Len(r), NEW j \in 1..Len(r), NEW s \in Ships, NEW p \in Planets,
             r[i].type = "Colonize", r[i].ship = s, Invades(base, atWar, r[j], s, p)
      PROVE  FALSE
  <2>1. r[j].type = "Invade" /\ r[j].ship = s
    BY <1>6 DEF Invades
  <2>2. CASE i \in 1..n /\ j \in 1..n
    <3>1. OneTask(base, atWar, q)
      BY DEF LegalList
    <3>. QED BY <1>2, <1>6, <2>2, <3>1 DEF OneTask
  <2>3. CASE i = n + 1 \/ j = n + 1
    <3>1. o.type \in {"Colonize", "Invade"} /\ o.ship = s
      BY <1>2, <1>6, <2>1, <2>3
    <3>2. Unordered(base, atWar, q, s)
      BY <3>1
    <3>3. CASE i = n + 1 /\ j = n + 1
      BY <1>2, <1>6, <2>1, <3>3
    <3>4. CASE i = n + 1 /\ j \in 1..n
      BY <1>2, <1>6, <3>2, <3>4 DEF Unordered
    <3>5. CASE i \in 1..n /\ j = n + 1
      BY <1>2, <1>6, <3>2, <3>5 DEF Unordered
    <3>. QED BY <1>2, <2>3, <3>3, <3>4, <3>5
  <2>. QED BY <1>2, <2>2, <2>3
<1>7. OneTask(base, atWar, r)
  BY <1>6 DEF OneTask
<1>8. LegalList(base, atWar, e, r)
  BY <1>2, <1>3, <1>4, <1>5, <1>7 DEF LegalList
<1>. QED BY <1>8 DEF r

(* Taking back orders none of which gives anything away.                                     *)
LEMMA RecindNoGift ==
    ASSUME NEW base, Fresh(base), NEW atWar, NEW e \in Empires, NEW places,
           NEW p \in Plans, PlanOK(base, atWar, e, p),
           \A j \in 1..Len(p.orders) : j \in places => p.orders[j].type # "Give"
    PROVE  /\ RecindOrders(p, places) \in Plans
           /\ PlanOK(base, atWar, e, RecindOrders(p, places))
<1>. DEFINE G == {}
<1>1. \A j \in 1..Len(p.orders) :
         p.orders[j].type = "Give" => (j \in places <=> p.orders[j].object \in G)
  OBVIOUS
<1>. HIDE DEF G
<1>. QED BY <1>1, RecindKeeps

LEMMA ColonizeKeeps ==
    ASSUME NEW base, Fresh(base), NEW atWar, NEW e \in Empires,
           NEW s \in Ships, NEW x \in Planets,
           NEW p \in Plans, PlanOK(base, atWar, e, p),
           MayColonize(p.universe, e, s, x),
           \A i \in 1..Len(p.orders) : ~(p.orders[i].type = "Colonize" /\ p.orders[i].planet = x)
    PROVE  /\ IssueOrder(CancelShipOrders(p, s), atWar, ColonizeOrder(e, s, x)) \in Plans
           /\ PlanOK(base, atWar, e,
                     IssueOrder(CancelShipOrders(p, s), atWar, ColonizeOrder(e, s, x)))
<1>. DEFINE c == CancelShipOrders(p, s)
            o == ColonizeOrder(e, s, x)
<1>1. /\ c \in Plans /\ PlanOK(base, atWar, e, c)
      /\ Unordered(base, atWar, c.orders, s) /\ SomeOf(c.orders, p.orders)
  BY CancelKeeps
<1>. HIDE DEF c
<1>2. /\ o \in OrderKinds
      /\ o.type = "Colonize" /\ o.empire = e /\ o.ship = s /\ o.planet = x
  BY OrdersTyped DEF ColonizeOrder
<1>. HIDE DEF o
<1>3. MayColonize(base, e, s, x)
  <2>1. SameBut(base, p.universe) /\ base.aboutColonized = {}
    BY DEF PlanOK, Reflects, Fresh
  <2>. QED BY <2>1 DEF MayColonize, OwnedShip, SameBut
<1>4. \A i \in 1..Len(c.orders) : c.orders[i].type = "Colonize" => c.orders[i].planet # x
  BY <1>1 DEF SomeOf
<1>5. LegalList(base, atWar, e, c.orders)
  BY <1>1 DEF PlanOK
<1>6. LegalList(base, atWar, e, Append(c.orders, o))
  BY <1>1, <1>2, <1>3, <1>4, <1>5, LegalAppend
<1>7. IssueOrder(c, atWar, o) \in Plans /\ PlanOK(base, atWar, e, IssueOrder(c, atWar, o))
  BY <1>1, <1>2, <1>6, IssueKeeps
<1>. QED BY <1>7 DEF c, o

LEMMA InvadeKeeps ==
    ASSUME NEW base, Fresh(base), NEW atWar, NEW e \in Empires,
           NEW s \in Ships, NEW x \in Planets,
           NEW p \in Plans, PlanOK(base, atWar, e, p)
    PROVE  /\ IssueOrder(CancelShipOrders(p, s), atWar, InvadeOrder(e, s, x)) \in Plans
           /\ PlanOK(base, atWar, e,
                     IssueOrder(CancelShipOrders(p, s), atWar, InvadeOrder(e, s, x)))
<1>. DEFINE c == CancelShipOrders(p, s)
            o == InvadeOrder(e, s, x)
<1>1. c \in Plans /\ PlanOK(base, atWar, e, c) /\ Unordered(base, atWar, c.orders, s)
  BY CancelKeeps
<1>. HIDE DEF c
<1>2. /\ o \in OrderKinds
      /\ o.type = "Invade" /\ o.empire = e /\ o.ship = s
  BY OrdersTyped DEF InvadeOrder
<1>. HIDE DEF o
<1>3. LegalList(base, atWar, e, c.orders)
  BY <1>1 DEF PlanOK
<1>4. LegalList(base, atWar, e, Append(c.orders, o))
  BY <1>1, <1>2, <1>3, LegalAppend
<1>5. IssueOrder(c, atWar, o) \in Plans /\ PlanOK(base, atWar, e, IssueOrder(c, atWar, o))
  BY <1>1, <1>2, <1>4, IssueKeeps
<1>. QED BY <1>5 DEF c, o

LEMMA ScrapKeeps ==
    ASSUME NEW base, Fresh(base), NEW atWar, NEW e \in Empires, NEW s \in Ships,
           NEW p \in Plans, PlanOK(base, atWar, e, p)
    PROVE  /\ IssueOrder(p, atWar, ScrapOrder(e, s)) \in Plans
           /\ PlanOK(base, atWar, e, IssueOrder(p, atWar, ScrapOrder(e, s)))
<1>. DEFINE o == ScrapOrder(e, s)
<1>1. o \in OrderKinds /\ o.type = "Scrap" /\ o.empire = e
  BY OrdersTyped DEF ScrapOrder
<1>. HIDE DEF o
<1>2. LegalList(base, atWar, e, p.orders)
  BY DEF PlanOK
<1>3. LegalList(base, atWar, e, Append(p.orders, o))
  BY <1>1, <1>2, LegalAppend
<1>4. IssueOrder(p, atWar, o) \in Plans /\ PlanOK(base, atWar, e, IssueOrder(p, atWar, o))
  BY <1>1, <1>3, IssueKeeps
<1>. QED BY <1>4 DEF o

LEMMA GiveKeeps ==
    ASSUME NEW base, Fresh(base), NEW atWar, NEW e \in Empires,
           NEW x \in Fleets \cup Planets, NEW r \in Empires,
           NEW p \in Plans, PlanOK(base, atWar, e, p), Owned(p.universe, x, e)
    PROVE  /\ IssueOrder(p, atWar, GiveObjectToEmpireOrder(e, x, r)) \in Plans
           /\ PlanOK(base, atWar, e, IssueOrder(p, atWar, GiveObjectToEmpireOrder(e, x, r)))
<1>. DEFINE o == GiveObjectToEmpireOrder(e, x, r)
<1>1. o \in OrderKinds /\ o.type = "Give" /\ o.empire = e /\ o.object = x
  BY OrdersTyped DEF GiveObjectToEmpireOrder
<1>. HIDE DEF o
<1>2. LegalList(base, atWar, e, p.orders) /\ SameBut(base, p.universe)
  BY DEF PlanOK, Reflects
<1>3. Owned(base, x, e)
  BY <1>2, SameOwners
<1>4. LegalList(base, atWar, e, Append(p.orders, o))
  BY <1>1, <1>2, <1>3, LegalAppend
<1>5. IssueOrder(p, atWar, o) \in Plans /\ PlanOK(base, atWar, e, IssueOrder(p, atWar, o))
  BY <1>1, <1>4, IssueKeeps
<1>. QED BY <1>5 DEF o

(* All orders to give x away are taken back, whatever their recipients.                      *)
LEMMA CancelGiveKeeps ==
    ASSUME NEW base, Fresh(base), NEW atWar, NEW e \in Empires, NEW x, NEW places,
           NEW p \in Plans, PlanOK(base, atWar, e, p),
           \A j \in 1..Len(p.orders) : j \in places <=> Gives(p.orders[j], x)
    PROVE  /\ RecindOrders(p, places) \in Plans
           /\ PlanOK(base, atWar, e, RecindOrders(p, places))
<1>. DEFINE G == {x}
<1>1. \A j \in 1..Len(p.orders) :
         p.orders[j].type = "Give" => (j \in places <=> p.orders[j].object \in G)
  BY DEF Gives
<1>. HIDE DEF G
<1>. QED BY <1>1, RecindKeeps

LEMMA SetToSeqTyped ==
    ASSUME NEW S \in SUBSET Ships
    PROVE  SetToSeq(S) \in Seq(Ships)
<1>1. IsFiniteSet(S)
  BY OrdersAssumption, FS_Subset
<1>2. Cardinality(S) \in Nat /\ ExistsBijection(1..Cardinality(S), S)
  BY <1>1, FS_CardinalityType
<1>3. \E f \in [1..Cardinality(S) -> S] : IsInjective(f)
  BY <1>2 DEF ExistsBijection, Bijection, Injection, IsInjective
<1>4. SetToSeq(S) \in [1..Cardinality(S) -> S]
  BY <1>3 DEF SetToSeq
<1>5. SetToSeq(S) \in [1..Cardinality(S) -> Ships]
  BY <1>4
<1>. QED BY <1>2, <1>5

LEMMA OrderInvasionKeeps ==
    ASSUME NEW base, Fresh(base), NEW e \in Empires, NEW x \in Planets,
           NEW p \in Plans, PlanOK(base, war, e, p), NEW ships \in Seq(Ships)
    PROVE  /\ OrderInvasion(p, e, ships, x) \in Plans
           /\ PlanOK(base, war, e, OrderInvasion(p, e, ships, x))
<1>. DEFINE n == Len(ships)
<1>1. n \in Nat /\ \A i \in 1..n : ships[i] \in Ships
  OBVIOUS
<1>2. PICK f : OrdersInvasion(f, p, e, ships, x)
  BY OrderInvasionIterates
<1>3. /\ f \in [0..n -> Plans] /\ f[0] = p
      /\ \A i \in 1..n : f[i] = IssueOrder(CancelShipOrders(f[i - 1], ships[i]), war,
                                           InvadeOrder(e, ships[i], x))
      /\ OrderInvasion(p, e, ships, x) = f[n]
  BY <1>2 DEF OrdersInvasion
<1>. HIDE DEF n
<1>. DEFINE T == {i \in 0..n : PlanOK(base, war, e, f[i])}
<1>4. 0 \in T
  BY <1>1, <1>3
<1>5. ASSUME NEW i \in 0..n - 1, i \in T PROVE i + 1 \in T
  <2>1. /\ i + 1 \in 1..n /\ i + 1 \in 0..n /\ ships[i + 1] \in Ships /\ f[i] \in Plans
        /\ PlanOK(base, war, e, f[i])
    BY <1>1, <1>3, <1>5
  <2>2. f[i + 1] = IssueOrder(CancelShipOrders(f[i], ships[i + 1]), war,
                              InvadeOrder(e, ships[i + 1], x))
    BY <1>3, <2>1
  <2>3. PlanOK(base, war, e, f[i + 1])
    BY <2>1, <2>2, InvadeKeeps
  <2>. QED BY <2>1, <2>3
<1>6. n \in T
  <2>. HIDE DEF T
  <2>1. 0..n \subseteq T
    BY <1>1, <1>4, <1>5, NatSetInduction
  <2>. QED BY <1>1, <2>1
<1>. QED BY <1>1, <1>3, <1>6

LEMMA OrderScrappingKeeps ==
    ASSUME NEW base, Fresh(base), NEW e \in Empires,
           NEW p \in Plans, PlanOK(base, war, e, p), NEW ships \in Seq(Ships)
    PROVE  /\ OrderScrapping(p, e, ships) \in Plans
           /\ PlanOK(base, war, e, OrderScrapping(p, e, ships))
<1>. DEFINE n == Len(ships)
<1>1. n \in Nat /\ \A i \in 1..n : ships[i] \in Ships
  OBVIOUS
<1>2. PICK f : OrdersScrapping(f, p, e, ships)
  BY OrderScrappingIterates
<1>3. /\ f \in [0..n -> Plans] /\ f[0] = p
      /\ \A i \in 1..n : f[i] = IssueOrder(f[i - 1], war, ScrapOrder(e, ships[i]))
      /\ OrderScrapping(p, e, ships) = f[n]
  BY <1>2 DEF OrdersScrapping
<1>. HIDE DEF n
<1>. DEFINE T == {i \in 0..n : PlanOK(base, war, e, f[i])}
<1>4. 0 \in T
  BY <1>1, <1>3
<1>5. ASSUME NEW i \in 0..n - 1, i \in T PROVE i + 1 \in T
  <2>1. /\ i + 1 \in 1..n /\ i + 1 \in 0..n /\ ships[i + 1] \in Ships /\ f[i] \in Plans
        /\ PlanOK(base, war, e, f[i])
    BY <1>1, <1>3, <1>5
  <2>2. f[i + 1] = IssueOrder(f[i], war, ScrapOrder(e, ships[i + 1]))
    BY <1>3, <2>1
  <2>3. PlanOK(base, war, e, f[i + 1])
    BY <2>1, <2>2, ScrapKeeps
  <2>. QED BY <2>1, <2>3
<1>6. n \in T
  <2>. HIDE DEF T
  <2>1. 0..n \subseteq T
    BY <1>1, <1>4, <1>5, NatSetInduction
  <2>. QED BY <1>1, <2>1
<1>. QED BY <1>1, <1>3, <1>6

-----------------------------------------------------------------------------
(* Orders executed again, from the first.                                                    *)

FirstOf(q, i) == [j \in 1..i |-> q[j]]

LEMMA FirstOfTyped ==
    ASSUME NEW q \in Seq(OrderKinds)
    PROVE  /\ FirstOf(q, 0) = <<>> /\ FirstOf(q, Len(q)) = q
           /\ \A i \in 0..Len(q) : FirstOf(q, i) \in Seq(OrderKinds) /\ Len(FirstOf(q, i)) = i
           /\ \A i \in 0..Len(q) - 1 : Append(FirstOf(q, i), q[i + 1]) = FirstOf(q, i + 1)
<1>1. FirstOf(q, 0) = <<>> /\ FirstOf(q, Len(q)) = q
  BY DEF FirstOf
<1>2. ASSUME NEW i \in 0..Len(q)
      PROVE  FirstOf(q, i) \in Seq(OrderKinds) /\ Len(FirstOf(q, i)) = i
  <2>1. \A j \in 1..i : q[j] \in OrderKinds
    OBVIOUS
  <2>. QED BY <2>1 DEF FirstOf
<1>3. ASSUME NEW i \in 0..Len(q) - 1
      PROVE  Append(FirstOf(q, i), q[i + 1]) = FirstOf(q, i + 1)
  <2>. DEFINE a == FirstOf(q, i)
              b == Append(a, q[i + 1])
  <2>1. a \in Seq(OrderKinds) /\ Len(a) = i /\ q[i + 1] \in OrderKinds
    BY <1>2
  <2>2. \A j \in 1..i : a[j] = q[j]
    BY DEF FirstOf
  <2>. HIDE DEF a
  <2>3. /\ b \in Seq(OrderKinds) /\ Len(b) = i + 1
        /\ \A j \in 1..i : b[j] = a[j]
        /\ b[i + 1] = q[i + 1]
    BY <2>1, Appended
  <2>. HIDE DEF b
  <2>4. b = [j \in 1..i + 1 |-> b[j]]
    BY <2>3
  <2>5. \A j \in 1..i + 1 : b[j] = q[j]
    <3>1. \A j \in 1..i + 1 : j \in 1..i \/ j = i + 1
      OBVIOUS
    <3>. QED BY <2>2, <2>3, <3>1
  <2>6. b = FirstOf(q, i + 1)
    BY <2>4, <2>5 DEF FirstOf
  <2>. QED BY <2>6 DEF b, a
<1>. QED BY <1>1, <1>2, <1>3

LEMMA FirstOfLegal ==
    ASSUME NEW base, NEW atWar, NEW e, NEW q, LegalList(base, atWar, e, q), NEW i \in 0..Len(q)
    PROVE  LegalList(base, atWar, e, FirstOf(q, i))
<1>. DEFINE r == FirstOf(q, i)
<1>1. q \in Seq(OrderKinds) /\ Len(q) \in Nat
  BY DEF LegalList
<1>2. r \in Seq(OrderKinds) /\ Len(r) = i
  BY <1>1, FirstOfTyped
<1>3. \A j \in 1..i : j \in 1..Len(q) /\ r[j] = q[j]
  BY <1>1 DEF FirstOf
<1>. HIDE DEF r
<1>4. OneTask(base, atWar, r)
  <2>1. OneTask(base, atWar, q)
    BY DEF LegalList
  <2>. QED BY <1>2, <1>3, <2>1 DEF OneTask
<1>5. LegalList(base, atWar, e, r)
  BY <1>2, <1>3, <1>4 DEF LegalList
<1>. QED BY <1>5 DEF r

LEMMA NothingOrdered ==
    ASSUME NEW base, Fresh(base), NEW atWar, NEW e
    PROVE  LegalList(base, atWar, e, <<>>) /\ Reflects(base, atWar, e, base, <<>>)
<1>. DEFINE q == <<>>
<1>1. q \in Seq(OrderKinds) /\ Len(q) = 0 /\ \A i : ~(i \in 1..Len(q))
  OBVIOUS
<1>. HIDE DEF q
<1>2. LegalList(base, atWar, e, q)
  BY <1>1 DEF LegalList, OneTask
<1>3. base \in Universes /\ base.ships \subseteq Ships
  BY DEF Fresh, Universes
<1>4. SameBut(base, base)
  BY <1>3 DEF SameBut
<1>5. ShowsColonizing(base, q) /\ ShowsInvading(base, atWar, base, q)
  BY <1>1, <1>3, NoPlanetNone DEF Fresh, ShowsColonizing, ShowsInvading
<1>6. ShowsScrapping(base, e, base, q) /\ ShowsGiving(base, q)
  BY <1>1 DEF Fresh, ShowsScrapping, ShowsGiving, GivenBy
<1>. QED BY <1>2, <1>4, <1>5, <1>6 DEF q, Reflects

(* Executing a player's orders on the universe it was sent leaves just their marks           *)
(* (Order::Execute of each, as ServerApp::PreCombatProcessTurns does).              *)
THEOREM ExecuteAllReflects ==
    ASSUME NEW base, Fresh(base), NEW atWar, NEW e \in Empires, NEW q,
           LegalList(base, atWar, e, q)
    PROVE  Reflects(base, atWar, e, ExecuteAll(base, atWar, q), q)
<1>. DEFINE n == Len(q)
<1>1. base \in Universes /\ q \in Seq(OrderKinds) /\ n \in Nat
  BY DEF Fresh, LegalList
<1>2. PICK f : ExecutesAll(f, base, atWar, q)
  BY <1>1, ExecuteAllIterates
<1>3. /\ f[0] = base
      /\ \A i \in 1..n : f[i] = Execute(f[i - 1], atWar, q[i])
      /\ ExecuteAll(base, atWar, q) = f[n]
  BY <1>2 DEF ExecutesAll
<1>4. FirstOf(q, 0) = <<>> /\ FirstOf(q, n) = q
  BY <1>1, FirstOfTyped
<1>. HIDE DEF n
<1>. DEFINE T == {i \in 0..n : Reflects(base, atWar, e, f[i], FirstOf(q, i))}
<1>5. 0 \in T
  <2>1. Reflects(base, atWar, e, base, <<>>)
    BY NothingOrdered
  <2>. QED BY <1>1, <1>3, <1>4, <2>1
<1>6. ASSUME NEW i \in 0..n - 1, i \in T PROVE i + 1 \in T
  <2>. DEFINE r == FirstOf(q, i)
              o == q[i + 1]
  <2>1. i + 1 \in 1..n /\ i + 1 \in 0..n /\ i \in 0..n
    BY <1>1
  <2>2. /\ r \in Seq(OrderKinds) /\ o \in OrderKinds
        /\ Append(r, o) = FirstOf(q, i + 1)
    BY <1>1, <2>1, FirstOfTyped DEF n
  <2>3. LegalList(base, atWar, e, FirstOf(q, i + 1))
    BY <2>1, FirstOfLegal DEF n
  <2>4. Reflects(base, atWar, e, f[i], r) /\ f[i + 1] = Execute(f[i], atWar, o)
    BY <1>3, <1>6, <2>1
  <2>. HIDE DEF r, o
  <2>5. LegalList(base, atWar, e, Append(r, o))
    BY <2>2, <2>3
  <2>6. Reflects(base, atWar, e, Execute(f[i], atWar, o), Append(r, o))
    BY <2>2, <2>4, <2>5, IssueReflects
  <2>. QED BY <2>1, <2>2, <2>4, <2>6
<1>7. n \in T
  <2>. HIDE DEF T
  <2>1. 0..n \subseteq T
    BY <1>1, <1>5, <1>6, NatSetInduction
  <2>. QED BY <1>1, <2>1
<1>. QED BY <1>3, <1>4, <1>7

(* Two universes that show the same orders have the same marks of colonizing, invading and    *)
(* giving.                                                                                    *)
LEMMA ReflectsOnce ==
    ASSUME NEW base, Fresh(base), NEW atWar, NEW e, NEW q, LegalList(base, atWar, e, q),
           NEW u, Reflects(base, atWar, e, u, q),
           NEW v, Reflects(base, atWar, e, v, q)
    PROVE  /\ u.colonize = v.colonize /\ u.aboutColonized = v.aboutColonized
           /\ u.invade = v.invade /\ u.given = v.given
<1>1. /\ u \in Universes /\ v \in Universes
      /\ ShowsColonizing(u, q) /\ ShowsColonizing(v, q)
      /\ ShowsInvading(base, atWar, u, q) /\ ShowsInvading(base, atWar, v, q)
      /\ ShowsGiving(u, q) /\ ShowsGiving(v, q)
  BY DEF Reflects, SameBut
<1>2. /\ u.colonize \in [Ships -> Planets \cup {NoPlanet}]
      /\ v.colonize \in [Ships -> Planets \cup {NoPlanet}]
      /\ u.invade \in [Ships -> Planets \cup {NoPlanet}]
      /\ v.invade \in [Ships -> Planets \cup {NoPlanet}]
      /\ u.given \in [Fleets \cup Planets -> Owners]
      /\ v.given \in [Fleets \cup Planets -> Owners]
      /\ u.aboutColonized \subseteq Planets /\ v.aboutColonized \subseteq Planets
  BY <1>1 DEF Universes
<1>3. u.colonize = v.colonize
  <2>1. \A s \in Ships, p \in Planets : u.colonize[s] = p <=> v.colonize[s] = p
    BY <1>1 DEF ShowsColonizing
  <2>2. \A s \in Ships : u.colonize[s] = v.colonize[s]
    BY <1>2, <2>1
  <2>. QED BY <1>2, <2>2
<1>4. u.aboutColonized = v.aboutColonized
  <2>1. \A p \in Planets : p \in u.aboutColonized <=> p \in v.aboutColonized
    BY <1>1 DEF ShowsColonizing
  <2>. QED BY <1>2, <2>1
<1>5. u.invade = v.invade
  <2>1. \A s \in base.ships, p \in Planets : u.invade[s] = p <=> v.invade[s] = p
    BY <1>1 DEF ShowsInvading
  <2>2. \A s \in Ships \ base.ships : u.invade[s] = v.invade[s]
    BY <1>1 DEF ShowsInvading
  <2>3. \A s \in Ships : u.invade[s] = v.invade[s]
    BY <1>2, <2>1, <2>2
  <2>. QED BY <1>2, <2>3
<1>6. u.given = v.given
  <2>1. q \in Seq(OrderKinds)
    BY DEF LegalList
  <2>2. ASSUME NEW x \in Fleets \cup Planets PROVE u.given[x] = v.given[x]
    <3>1. GivenBy(q, x, u.given[x]) /\ GivenBy(q, x, v.given[x])
      BY <1>1 DEF ShowsGiving
    <3>2. ASSUME NEW i \in 1..Len(q), NEW j \in 1..Len(q), Gives(q[i], x), Gives(q[j], x),
                 \A k \in 1..Len(q) : k > i => ~Gives(q[k], x),
                 \A k \in 1..Len(q) : k > j => ~Gives(q[k], x)
          PROVE  i = j
      BY <3>2
    <3>. QED BY <3>1, <3>2 DEF GivenBy
  <2>. QED BY <1>2, <2>2
<1>. QED BY <1>3, <1>4, <1>5, <1>6

(* Where the orders of one player are shown, no two ships colonize the same planet.           *)
LEMMA ReflectsOneColonizer ==
    ASSUME NEW base, NEW atWar, NEW e, NEW q, LegalList(base, atWar, e, q),
           NEW u, Reflects(base, atWar, e, u, q)
    PROVE  OneColonizer(u)
<1>1. /\ u.colonize \in [Ships -> Planets \cup {NoPlanet}] /\ u.aboutColonized \subseteq Planets
      /\ ShowsColonizing(u, q)
  BY DEF Reflects, SameBut, Universes
<1>2. \A p \in Planets : p \in u.aboutColonized <=> \E s \in Ships : u.colonize[s] = p
  <2>. SUFFICES ASSUME NEW p \in Planets
                PROVE  p \in u.aboutColonized <=> \E s \in Ships : u.colonize[s] = p
    OBVIOUS
  <2>1. /\ \A s \in Ships : u.colonize[s] = p <=> \E i \in 1..Len(q) : Colonizes(q[i], s, p)
        /\ p \in u.aboutColonized <=> \E i \in 1..Len(q) : \E s \in Ships : Colonizes(q[i], s, p)
    BY <1>1 DEF ShowsColonizing
  <2>. QED BY <2>1
<1>3. u.aboutColonized = {u.colonize[s] : s \in Ships} \ {NoPlanet}
  BY <1>1, <1>2, NoPlanetNone
<1>4. ASSUME NEW s \in Ships, NEW t \in Ships, u.colonize[s] = u.colonize[t], s # t,
             u.colonize[s] # NoPlanet
      PROVE  FALSE
  <2>. DEFINE p == u.colonize[s]
  <2>1. p \in Planets
    BY <1>1, <1>4
  <2>2. PICK i \in 1..Len(q) : Colonizes(q[i], s, p)
    BY <1>1, <2>1 DEF ShowsColonizing
  <2>3. PICK j \in 1..Len(q) : Colonizes(q[j], t, p)
    BY <1>1, <1>4, <2>1 DEF ShowsColonizing
  <2>4. i = j
    BY <2>2, <2>3 DEF Colonizes, LegalList
  <2>. QED BY <1>4, <2>2, <2>3, <2>4 DEF Colonizes
<1>. QED BY <1>3, <1>4 DEF OneColonizer

-----------------------------------------------------------------------------
(* The invariant holds at first and after every step.                                         *)

LEMMA TurnInit == Init => TurnInv
<1>. SUFFICES ASSUME Init PROVE TurnInv
  OBVIOUS
<1>1. Fresh(universe)
  <2>1. universe \in Situations
    BY DEF Init
  <2>2. /\ universe \in Universes
        /\ universe.scrapped = {} /\ universe.aboutColonized = {}
        /\ \A s \in Ships : universe.colonize[s] = NoPlanet /\ universe.invade[s] = NoPlanet
        /\ \A x \in Fleets \cup Planets : universe.given[x] = AllEmpires
    BY <2>1, TurnOrdersAssumption
  <2>. QED BY <2>2 DEF Fresh, Universes
<1>2. universe \in Universes
  BY <1>1 DEF Fresh
<1>3. ASSUME NEW e \in Empires PROVE plan[e] \in Plans /\ PlanOK(universe, war, e, plan[e])
  <2>. DEFINE none == <<>>
  <2>1. none \in Seq(OrderKinds) /\ plan[e] = Plan(universe, none)
    BY DEF Init
  <2>2. LegalList(universe, war, e, none) /\ Reflects(universe, war, e, universe, none)
    BY <1>1, NothingOrdered
  <2>. HIDE DEF none
  <2>3. plan[e] \in Plans /\ plan[e].universe = universe /\ plan[e].orders = none
    BY <1>2, <2>1, PlanTyped
  <2>. QED BY <2>2, <2>3 DEF PlanOK
<1>4. war \subseteq SUBSET Empires
  BY DEF Init, kSubset
<1>5. clicks \in 0..MaxClicks /\ turn \in 1..MaxTurn + 1 /\ ended = {}
  BY TurnOrdersAssumption DEF Init
<1>6. OrdersTypeOK
  BY <1>2, <1>3, <1>4, <1>5 DEF OrdersTypeOK
<1>. QED BY <1>1, <1>3, <1>5, <1>6 DEF TurnInv

LEMMA ClickKeeps ==
    ASSUME TurnInv, NEW e \in Empires, NEW np \in Plans, PlanOK(universe, war, e, np),
           Click(e, np)
    PROVE  TurnInv'
<1>1. /\ turn <= MaxTurn /\ clicks < MaxClicks /\ clicks' = clicks + 1
      /\ plan' = [plan EXCEPT ![e] = np]
      /\ universe' = universe /\ war' = war /\ ended' = ended /\ turn' = turn
  BY DEF Click
<1>2. /\ universe \in Universes /\ war \subseteq SUBSET Empires /\ ended \subseteq Empires
      /\ clicks \in 0..MaxClicks /\ turn \in 1..MaxTurn + 1
      /\ \A x \in Empires : plan[x] \in Plans /\ PlanOK(universe, war, x, plan[x])
      /\ Fresh(universe)
      /\ ended # {} => turn <= MaxTurn
  BY DEF TurnInv, OrdersTypeOK
<1>3. \A x \in Empires : plan'[x] = plan[x] \/ (x = e /\ plan'[x] = np)
  BY <1>1
<1>4. \A x \in Empires : plan'[x] \in Plans /\ PlanOK(universe, war, x, plan'[x])
  BY <1>2, <1>3
<1>5. OrdersTypeOK'
  <2>1. clicks' \in 0..MaxClicks
    BY <1>1, <1>2, TurnOrdersAssumption
  <2>. QED BY <1>1, <1>2, <1>4, <2>1 DEF OrdersTypeOK
<1>. QED BY <1>1, <1>2, <1>4, <1>5 DEF TurnInv

LEMMA ClickColonizeKeeps ==
    ASSUME TurnInv, NEW e \in Empires, NEW x \in Planets, ClickColonize(e, x)
    PROVE  TurnInv'
<1>. DEFINE p == plan[e]
            pending == {i \in DOMAIN p.orders : p.orders[i].type = "Colonize" /\ p.orders[i].planet = x}
<1>1. p \in Plans /\ PlanOK(universe, war, e, p) /\ Fresh(universe)
  BY DEF TurnInv, OrdersTypeOK
<1>2. p.orders \in Seq(OrderKinds) /\ DOMAIN p.orders = 1..Len(p.orders) /\ Len(p.orders) \in Nat
  BY <1>1, PlanFields
<1>3. \/ pending # {} /\ Click(e, RecindOrders(p, {Max(pending)}))
      \/ /\ pending = {}
         /\ \E s \in Ships : 
               /\ MayColonize(p.universe, e, s, x)
               /\ Click(e, IssueOrder(CancelShipOrders(p, s), war, ColonizeOrder(e, s, x)))
  BY DEF ClickColonize, PlacesOf
<1>4. CASE pending # {} /\ Click(e, RecindOrders(p, {Max(pending)}))
  <2>1. pending \in SUBSET (0..Len(p.orders))
    BY <1>2
  <2>. HIDE DEF pending
  <2>2. Max(pending) \in pending
    BY <1>2, <1>4, <2>1, GreatestNat
  <2>3. p.orders[Max(pending)].type = "Colonize"
    BY <2>2 DEF pending
  <2>. HIDE DEF p
  <2>4. /\ RecindOrders(p, {Max(pending)}) \in Plans
        /\ PlanOK(universe, war, e, RecindOrders(p, {Max(pending)}))
    <3>1. \A j \in 1..Len(p.orders) : j \in {Max(pending)} => p.orders[j].type # "Give"
      BY <2>3
    <3>. QED BY <1>1, <3>1, RecindNoGift
  <2>. QED BY <1>4, <2>4, ClickKeeps
<1>5. ASSUME pending = {}, NEW s \in Ships, MayColonize(p.universe, e, s, x),
             Click(e, IssueOrder(CancelShipOrders(p, s), war, ColonizeOrder(e, s, x)))
      PROVE  TurnInv'
  <2>1. \A i \in 1..Len(p.orders) : ~(p.orders[i].type = "Colonize" /\ p.orders[i].planet = x)
    BY <1>2, <1>5
  <2>. HIDE DEF p
  <2>2. /\ IssueOrder(CancelShipOrders(p, s), war, ColonizeOrder(e, s, x)) \in Plans
        /\ PlanOK(universe, war, e, IssueOrder(CancelShipOrders(p, s), war, ColonizeOrder(e, s, x)))
    BY <1>1, <1>5, <2>1, ColonizeKeeps
  <2>. QED BY <1>5, <2>2, ClickKeeps
<1>. HIDE DEF pending
<1>. QED BY <1>3, <1>4, <1>5

LEMMA ClickInvadeKeeps ==
    ASSUME TurnInv, NEW e \in Empires, NEW x \in Planets, ClickInvade(e, x)
    PROVE  TurnInv'
<1>. DEFINE p == plan[e]
            pending == {i \in DOMAIN p.orders : p.orders[i].type = "Invade" /\ p.orders[i].planet = x}
            selectable == {s \in TroopShips : OwnedShip(p.universe, s, e)}
<1>1. p \in Plans /\ PlanOK(universe, war, e, p) /\ Fresh(universe)
  BY DEF TurnInv, OrdersTypeOK
<1>2. p.universe \in Universes
  BY <1>1, PlanFields
<1>3. \/ Click(e, RecindOrders(p, pending))
      \/ \E selected \in (SUBSET selectable) \ {{}} :
            Click(e, OrderInvasion(p, e, SetToSeq(selected), x))
  BY DEF ClickInvade, PlacesOf
<1>4. CASE Click(e, RecindOrders(p, pending))
  <2>1. \A j \in 1..Len(p.orders) : j \in pending => p.orders[j].type # "Give"
    OBVIOUS
  <2>. HIDE DEF p, pending
  <2>2. /\ RecindOrders(p, pending) \in Plans
        /\ PlanOK(universe, war, e, RecindOrders(p, pending))
    BY <1>1, <2>1, RecindNoGift
  <2>. QED BY <1>4, <2>2, ClickKeeps
<1>5. ASSUME NEW selected \in SUBSET selectable,
             Click(e, OrderInvasion(p, e, SetToSeq(selected), x))
      PROVE  TurnInv'
  <2>1. selected \in SUBSET Ships
    BY <1>2 DEF OwnedShip, Universes
  <2>2. SetToSeq(selected) \in Seq(Ships)
    BY <2>1, SetToSeqTyped
  <2>. HIDE DEF p
  <2>3. /\ OrderInvasion(p, e, SetToSeq(selected), x) \in Plans
        /\ PlanOK(universe, war, e, OrderInvasion(p, e, SetToSeq(selected), x))
    BY <1>1, <2>2, OrderInvasionKeeps
  <2>. QED BY <1>5, <2>3, ClickKeeps
<1>. QED BY <1>3, <1>4, <1>5

LEMMA ScrapClicksKeep ==
    ASSUME TurnInv, NEW e \in Empires
    PROVE  /\ \A s \in Ships : ScrapShip(e, s) \/ UnscrapShip(e, s) => TurnInv'
           /\ \A f \in Fleets : ScrapFleet(e, f) \/ UnscrapFleet(e, f) => TurnInv'
<1>. DEFINE p == plan[e]
            Scraps(ships) ==
                {i \in DOMAIN p.orders : p.orders[i].type = "Scrap" /\ p.orders[i].ship \in ships}
<1>1. p \in Plans /\ PlanOK(universe, war, e, p) /\ Fresh(universe)
  BY DEF TurnInv, OrdersTypeOK
<1>2. /\ p.universe \in Universes
      /\ p.orders \in Seq(OrderKinds) /\ DOMAIN p.orders = 1..Len(p.orders) /\ Len(p.orders) \in Nat
  BY <1>1, PlanFields
<1>3. \A ships : ScrapOrdersOf(e, ships) = Scraps(ships)
  BY DEF ScrapOrdersOf, PlacesOf
<1>4. \A ships : \A j \in 1..Len(p.orders) : j \in Scraps(ships) => p.orders[j].type # "Give"
  OBVIOUS
<1>5. ASSUME NEW s \in Ships, ScrapShip(e, s) PROVE TurnInv'
  <2>1. Click(e, IssueOrder(p, war, ScrapOrder(e, s)))
    BY <1>5 DEF ScrapShip
  <2>. HIDE DEF p
  <2>2. /\ IssueOrder(p, war, ScrapOrder(e, s)) \in Plans
        /\ PlanOK(universe, war, e, IssueOrder(p, war, ScrapOrder(e, s)))
    BY <1>1, ScrapKeeps
  <2>. QED BY <2>1, <2>2, ClickKeeps
<1>6. ASSUME NEW s \in Ships, UnscrapShip(e, s) PROVE TurnInv'
  <2>. DEFINE orders == Scraps({s})
  <2>1. s \in p.universe.scrapped /\ Click(e, RecindOrders(p, {Max(orders)}))
    BY <1>3, <1>6 DEF UnscrapShip
  <2>2. orders # {}
    <3>1. \E i \in 1..Len(p.orders) : p.orders[i].type = "Scrap" /\ p.orders[i].ship = s
      BY <1>1, <2>1 DEF PlanOK, Reflects, ShowsScrapping
    <3>. QED BY <1>2, <3>1
  <2>3. orders \in SUBSET (0..Len(p.orders))
    BY <1>2
  <2>4. \A j \in orders : p.orders[j].type # "Give"
    OBVIOUS
  <2>. HIDE DEF orders
  <2>5. Max(orders) \in orders
    BY <1>2, <2>2, <2>3, GreatestNat
  <2>. HIDE DEF p
  <2>6. /\ RecindOrders(p, {Max(orders)}) \in Plans
        /\ PlanOK(universe, war, e, RecindOrders(p, {Max(orders)}))
    <3>1. \A j \in 1..Len(p.orders) : j \in {Max(orders)} => p.orders[j].type # "Give"
      BY <2>4, <2>5
    <3>. QED BY <1>1, <3>1, RecindNoGift
  <2>. QED BY <2>1, <2>6, ClickKeeps
<1>7. ASSUME NEW f \in Fleets, ScrapFleet(e, f) PROVE TurnInv'
  <2>. DEFINE ships == f \cap p.universe.ships
  <2>1. Click(e, OrderScrapping(p, e, SetToSeq(ships)))
    BY <1>7 DEF ScrapFleet
  <2>2. ships \in SUBSET Ships
    BY <1>2 DEF Universes
  <2>. HIDE DEF p, ships
  <2>3. SetToSeq(ships) \in Seq(Ships)
    BY <2>2, SetToSeqTyped
  <2>4. /\ OrderScrapping(p, e, SetToSeq(ships)) \in Plans
        /\ PlanOK(universe, war, e, OrderScrapping(p, e, SetToSeq(ships)))
    BY <1>1, <2>3, OrderScrappingKeeps
  <2>. QED BY <2>1, <2>4, ClickKeeps
<1>8. ASSUME NEW f \in Fleets, UnscrapFleet(e, f) PROVE TurnInv'
  <2>. DEFINE orders == Scraps(f \cap p.universe.ships)
  <2>1. Click(e, RecindOrders(p, orders))
    BY <1>3, <1>8 DEF UnscrapFleet
  <2>2. \A j \in 1..Len(p.orders) : j \in orders => p.orders[j].type # "Give"
    OBVIOUS
  <2>. HIDE DEF p, orders
  <2>3. RecindOrders(p, orders) \in Plans /\ PlanOK(universe, war, e, RecindOrders(p, orders))
    BY <1>1, <2>2, RecindNoGift
  <2>. QED BY <2>1, <2>3, ClickKeeps
<1>. QED BY <1>5, <1>6, <1>7, <1>8

LEMMA GiveClicksKeep ==
    ASSUME TurnInv, NEW e \in Empires, NEW x \in Fleets \cup Planets
    PROVE  CancelGive(e, x) \/ (\E r \in Empires : Give(e, x, r)) => TurnInv'
<1>. DEFINE p == plan[e]
<1>1. p \in Plans /\ PlanOK(universe, war, e, p) /\ Fresh(universe)
  BY DEF TurnInv, OrdersTypeOK
<1>2. ASSUME CancelGive(e, x) PROVE TurnInv'
  <2>. DEFINE places == {i \in DOMAIN p.orders : p.orders[i].type = "Give" /\ p.orders[i].object = x}
              np == RecindOrders(p, places)
  <2>1. Click(e, np)
    BY <1>2 DEF CancelGive, PlacesOf
  <2>2. \A j \in 1..Len(p.orders) : j \in places <=> Gives(p.orders[j], x)
    <3>1. DOMAIN p.orders = 1..Len(p.orders)
      BY <1>1, PlanFields
    <3>. QED BY <3>1 DEF Gives
  <2>. HIDE DEF p, places
  <2>3. np \in Plans /\ PlanOK(universe, war, e, np)
    BY <1>1, <2>2, CancelGiveKeeps
  <2>. HIDE DEF np
  <2>. QED BY <2>1, <2>3, ClickKeeps
<1>3. ASSUME NEW r \in Empires, Give(e, x, r) PROVE TurnInv'
  <2>1. Owned(p.universe, x, e) /\ Click(e, IssueOrder(p, war, GiveObjectToEmpireOrder(e, x, r)))
    BY <1>3 DEF Give
  <2>. HIDE DEF p
  <2>2. /\ IssueOrder(p, war, GiveObjectToEmpireOrder(e, x, r)) \in Plans
        /\ PlanOK(universe, war, e, IssueOrder(p, war, GiveObjectToEmpireOrder(e, x, r)))
    BY <1>1, <2>1, GiveKeeps
  <2>. QED BY <2>1, <2>2, ClickKeeps
<1>. QED BY <1>2, <1>3

LEMMA EndTurnKeeps ==
    ASSUME TurnInv, NEW e \in Empires, EndTurn(e)
    PROVE  TurnInv'
BY DEF TurnInv, OrdersTypeOK, EndTurn

LEMMA ProcessTurnKeeps ==
    ASSUME TurnInv, ProcessTurn
    PROVE  TurnInv'
<1>. DEFINE orders == [e \in Empires |-> plan[e].orders]
            next == PreCombatProcessTurns(universe, war, orders)
<1>1. /\ ended = Empires /\ ended' = {} /\ turn' = turn + 1
      /\ universe' = next /\ plan' = [e \in Empires |-> Plan(next, <<>>)]
      /\ war' = war /\ clicks' = clicks
  BY DEF ProcessTurn
<1>2. /\ war \subseteq SUBSET Empires
      /\ clicks \in 0..MaxClicks /\ turn \in 1..MaxTurn + 1
      /\ \A e \in Empires : plan[e] \in Plans /\ PlanOK(universe, war, e, plan[e])
      /\ Fresh(universe)
      /\ ended # {} => turn <= MaxTurn
  BY DEF TurnInv, OrdersTypeOK
<1>3. Fresh(next)
  <2>1. orders \in [Empires -> Seq(OrderKinds)]
    BY <1>2, PlanFields
  <2>2. \A e \in Empires : LegalList(universe, war, e, orders[e])
    BY <1>2 DEF PlanOK
  <2>. HIDE DEF orders
  <2>. QED BY <1>2, <2>1, <2>2, TurnLeavesFresh
<1>. HIDE DEF next, orders
<1>4. next \in Universes
  BY <1>3 DEF Fresh
<1>5. ASSUME NEW e \in Empires PROVE plan'[e] \in Plans /\ PlanOK(next, war, e, plan'[e])
  <2>. DEFINE none == <<>>
  <2>1. none \in Seq(OrderKinds) /\ plan'[e] = Plan(next, none)
    BY <1>1
  <2>2. LegalList(next, war, e, none) /\ Reflects(next, war, e, next, none)
    BY <1>3, NothingOrdered
  <2>. HIDE DEF none
  <2>3. plan'[e] \in Plans /\ plan'[e].universe = next /\ plan'[e].orders = none
    BY <1>4, <2>1, PlanTyped
  <2>. QED BY <2>2, <2>3 DEF PlanOK
<1>6. turn' \in 1..MaxTurn + 1
  <2>1. 1 \in Empires
    BY OrdersAssumption DEF Empires
  <2>. QED BY <1>1, <1>2, <2>1, TurnOrdersAssumption
<1>7. OrdersTypeOK'
  BY <1>1, <1>2, <1>4, <1>5, <1>6 DEF OrdersTypeOK
<1>. QED BY <1>1, <1>3, <1>5, <1>7 DEF TurnInv

LEMMA TurnStep == TurnInv /\ [Next]_vars => TurnInv'
<1>. SUFFICES ASSUME TurnInv, [Next]_vars PROVE TurnInv'
  OBVIOUS
<1>1. ASSUME NEW e \in Empires, GiveOrders(e) PROVE TurnInv'
  <2>1. CASE \E x \in Planets : ClickColonize(e, x) \/ ClickInvade(e, x)
    BY <2>1, ClickColonizeKeeps, ClickInvadeKeeps
  <2>2. CASE \E s \in Ships : ScrapShip(e, s) \/ UnscrapShip(e, s)
    BY <2>2, ScrapClicksKeep
  <2>3. CASE \E f \in Fleets : ScrapFleet(e, f) \/ UnscrapFleet(e, f)
    BY <2>3, ScrapClicksKeep
  <2>4. CASE \E x \in Fleets \cup Planets : CancelGive(e, x) \/ \E r \in Empires : Give(e, x, r)
    BY <2>4, GiveClicksKeep
  <2>. QED BY <1>1, <2>1, <2>2, <2>3, <2>4 DEF GiveOrders
<1>2. ASSUME NEW e \in Empires, EndTurn(e) PROVE TurnInv'
  BY <1>2, EndTurnKeeps
<1>3. CASE ProcessTurn
  BY <1>3, ProcessTurnKeeps
<1>4. CASE UNCHANGED vars
  BY <1>4 DEF vars, TurnInv, OrdersTypeOK
<1>. QED BY <1>1, <1>2, <1>3, <1>4 DEF Next

(* Whatever is ordered and taken back in any number of turns, each player's orders are legal   *)
(* and its universe shows them.                                                                *)
THEOREM TurnInvariant == Spec => []TurnInv
BY TurnInit, TurnStep, PTL DEF Spec

(* Every phase of a turn and every click leaves a universe a universe (TurnOrders).            *)
THEOREM OrdersTypeSafe == Spec => []OrdersTypeOK
<1>1. TurnInv => OrdersTypeOK
  BY DEF TurnInv
<1>. QED BY <1>1, TurnInvariant, PTL

(* "There should be only one ship colonzing each planet for this client" (ClickColonize).      *)
THEOREM OneShipColonizes == Spec => []OneColonizerEach
<1>1. TurnInv => OneColonizerEach
  <2>. SUFFICES ASSUME TurnInv PROVE OneColonizerEach
    OBVIOUS
  <2>1. OneColonizer(universe)
    <3>1. Fresh(universe)
      BY DEF TurnInv
    <3>2. LegalList(universe, war, 1, <<>>) /\ Reflects(universe, war, 1, universe, <<>>)
      BY <3>1, NothingOrdered
    <3>. QED BY <3>2, ReflectsOneColonizer
  <2>2. ASSUME NEW e \in Empires PROVE OneColonizer(plan[e].universe)
    <3>1. LegalList(universe, war, e, plan[e].orders)
          /\ Reflects(universe, war, e, plan[e].universe, plan[e].orders)
      BY DEF TurnInv, PlanOK
    <3>. QED BY <3>1, ReflectsOneColonizer
  <2>. QED BY <2>1, <2>2 DEF OneColonizerEach
<1>. QED BY <1>1, TurnInvariant, PTL

(* What a player is shown of its orders is what the server will do (OrderSet::IssueOrder,       *)
(* OrderSet::RecindOrder against the execution in PreCombatProcessTurns).                       *)
THEOREM PlayersSeeTheirOrders == Spec => []ShownIsOrdered
<1>1. TurnInv => ShownIsOrdered
  <2>. SUFFICES ASSUME TurnInv, NEW e \in Empires
                PROVE  LET shown == plan[e].universe
                           done == ExecuteAll(universe, war, plan[e].orders)
                       IN /\ shown.colonize = done.colonize
                          /\ shown.aboutColonized = done.aboutColonized
                          /\ shown.invade = done.invade
                          /\ shown.given = done.given
    BY DEF ShownIsOrdered
  <2>. DEFINE shown == plan[e].universe
              orders == plan[e].orders
              done == ExecuteAll(universe, war, orders)
  <2>1. /\ Fresh(universe)
        /\ LegalList(universe, war, e, orders) /\ Reflects(universe, war, e, shown, orders)
    BY DEF TurnInv, PlanOK
  <2>. HIDE DEF shown, orders
  <2>2. Reflects(universe, war, e, done, orders)
    BY <2>1, ExecuteAllReflects
  <2>. HIDE DEF done
  <2>3. /\ shown.colonize = done.colonize /\ shown.aboutColonized = done.aboutColonized
        /\ shown.invade = done.invade /\ shown.given = done.given
    BY <2>1, <2>2, ReflectsOnce
  <2>. QED BY <2>3 DEF shown, orders, done
<1>. QED BY <1>1, TurnInvariant, PTL
==============================================================================
