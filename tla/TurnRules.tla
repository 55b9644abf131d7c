------------------------------ MODULE TurnRules ------------------------------
(***************************************************************************)
(* What the server does with the orders of a turn before fleets move:        *)
(* ServerApp::PreCombatProcessTurns and its HandleColonization,              *)
(* HandleInvasion, HandleGifting and HandleScrapping. There are no rebels    *)
(* and no buildings.                                                         *)
(***************************************************************************)
EXTENDS Orders

CONSTANT Troop   \* one troop, in units of the bonus of a garrison

ASSUME TroopAssumption == Troop \in Nat \ {0}

-----------------------------------------------------------------------------
(* HandleColonization.                                                               *)

Colonizers(u, p) == {s \in u.ships : u.owner[s] \in Empires /\ u.colonize[s] = p}
EmpiresColonizing(u, p) == {u.owner[s] : s \in Colonizers(u, p)}

(* An armed aggressive ship of an enemy, or of monsters, in the system.               *)
Blocked(u, atWar, e) ==
    \E s \in u.ships \cap ArmedShips :
        u.owner[s] # e /\ (u.owner[s] = AllEmpires \/ {u.owner[s], e} \in atWar)

Colonized(u, atWar) ==
    {p \in Planets : \E e \in Empires :
        EmpiresColonizing(u, p) = {e} /\ ~Blocked(u, atWar, e)}

(* One ship settles on each planet and is gone; every order to colonise is forgotten. The  *)
(* code takes the ship of the smallest id; orders leave one per planet (OneColonizerEach). *)
HandleColonization(u, atWar) ==
    LET planets == Colonized(u, atWar)
        settler == [p \in planets |-> CHOOSE s \in Colonizers(u, p) : TRUE]
        settlers == {settler[p] : p \in planets}
    IN [u EXCEPT !.ships = @ \ settlers,
                 !.owner = [x \in DOMAIN @ |-> IF x \in planets THEN @[settler[x]] ELSE @[x]],
                 !.populated = @ \cup {p \in planets : settler[p] \in ColonyShips},
                 !.shielded = @ \ planets,
                 !.aboutInvaded = @ \ planets,
                 !.aboutColonized = {p \in @ : Colonizers(u, p) = {}},
                 !.colonize = [s \in Ships |-> IF \E p \in Planets : s \in Colonizers(u, p)
                                               THEN NoPlanet ELSE @[s]]]

-----------------------------------------------------------------------------
(* HandleInvasion. The troops of each side of a planet's ground combat.               *)

Invaders(u) == {s \in u.ships \cap TroopShips : u.invade[s] # NoPlanet}
Landing(u, p, e) == {s \in Invaders(u) : u.invade[s] = p /\ u.owner[s] = e}

Sides(u, p) ==
    {e \in Owners : Landing(u, p, e) # {} \/ (u.owner[p] = e /\ u.troops[p] > 0)}

(* A garrison has a small bonus, so that it wins a tie.                                *)
TroopsOf(u, p, e) ==
    Troop * Cardinality(Landing(u, p, e))
      + (IF u.owner[p] = e /\ u.troops[p] > 0 THEN u.troops[p] + 1 ELSE 0)

(* A mutant: the weakest side wins. *)
WeakestSide(u, p) ==
    CHOOSE e \in Sides(u, p) : \A f \in Sides(u, p) : TroopsOf(u, p, f) >= TroopsOf(u, p, e)

(* ResolveGroundCombat: the strongest, and of the strongest the one of the largest id,  *)
(* keeps what it has more than the next.                                               *)
Victor(u, p) ==
    CHOOSE e \in Sides(u, p) :
        \A f \in Sides(u, p) \ {e} :
            TroopsOf(u, p, e) > TroopsOf(u, p, f) \/ (TroopsOf(u, p, e) = TroopsOf(u, p, f) /\ e > f)

(* A mutant: the victor fights all the others one after the other. *)
RemainingOfAll(u, p) ==
    LET e == Victor(u, p)
    IN FoldSet(LAMBDA f, left : left - TroopsOf(u, p, f), TroopsOf(u, p, e), Sides(u, p) \ {e})

Remaining(u, p) ==
    LET e == Victor(u, p)
        others == {TroopsOf(u, p, f) : f \in Sides(u, p) \ {e}}
    IN TroopsOf(u, p, e) - Max(others \cup {0})

(* No combat without troops or when all belong to the owner.                            *)
Contested(u) == {p \in Planets : Sides(u, p) \notin {{}, {u.owner[p]}}}

HandleInvasion(u) ==
    LET fought == Contested(u)
        taken == {p \in fought : Victor(u, p) # u.owner[p]}
    IN [u EXCEPT !.ships = @ \ Invaders(u),
                 !.owner = [x \in DOMAIN @ |-> IF x \in taken THEN Victor(u, x) ELSE @[x]],
                 !.troops = [p \in Planets |-> IF p \in fought THEN Remaining(u, p) ELSE @[p]],
                 !.shielded = @ \ taken,
                 !.aboutInvaded = @ \ {u.invade[s] : s \in Invaders(u)}]

-----------------------------------------------------------------------------
(* HandleGifting. Which objects are given is collected first; then each empire in turn *)
(* receives its gifts, if it has something in the system.                               *)

PresentIn(u, r) ==
    \E x \in u.ships \cup Planets : u.owner[x] = r

GiftsTo(u, r) ==
    {x \in Fleets \cup Planets :
        /\ u.given[x] = r
        /\ ~Owned(u, x, r)
        /\ \E e \in Empires : Owned(u, x, e)}

Receive(u, gifts, r) ==
    LET passed == (gifts \cap Planets) \cup ((UNION (gifts \cap Fleets)) \cap u.ships)
    IN IF PresentIn(u, r)
       THEN [u EXCEPT !.owner = [x \in DOMAIN @ |-> IF x \in passed THEN r ELSE @[x]]]
       ELSE u

HandleGifting(u) ==
    LET collected == [u EXCEPT !.given = [x \in Fleets \cup Planets |-> AllEmpires]]
        after[r \in 0..NumEmpires] ==
            IF r = 0 THEN collected ELSE Receive(after[r - 1], GiftsTo(u, r), r)
    IN after[NumEmpires]

(* HandleScrapping, which asks nobody who gave the order.                               *)
HandleScrapping(u) == [u EXCEPT !.ships = @ \ u.scrapped, !.scrapped = {}]

-----------------------------------------------------------------------------
(* PreCombatProcessTurns: the order sets one empire after the other, then the rest.      *)
ExecuteOrders(u, atWar, orders) ==
    LET after[e \in 0..NumEmpires] ==
            IF e = 0 THEN u ELSE ExecuteAll(after[e - 1], atWar, orders[e])
    IN  after[NumEmpires]

PreCombatProcessTurns(u, atWar, orders) ==
    HandleScrapping(HandleGifting(HandleInvasion(HandleColonization(
        ExecuteOrders(u, atWar, orders), atWar))))
=============================================================================
