----------------------------- MODULE MCTurnOrders -----------------------------
(***************************************************************************)
(* Two empires with a colony ship each and troops, an armed ship of monsters *)
(* or of the second empire, an empty planet and one in any situation.        *)
(***************************************************************************)
EXTENDS TurnOrders

CONSTANTS c1, t1, c2, t2, w, p, q

MCShips == {c1, t1, c2, t2, w}
MCFleets == {{c1, t1}, {c2}, {t2}, {w}}
ShipOwner(s, armed) == IF s = w THEN armed ELSE IF s \in {c1, t1} THEN 1 ELSE 2

Situation(armed, owner, populated, troops) ==
    [ships |-> MCShips,
     owner |-> [x \in MCShips \cup {p, q} |->
                  IF x = p THEN AllEmpires ELSE IF x = q THEN owner ELSE ShipOwner(x, armed)],
     colonize |-> [s \in MCShips |-> NoPlanet],
     invade |-> [s \in MCShips |-> NoPlanet],
     scrapped |-> {},
     given |-> [x \in MCFleets \cup {p, q} |-> AllEmpires],
     aboutColonized |-> {}, aboutInvaded |-> {},
     populated |-> populated,
     shielded |-> {},
     troops |-> [x \in {p, q} |-> IF x = q THEN troops ELSE 0]]

(* An empire's planet and a native one have a garrison or not; an outpost has none.          *)
MCSituations ==
    {Situation(armed, owner, {q}, troops) :
        armed \in {AllEmpires, 2}, owner \in Owners, troops \in {0, Troop}}
      \cup {Situation(2, 1, {}, 0)}
=============================================================================
