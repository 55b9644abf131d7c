-------------------------- MODULE TurnOutcomeProofs ---------------------------
(***************************************************************************)
(* What a turn brings, for any ships, planets, empires and wars: who         *)
(* colonizes a planet that several want (FirstEmpireColonizes) and who       *)
(* conquers one (ConquerorsLandedMost), in terms of what the players see of  *)
(* their own orders before the server executes all of them together.         *)
(***************************************************************************)
EXTENDS TurnOrdersProofs

-----------------------------------------------------------------------------
(* The orders of several empires, executed one after the other on one universe.          *)

(* No order of D to colonize p is of an empire before e.                                  *)
NobodyBefore(D, e, p) == \A d \in D : d.type = "Colonize" /\ d.planet = p => e <= d.empire

(* The first empire's order marks the planet, so that the others' are refused.            *)
ColonizingBy(v, D) ==
    /\ \A p \in Planets :
          p \in v.aboutColonized <=> \E d \in D : d.type = "Colonize" /\ d.planet = p
    /\ \A s \in Ships, p \in Planets :
          v.colonize[s] = p <=> \E d \in D : Colonizes(d, s, p) /\ NobodyBefore(D, d.empire, p)

InvadingBy(base, atWar, v, D) ==
    \A s \in base.ships, p \in Planets :
        v.invade[s] = p <=> \E d \in D : Invades(base, atWar, d, s, p)

GivingBy(v, D) ==
    \A x \in Fleets \cup Planets : v.given[x] # AllEmpires => \E d \in D : Gives(d, x)

ScrappingBy(v, D) == \A s \in v.scrapped : \E d \in D : d.type = "Scrap" /\ d.ship = s

(* Universe v after the orders D have been executed on universe base.                     *)
Merged(base, atWar, v, D) ==
    /\ SameBut(base, v) /\ v.troops = base.troops
    /\ ColonizingBy(v, D)
    /\ InvadingBy(base, atWar, v, D)
    /\ GivingBy(v, D)
    /\ ScrappingBy(v, D)

(* Order o comes after the orders D: those of no later empire, and of another ship.        *)
Follows(base, atWar, D, o) ==
    /\ o \in OrderKinds
    /\ \A d \in D : d \in OrderKinds /\ d.empire <= o.empire
    /\ o.type = "Colonize" =>
          /\ MayColonize(base, o.empire, o.ship, o.planet)
          /\ \A d \in D : d.type = "Colonize" =>
                d.ship # o.ship /\ (d.planet = o.planet => d.empire # o.empire)
    /\ \A d \in D, s \in Ships, p, r \in Planets :
          ~(Invades(base, atWar, d, s, p) /\ Invades(base, atWar, o, s, r))

LEMMA OrderEmpires == \A o \in OrderKinds : o.empire \in Empires /\ o.empire \in Int
BY OrderCases, EmpiresCounted

(* Each order changes the marks of its own kind.                                          *)
LEMMA ExecuteMarks ==
    ASSUME NEW v \in Universes, NEW atWar, NEW o \in OrderKinds
    PROVE  /\ Execute(v, atWar, o).troops = v.troops
           /\ o.type # "Colonize" => /\ Execute(v, atWar, o).colonize = v.colonize
                                     /\ Execute(v, atWar, o).aboutColonized = v.aboutColonized
           /\ o.type # "Invade" => Execute(v, atWar, o).invade = v.invade
           /\ o.type # "Give" => Execute(v, atWar, o).given = v.given
           /\ o.type # "Scrap" => Execute(v, atWar, o).scrapped = v.scrapped
BY OrderCases DEF Execute, ExecuteColonize, ExecuteInvade, ExecuteScrap, ExecuteGive, Universes

LEMMA MergeColonize ==
    ASSUME NEW base, NEW atWar, NEW v, NEW D, NEW o, SameBut(base, v), ColonizingBy(v, D),
           Follows(base, atWar, D, o), o.type = "Colonize"
    PROVE  ColonizingBy(Execute(v, atWar, o), D \cup {o})
<1>. DEFINE w == Execute(v, atWar, o)
            p0 == o.planet
            s0 == o.ship
            E == D \cup {o}
<1>1. /\ v \in Universes /\ w \in Universes
      /\ s0 \in Ships /\ p0 \in Planets /\ p0 # NoPlanet
      /\ \A d \in E : d \in OrderKinds /\ d.empire \in Int /\ d.empire <= o.empire
  <2>1. o \in OrderKinds /\ v \in Universes
    BY DEF Follows, SameBut
  <2>2. s0 \in Ships /\ p0 \in Planets
    BY <2>1, OrderCases
  <2>3. \A d \in E : d \in OrderKinds /\ d.empire \in Int /\ d.empire <= o.empire
    BY <2>1, OrderEmpires DEF Follows
  <2>. QED BY <2>1, <2>2, <2>3, ExecuteTyped, NoPlanetNone
<1>2. /\ MayColonize(base, o.empire, s0, p0)
      /\ \A d \in D : d.type = "Colonize" => d.ship # s0 /\ (d.planet = p0 => d.empire # o.empire)
  BY DEF Follows
<1>3. MayColonize(v, o.empire, s0, p0) <=> p0 \notin v.aboutColonized
  BY <1>2 DEF MayColonize, OwnedShip, SameBut
<1>4. CASE p0 \notin v.aboutColonized
  <2>1. /\ w.aboutColonized = v.aboutColonized \cup {p0}
        /\ w.colonize = [v.colonize EXCEPT ![s0] = p0]
    BY <1>1, <1>3, <1>4 DEF Execute, ExecuteColonize, Universes
  <2>2. \A s \in Ships : w.colonize[s] = IF s = s0 THEN p0 ELSE v.colonize[s]
    BY <1>1, <2>1 DEF Universes
  <2>3. \A d \in D : d.type = "Colonize" => d.planet # p0 /\ d.ship # s0
    BY <1>1, <1>2, <1>4 DEF ColonizingBy
  <2>. HIDE DEF w
  <2>4. \A p \in Planets :
           p \in w.aboutColonized <=> \E d \in E : d.type = "Colonize" /\ d.planet = p
    BY <2>1 DEF ColonizingBy
  <2>5. ASSUME NEW s \in Ships, NEW p \in Planets
        PROVE  w.colonize[s] = p <=> \E d \in E : Colonizes(d, s, p) /\ NobodyBefore(E, d.empire, p)
    <3>1. CASE p = p0
      <4>1. NobodyBefore(E, o.empire, p0)
        BY <1>1, <2>3 DEF NobodyBefore
      <4>2. \A d \in E : Colonizes(d, s, p) => d = o
        BY <2>3, <3>1 DEF Colonizes
      <4>3. Colonizes(o, s, p) <=> s = s0
        BY <3>1 DEF Colonizes
      <4>4. v.colonize[s] # p0
        BY <1>1, <2>3 DEF ColonizingBy, Colonizes
      <4>. QED BY <2>2, <3>1, <4>1, <4>2, <4>3, <4>4
    <3>2. CASE p # p0
      <4>1. \A d \in E : Colonizes(d, s, p) => d \in D /\ s # s0
        BY <2>3, <3>2 DEF Colonizes
      <4>2. \A d \in D : NobodyBefore(E, d.empire, p) <=> NobodyBefore(D, d.empire, p)
        BY <3>2 DEF NobodyBefore
      <4>3. v.colonize[s] = p <=> \E d \in D : Colonizes(d, s, p) /\ NobodyBefore(D, d.empire, p)
        BY DEF ColonizingBy
      <4>4. w.colonize[s] = p <=> v.colonize[s] = p /\ s # s0
        <5>1. CASE s = s0
          BY <2>2, <3>2, <5>1
        <5>2. CASE s # s0
          BY <2>2, <5>2
        <5>. QED BY <5>1, <5>2
      <4>. QED BY <4>1, <4>2, <4>3, <4>4
    <3>. QED BY <3>1, <3>2
  <2>. QED BY <2>4, <2>5 DEF ColonizingBy, w
<1>5. CASE p0 \in v.aboutColonized
  <2>1. w = v
    BY <1>3, <1>5 DEF Execute, ExecuteColonize
  <2>2. PICK c \in D : c.type = "Colonize" /\ c.planet = p0
    BY <1>1, <1>5 DEF ColonizingBy
  <2>3. c.empire < o.empire
    BY <1>1, <1>2, <2>2
  <2>4. ~NobodyBefore(E, o.empire, p0)
    BY <1>1, <2>2, <2>3 DEF NobodyBefore
  <2>5. \A d \in D : \A p : NobodyBefore(E, d.empire, p) <=> NobodyBefore(D, d.empire, p)
    BY <1>1 DEF NobodyBefore
  <2>6. \A p \in Planets :
           p \in v.aboutColonized <=> \E d \in E : d.type = "Colonize" /\ d.planet = p
    BY <1>5 DEF ColonizingBy
  <2>7. ASSUME NEW s \in Ships, NEW p \in Planets
        PROVE  v.colonize[s] = p <=> \E d \in E : Colonizes(d, s, p) /\ NobodyBefore(E, d.empire, p)
    <3>1. v.colonize[s] = p <=> \E d \in D : Colonizes(d, s, p) /\ NobodyBefore(D, d.empire, p)
      BY DEF ColonizingBy
    <3>2. ~(Colonizes(o, s, p) /\ NobodyBefore(E, o.empire, p))
      BY <2>4 DEF Colonizes
    <3>. QED BY <2>5, <3>1, <3>2
  <2>. HIDE DEF w
  <2>8. ColonizingBy(v, E)
    BY <2>6, <2>7 DEF ColonizingBy
  <2>. QED BY <2>1, <2>8 DEF w
<1>. QED BY <1>4, <1>5

LEMMA MergeInvade ==
    ASSUME NEW base, NEW atWar, NEW v, NEW D, NEW o, SameBut(base, v), base.ships \subseteq Ships,
           InvadingBy(base, atWar, v, D), Follows(base, atWar, D, o), o.type = "Invade"
    PROVE  InvadingBy(base, atWar, Execute(v, atWar, o), D \cup {o})
<1>. DEFINE w == Execute(v, atWar, o)
            p0 == o.planet
            s0 == o.ship
<1>1. v \in Universes /\ s0 \in Ships /\ p0 \in Planets
  BY OrderCases DEF Follows, SameBut
<1>2. MayInvade(v, atWar, o.empire, s0, p0) <=> MayInvade(base, atWar, o.empire, s0, p0)
  BY DEF MayInvade, OwnedShip, SameBut
<1>3. CASE MayInvade(base, atWar, o.empire, s0, p0)
  <2>1. w.invade = [v.invade EXCEPT ![s0] = p0]
    BY <1>1, <1>2, <1>3 DEF Execute, ExecuteInvade, Universes
  <2>2. \A s \in Ships : w.invade[s] = IF s = s0 THEN p0 ELSE v.invade[s]
    BY <1>1, <2>1 DEF Universes
  <2>3. Invades(base, atWar, o, s0, p0)
    BY <1>3 DEF Invades
  <2>4. \A d \in D, p \in Planets : ~Invades(base, atWar, d, s0, p)
    BY <1>1, <2>3 DEF Follows
  <2>5. \A s \in Ships, p \in Planets : Invades(base, atWar, o, s, p) <=> s = s0 /\ p = p0
    BY <2>3 DEF Invades
  <2>. HIDE DEF w
  <2>6. ASSUME NEW s \in base.ships, NEW p \in Planets
        PROVE  w.invade[s] = p <=> \E d \in D \cup {o} : Invades(base, atWar, d, s, p)
    <3>1. CASE s = s0
      BY <1>1, <2>2, <2>4, <2>5, <3>1
    <3>2. CASE s # s0
      <4>1. w.invade[s] = v.invade[s] /\ ~Invades(base, atWar, o, s, p)
        BY <2>2, <2>5, <3>2
      <4>. QED BY <4>1 DEF InvadingBy
    <3>. QED BY <3>1, <3>2
  <2>. QED BY <2>6 DEF InvadingBy, w
<1>4. CASE ~MayInvade(base, atWar, o.empire, s0, p0)
  <2>1. w = v
    BY <1>2, <1>4 DEF Execute, ExecuteInvade
  <2>2. \A s, p : ~Invades(base, atWar, o, s, p)
    BY <1>4 DEF Invades
  <2>. HIDE DEF w
  <2>3. InvadingBy(base, atWar, v, D \cup {o})
    BY <2>2 DEF InvadingBy
  <2>. QED BY <2>1, <2>3 DEF w
<1>. QED BY <1>3, <1>4

(* One order more.                                                                        *)
LEMMA MergeOne ==
    ASSUME NEW base \in Universes, NEW atWar, NEW v, NEW D, NEW o,
           Merged(base, atWar, v, D), Follows(base, atWar, D, o)
    PROVE  Merged(base, atWar, Execute(v, atWar, o), D \cup {o})
<1>. DEFINE w == Execute(v, atWar, o)
            E == D \cup {o}
<1>1. v \in Universes /\ o \in OrderKinds /\ base.ships \subseteq Ships
  BY DEF Merged, SameBut, Follows, Universes
<1>2. SameBut(base, w) /\ w.troops = base.troops
  BY <1>1, ExecuteSameBut, ExecuteMarks DEF Merged
<1>3. ColonizingBy(w, E)
  <2>1. CASE o.type = "Colonize"
    BY <2>1, MergeColonize DEF Merged
  <2>2. CASE o.type # "Colonize"
    <3>1. w.colonize = v.colonize /\ w.aboutColonized = v.aboutColonized
      BY <1>1, <2>2, ExecuteMarks
    <3>2. \A d \in E : d.type = "Colonize" => d \in D
      BY <2>2
    <3>. HIDE DEF w
    <3>3. \A e, p : NobodyBefore(E, e, p) <=> NobodyBefore(D, e, p)
      BY <3>2 DEF NobodyBefore
    <3>4. ColonizingBy(v, D)
      BY DEF Merged
    <3>5. \A p \in Planets :
             p \in w.aboutColonized <=> \E d \in E : d.type = "Colonize" /\ d.planet = p
      BY <3>1, <3>2, <3>4 DEF ColonizingBy
    <3>6. \A s \in Ships, p \in Planets :
             w.colonize[s] = p <=> \E d \in E : Colonizes(d, s, p) /\ NobodyBefore(E, d.empire, p)
      BY <3>1, <3>2, <3>3, <3>4 DEF ColonizingBy, Colonizes
    <3>. QED BY <3>5, <3>6 DEF ColonizingBy
  <2>. QED BY <2>1, <2>2
<1>4. InvadingBy(base, atWar, w, E)
  <2>1. CASE o.type = "Invade"
    BY <1>1, <2>1, MergeInvade DEF Merged
  <2>2. CASE o.type # "Invade"
    <3>1. w.invade = v.invade
      BY <1>1, <2>2, ExecuteMarks
    <3>2. \A s, p : ~Invades(base, atWar, o, s, p)
      BY <2>2 DEF Invades
    <3>. HIDE DEF w
    <3>. QED BY <3>1, <3>2 DEF Merged, InvadingBy
  <2>. QED BY <2>1, <2>2
<1>5. GivingBy(w, E)
  <2>1. CASE o.type = "Give"
    <3>1. \A x \in Fleets \cup Planets : w.given[x] = v.given[x] \/ x = o.object
      BY <1>1, <2>1 DEF Execute, ExecuteGive, Universes
    <3>. HIDE DEF w
    <3>. QED BY <2>1, <3>1 DEF Merged, GivingBy, Gives
  <2>2. CASE o.type # "Give"
    <3>1. w.given = v.given
      BY <1>1, <2>2, ExecuteMarks
    <3>. HIDE DEF w
    <3>. QED BY <3>1 DEF Merged, GivingBy
  <2>. QED BY <2>1, <2>2
<1>6. ScrappingBy(w, E)
  <2>1. CASE o.type = "Scrap"
    <3>1. w.scrapped \subseteq v.scrapped \cup {o.ship}
      BY <1>1, <2>1 DEF Execute, ExecuteScrap, Universes
    <3>. HIDE DEF w
    <3>. QED BY <2>1, <3>1 DEF Merged, ScrappingBy
  <2>2. CASE o.type # "Scrap"
    <3>1. w.scrapped = v.scrapped
      BY <1>1, <2>2, ExecuteMarks
    <3>. HIDE DEF w
    <3>. QED BY <3>1 DEF Merged, ScrappingBy
  <2>. QED BY <2>1, <2>2
<1>. HIDE DEF w, E
<1>7. Merged(base, atWar, w, E)
  BY <1>2, <1>3, <1>4, <1>5, <1>6 DEF Merged
<1>. QED BY <1>7 DEF w, E

-----------------------------------------------------------------------------
(* All orders of one empire, and of all empires.                                          *)

(* The orders D are legal and of empires before e.                                        *)
Earlier(base, D, e) ==
    \A d \in D :
       /\ d \in OrderKinds /\ d.empire < e
       /\ d.type = "Colonize" => MayColonize(base, d.empire, d.ship, d.planet)

OrdersUpTo(q, i) == {q[j] : j \in 1..i}

LEMMA NextFollows ==
    ASSUME NEW base, NEW atWar, NEW e \in Empires, NEW q, LegalList(base, atWar, e, q),
           NEW D, Earlier(base, D, e), NEW i \in 0..Len(q) - 1
    PROVE  Follows(base, atWar, D \cup OrdersUpTo(q, i), q[i + 1])
<1>. DEFINE o == q[i + 1]
            n == Len(q)
<1>1. /\ n \in Nat /\ i \in Nat /\ i + 1 \in 1..n
      /\ \A j \in 1..i : j \in 1..n /\ j # i + 1
      /\ \A j \in 1..n : q[j] \in OrderKinds /\ q[j].empire = e
  BY DEF LegalList
<1>2. /\ o \in OrderKinds /\ o.empire = e /\ e \in Int
      /\ o.type = "Colonize" => MayColonize(base, e, o.ship, o.planet)
  BY <1>1, OrderEmpires DEF LegalList
<1>3. \A d \in OrdersUpTo(q, i) : \E j \in 1..i : d = q[j]
  BY DEF OrdersUpTo
<1>4. ASSUME NEW d \in D \cup OrdersUpTo(q, i) PROVE d \in OrderKinds /\ d.empire <= o.empire
  <2>1. CASE d \in D
    BY <1>2, <2>1, OrderEmpires DEF Earlier
  <2>2. CASE d \in OrdersUpTo(q, i)
    BY <1>1, <1>2, <1>3, <2>2
  <2>. QED BY <2>1, <2>2
<1>5. ASSUME o.type = "Colonize", NEW d \in D \cup OrdersUpTo(q, i), d.type = "Colonize"
      PROVE  d.ship # o.ship /\ (d.planet = o.planet => d.empire # o.empire)
  <2>1. CASE d \in D
    <3>1. MayColonize(base, d.empire, d.ship, d.planet) /\ d.empire < e /\ d.empire \in Int
      BY <1>5, <2>1, OrderEmpires DEF Earlier
    <3>2. base.owner[d.ship] = d.empire /\ base.owner[o.ship] = e
      BY <1>2, <1>5, <3>1 DEF MayColonize, OwnedShip
    <3>. QED BY <1>2, <3>1, <3>2
  <2>2. CASE d \in OrdersUpTo(q, i)
    <3>1. PICK j \in 1..i : d = q[j]
      BY <1>3, <2>2
    <3>2. j \in 1..n /\ j # i + 1
      BY <1>1
    <3>. QED BY <1>1, <1>5, <3>1, <3>2 DEF LegalList
  <2>. QED BY <2>1, <2>2
<1>6. ASSUME NEW d \in D \cup OrdersUpTo(q, i), NEW s \in Ships, NEW p \in Planets, NEW r \in Planets,
             Invades(base, atWar, d, s, p), Invades(base, atWar, o, s, r)
      PROVE  FALSE
  <2>1. CASE d \in D
    <3>1. d.empire < e /\ d.empire \in Int
      BY <2>1, OrderEmpires DEF Earlier
    <3>2. base.owner[s] = d.empire /\ base.owner[s] = e
      BY <1>2, <1>6 DEF Invades, MayInvade, OwnedShip
    <3>. QED BY <1>2, <3>1, <3>2
  <2>2. CASE d \in OrdersUpTo(q, i)
    <3>1. PICK j \in 1..i : d = q[j]
      BY <1>3, <2>2
    <3>2. j \in 1..n /\ j # i + 1
      BY <1>1
    <3>. QED BY <1>1, <1>6, <3>1, <3>2 DEF LegalList
  <2>. QED BY <2>1, <2>2
<1>. HIDE DEF o
<1>7. Follows(base, atWar, D \cup OrdersUpTo(q, i), o)
  BY <1>2, <1>4, <1>5, <1>6 DEF Follows
<1>. QED BY <1>7 DEF o

LEMMA MergeAll ==
    ASSUME NEW base \in Universes, NEW atWar, NEW e \in Empires, NEW q, LegalList(base, atWar, e, q),
           NEW v, NEW D, Earlier(base, D, e), Merged(base, atWar, v, D)
    PROVE  Merged(base, atWar, ExecuteAll(v, atWar, q), D \cup OrdersUpTo(q, Len(q)))
<1>. DEFINE n == Len(q)
<1>1. q \in Seq(OrderKinds) /\ v \in Universes /\ n \in Nat
  BY DEF LegalList, Merged, SameBut
<1>0. PICK f : ExecutesAll(f, v, atWar, q)
  BY <1>1, ExecuteAllIterates
<1>2. /\ f[0] = v
      /\ \A i \in 1..n : f[i] = Execute(f[i - 1], atWar, q[i])
      /\ ExecuteAll(v, atWar, q) = f[n]
  BY <1>0 DEF ExecutesAll
<1>. DEFINE T == {i \in 0..n : Merged(base, atWar, f[i], D \cup OrdersUpTo(q, i))}
<1>3. 0 \in T
  <2>1. D \cup OrdersUpTo(q, 0) = D
    BY DEF OrdersUpTo
  <2>2. Merged(base, atWar, f[0], D \cup OrdersUpTo(q, 0))
    BY <1>2, <2>1
  <2>. QED BY <1>1, <2>2
<1>4. ASSUME NEW i \in 0..n - 1, i \in T PROVE i + 1 \in T
  <2>1. i + 1 \in 1..n /\ i + 1 \in 0..n /\ i + 1 - 1 = i /\ f[i + 1] = Execute(f[i], atWar, q[i + 1])
    BY <1>1, <1>2
  <2>2. Follows(base, atWar, D \cup OrdersUpTo(q, i), q[i + 1])
    BY NextFollows
  <2>3. Merged(base, atWar, f[i], D \cup OrdersUpTo(q, i))
    BY <1>4
  <2>4. OrdersUpTo(q, i + 1) = OrdersUpTo(q, i) \cup {q[i + 1]}
    <3>1. \A j : j \in 1..i + 1 <=> j \in 1..i \/ j = i + 1
      BY <1>1
    <3>. QED BY <3>1 DEF OrdersUpTo
  <2>5. (D \cup OrdersUpTo(q, i)) \cup {q[i + 1]} = D \cup OrdersUpTo(q, i + 1)
    BY <2>4
  <2>6. Merged(base, atWar, Execute(f[i], atWar, q[i + 1]), (D \cup OrdersUpTo(q, i)) \cup {q[i + 1]})
    BY <2>2, <2>3, MergeOne
  <2>. QED BY <2>1, <2>5, <2>6
<1>5. n \in T
  <2>. HIDE DEF T
  <2>1. 0..n \subseteq T
    BY <1>1, <1>3, <1>4, NatSetInduction
  <2>. QED BY <1>1, <2>1
<1>. QED BY <1>2, <1>5

(* The orders of the empires up to e.                                                      *)
OrdersOfUpTo(orders, e) ==
    {o \in OrderKinds : \E f \in 1..e : \E j \in 1..Len(orders[f]) : o = orders[f][j]}

(* Executing all empires' legal orders on a fresh universe, one set after the other, leaves the *)
(* marks that Merged says: each order to invade that is allowed there, and of the orders to     *)
(* colonize a planet the first empire's (PreCombatProcessTurns, Order::ExecuteImpl).             *)
THEOREM MergeOrders ==
    ASSUME NEW base, Fresh(base), NEW atWar, NEW orders \in [Empires -> Seq(OrderKinds)],
           \A e \in Empires : LegalList(base, atWar, e, orders[e])
    PROVE  Merged(base, atWar, ExecuteOrders(base, atWar, orders), OrdersOfUpTo(orders, NumEmpires))
<1>. DEFINE n == NumEmpires
            Of(e) == OrdersOfUpTo(orders, e)
<1>1. n \in Nat /\ Empires = 1..n /\ base \in Universes
  BY EmpiresCounted DEF Fresh
<1>2. \A e \in Empires : orders[e] \in Seq(OrderKinds)
  OBVIOUS
<1>0. PICK f : ExecutesOrders(f, base, atWar, orders)
  BY <1>1, ExecuteOrdersIterates
<1>3. /\ f[0] = base
      /\ \A e \in 1..n : f[e] = ExecuteAll(f[e - 1], atWar, orders[e])
      /\ ExecuteOrders(base, atWar, orders) = f[n]
  BY <1>0 DEF ExecutesOrders
<1>. DEFINE T == {e \in 0..n : Merged(base, atWar, f[e], Of(e))}
<1>4. 0 \in T
  <2>1. Of(0) = {}
    BY DEF OrdersOfUpTo
  <2>2. base.ships \subseteq Ships
    BY <1>1 DEF Universes
  <2>3. SameBut(base, base)
    BY <1>1 DEF SameBut
  <2>4. Merged(base, atWar, base, {})
    <3>1. ColonizingBy(base, {})
      BY NoPlanetNone DEF Fresh, ColonizingBy
    <3>2. InvadingBy(base, atWar, base, {})
      BY NoPlanetNone DEF Fresh, InvadingBy
    <3>3. GivingBy(base, {}) /\ ScrappingBy(base, {})
      BY DEF Fresh, GivingBy, ScrappingBy
    <3>. QED BY <2>3, <3>1, <3>2, <3>3 DEF Merged
  <2>. HIDE DEF Of
  <2>5. Merged(base, atWar, f[0], Of(0))
    BY <1>3, <2>1, <2>4
  <2>. QED BY <1>1, <2>5
<1>5. ASSUME NEW e \in 0..n - 1, e \in T PROVE e + 1 \in T
  <2>1. /\ e + 1 \in 1..n /\ e + 1 \in 0..n /\ e + 1 \in Empires /\ e + 1 - 1 = e
        /\ f[e + 1] = ExecuteAll(f[e], atWar, orders[e + 1])
    BY <1>1, <1>3
  <2>2. LegalList(base, atWar, e + 1, orders[e + 1])
    BY <2>1
  <2>3. Merged(base, atWar, f[e], Of(e))
    BY <1>5
  <2>4. Earlier(base, Of(e), e + 1)
    <3>1. SUFFICES ASSUME NEW g \in 1..e, NEW j \in 1..Len(orders[g]), orders[g][j] \in OrderKinds
                   PROVE  LET d == orders[g][j]
                          IN  /\ d.empire < e + 1
                              /\ d.type = "Colonize" => MayColonize(base, d.empire, d.ship, d.planet)
      BY DEF Earlier, OrdersOfUpTo
    <3>2. g \in Empires /\ g < e + 1
      BY <1>1
    <3>3. LegalList(base, atWar, g, orders[g])
      BY <3>2
    <3>4. orders[g][j].empire = g
          /\ (orders[g][j].type = "Colonize" =>
                MayColonize(base, g, orders[g][j].ship, orders[g][j].planet))
      BY <3>3 DEF LegalList
    <3>. QED BY <3>2, <3>4
  <2>5. Of(e + 1) = Of(e) \cup OrdersUpTo(orders[e + 1], Len(orders[e + 1]))
    <3>1. \A g : g \in 1..e + 1 <=> g \in 1..e \/ g = e + 1
      BY <1>1
    <3>2. \A j \in 1..Len(orders[e + 1]) : orders[e + 1][j] \in OrderKinds
      BY <1>2, <2>1
    <3>. QED BY <3>1, <3>2 DEF OrdersOfUpTo, OrdersUpTo
  <2>6. Merged(base, atWar, ExecuteAll(f[e], atWar, orders[e + 1]),
               Of(e) \cup OrdersUpTo(orders[e + 1], Len(orders[e + 1])))
    <3>. HIDE DEF Of
    <3>. QED BY <1>1, <2>1, <2>2, <2>3, <2>4, MergeAll
  <2>. QED BY <2>1, <2>5, <2>6
<1>6. n \in T
  <2>. HIDE DEF T
  <2>1. 0..n \subseteq T
    BY <1>1, <1>4, <1>5, NatSetInduction
  <2>. QED BY <1>1, <2>1
<1>. QED BY <1>3, <1>6

-----------------------------------------------------------------------------
(* Ground combat.                                                                           *)

LEMMA PositiveProduct == \A m, n \in Nat : m # 0 /\ n # 0 => m * n # 0
OBVIOUS

(* What a side lands, and has there, without and with the bonus of the garrison.           *)
StrengthIn(u, p, e) ==
    Troop * Cardinality(Landing(u, p, e)) + (IF u.owner[p] = e THEN u.troops[p] ELSE 0)
BonusIn(u, p, e) == IF u.owner[p] = e /\ u.troops[p] > 0 THEN 1 ELSE 0
OwnerAfter(u, p) == IF p \in Contested(u) THEN Victor(u, p) ELSE u.owner[p]

LEMMA LandingEmpty ==
    ASSUME NEW u \in Universes, NEW p, NEW e
    PROVE  Troop * Cardinality(Landing(u, p, e)) = 0 <=> Landing(u, p, e) = {}
<1>1. IsFiniteSet(Landing(u, p, e))
  <2>1. Landing(u, p, e) \subseteq Ships
    BY DEF Landing, Invaders, Universes
  <2>. QED BY <2>1, OrdersAssumption, FS_Subset
<1>. DEFINE c == Cardinality(Landing(u, p, e))
<1>2. c \in Nat /\ (c = 0 <=> Landing(u, p, e) = {})
  BY <1>1, FS_EmptySet, FS_CardinalityType
<1>. HIDE DEF c
<1>3. Troop * c = 0 <=> c = 0
  BY <1>2, PositiveProduct, TroopAssumption
<1>. QED BY <1>2, <1>3 DEF c

LEMMA StrengthTyped ==
    ASSUME NEW u \in Universes, NEW p \in Planets, NEW e
    PROVE  /\ StrengthIn(u, p, e) \in Nat /\ BonusIn(u, p, e) \in {0, 1}
           /\ TroopsOf(u, p, e) = StrengthIn(u, p, e) + BonusIn(u, p, e)
<1>1. Troop * Cardinality(Landing(u, p, e)) \in Nat
  BY LandingCounted, ProductTyped, TroopAssumption
<1>2. u.troops[p] \in Nat
  BY DEF Universes
<1>. DEFINE m == Troop * Cardinality(Landing(u, p, e))
<1>3. /\ StrengthIn(u, p, e) = m + (IF u.owner[p] = e THEN u.troops[p] ELSE 0)
      /\ TroopsOf(u, p, e) = m + (IF u.owner[p] = e /\ u.troops[p] > 0 THEN u.troops[p] + 1 ELSE 0)
  BY DEF StrengthIn, TroopsOf
<1>. HIDE DEF m
<1>4. m \in Nat
  BY <1>1 DEF m
<1>. QED BY <1>2, <1>3, <1>4 DEF BonusIn

(* Those who have troops are the sides.                                                    *)
LEMMA SidesHaveTroops ==
    ASSUME NEW u \in Universes, NEW p \in Planets, NEW e \in Owners
    PROVE  e \in Sides(u, p) <=> TroopsOf(u, p, e) > 0
<1>. DEFINE m == Troop * Cardinality(Landing(u, p, e))
<1>1. m \in Nat /\ (m = 0 <=> Landing(u, p, e) = {})
  BY LandingEmpty, LandingCounted, ProductTyped, TroopAssumption
<1>2. u.troops[p] \in Nat
  BY DEF Universes
<1>3. TroopsOf(u, p, e) = m + (IF u.owner[p] = e /\ u.troops[p] > 0 THEN u.troops[p] + 1 ELSE 0)
  BY DEF TroopsOf
<1>. HIDE DEF m
<1>4. e \in Sides(u, p) <=> m # 0 \/ (u.owner[p] = e /\ u.troops[p] > 0)
  BY <1>1 DEF Sides
<1>. QED BY <1>1, <1>2, <1>3, <1>4

(* ResolveGroundCombat: a planet goes only to who lands the most and more than the garrison,  *)
(* and always to who lands more than all others and than the garrison with its bonus.         *)
THEOREM CombatOutcome ==
    ASSUME NEW u \in Universes, NEW p \in Planets, Landing(u, p, u.owner[p]) = {}
    PROVE  /\ OwnerAfter(u, p) # u.owner[p] =>
                 /\ StrengthIn(u, p, OwnerAfter(u, p)) > StrengthIn(u, p, u.owner[p])
                 /\ \A e \in Owners : StrengthIn(u, p, OwnerAfter(u, p)) >= StrengthIn(u, p, e)
           /\ \A e \in Owners :
                 (\A f \in Owners \ {e} : StrengthIn(u, p, e) > StrengthIn(u, p, f) + BonusIn(u, p, f))
                   => OwnerAfter(u, p) = e
<1>. DEFINE own == u.owner[p]
            V == Victor(u, p)
            S(e) == StrengthIn(u, p, e)
            B(e) == BonusIn(u, p, e)
            T(e) == TroopsOf(u, p, e)
<1>1. own \in Owners
  BY DEF Universes
<1>2. \A e : S(e) \in Nat /\ B(e) \in {0, 1} /\ T(e) = S(e) + B(e)
  BY StrengthTyped
<1>3. \A e \in Owners : e \in Sides(u, p) <=> T(e) > 0
  BY SidesHaveTroops
<1>4. \A e : e # own => B(e) = 0
  BY DEF BonusIn
<1>5. B(own) = 0 => S(own) = 0
  <2>1. Troop * Cardinality(Landing(u, p, own)) = 0
    BY LandingEmpty
  <2>2. u.troops[p] \in Nat
    BY DEF Universes
  <2>3. S(own) = 0 + u.troops[p]
    BY <2>1 DEF StrengthIn
  <2>. QED BY <2>2, <2>3 DEF BonusIn
<1>6. Sides(u, p) # {} =>
         /\ V \in Sides(u, p) /\ V \in Owners
         /\ \A f \in Owners : T(V) >= T(f)
  <2>. SUFFICES ASSUME Sides(u, p) # {}
                PROVE  V \in Sides(u, p) /\ V \in Owners /\ \A f \in Owners : T(V) >= T(f)
    OBVIOUS
  <2>0. /\ Victor(u, p) \in Sides(u, p) /\ Victor(u, p) \in Owners
        /\ \A f \in Sides(u, p) \ {Victor(u, p)} :
              \/ TroopsOf(u, p, Victor(u, p)) > TroopsOf(u, p, f)
              \/ TroopsOf(u, p, Victor(u, p)) = TroopsOf(u, p, f) /\ Victor(u, p) > f
    BY VictorTyped
  <2>1. /\ V \in Sides(u, p) /\ V \in Owners
        /\ \A f \in Sides(u, p) \ {V} : T(V) > T(f) \/ (T(V) = T(f) /\ V > f)
    BY <2>0
  <2>. HIDE DEF V, S, B, T
  <2>2. \A f \in Sides(u, p) : T(V) >= T(f)
    BY <1>2, <2>1
  <2>. QED BY <1>2, <1>3, <2>1, <2>2
<1>7. p \in Contested(u) <=> Sides(u, p) \notin {{}, {own}}
  BY DEF Contested
<1>8. OwnerAfter(u, p) = IF p \in Contested(u) THEN V ELSE own
  BY DEF OwnerAfter
<1>. HIDE DEF own, V, S, B, T
<1>9. ASSUME OwnerAfter(u, p) # own
      PROVE  S(V) > S(own) /\ \A e \in Owners : S(V) >= S(e)
  <2>1. /\ V \in Sides(u, p) /\ V \in Owners /\ V # own
        /\ \A f \in Owners : T(V) >= T(f)
    BY <1>6, <1>7, <1>8, <1>9
  <2>2. S(V) = T(V) /\ T(V) > 0
    BY <1>2, <1>3, <1>4, <2>1
  <2>. QED BY <1>1, <1>2, <1>5, <2>1, <2>2
<1>10. ASSUME NEW e \in Owners, \A f \in Owners \ {e} : S(e) > S(f) + B(f)
       PROVE  OwnerAfter(u, p) = e
  <2>1. \A f \in Owners \ {e} : T(e) > T(f)
    BY <1>2, <1>10
  <2>2. PICK g \in Owners : g # e
    <3>1. NumEmpires \in Nat \ {0}
      BY OrdersAssumption
    <3>2. 1 \in Owners /\ -1 \in Owners
      BY <3>1, OwnersCounted
    <3>. QED BY <3>2
  <2>3. e \in Sides(u, p)
    BY <1>2, <1>3, <2>1, <2>2
  <2>4. CASE p \in Contested(u)
    BY <1>2, <1>6, <1>8, <2>1, <2>3, <2>4
  <2>5. CASE p \notin Contested(u)
    BY <1>7, <1>8, <2>3, <2>5
  <2>. QED BY <2>4, <2>5
<1>11. OwnerAfter(u, p) # own => OwnerAfter(u, p) = V
  BY <1>8
<1>. QED BY <1>9, <1>10, <1>11 DEF own, S, B

-----------------------------------------------------------------------------
(* The phases of a turn, as far as one planet or ship is concerned.                         *)

(* Whatever is given away, what is not given keeps its owner.                                *)
LEMMA GiftingLeaves ==
    ASSUME NEW u \in Universes
    PROVE  /\ HandleGifting(u).scrapped = u.scrapped
           /\ \A p \in Planets : u.given[p] = AllEmpires => HandleGifting(u).owner[p] = u.owner[p]
<1>. DEFINE n == NumEmpires
            collected == [u EXCEPT !.given = [x \in Fleets \cup Planets |-> AllEmpires]]
            Left(v) == /\ v.scrapped = u.scrapped
                       /\ \A p \in Planets : u.given[p] = AllEmpires => v.owner[p] = u.owner[p]
<1>1. n \in Nat /\ Left(collected)
  BY EmpiresCounted DEF Universes
<1>0. PICK f : HandlesGifting(f, u, collected)
  BY GiftingIterates
<1>2. /\ f \in [0..n -> Universes]
      /\ f[0] = collected
      /\ \A r \in 1..n : f[r] = Receive(f[r - 1], GiftsTo(u, r), r)
      /\ HandleGifting(u) = f[n]
  BY <1>0 DEF HandlesGifting
<1>. HIDE DEF collected
<1>. DEFINE T == {r \in 0..n : Left(f[r])}
<1>3. 0 \in T
  <2>. HIDE DEF Left
  <2>. QED BY <1>1, <1>2
<1>4. ASSUME NEW r \in 0..n - 1, r \in T PROVE r + 1 \in T
  <2>. DEFINE v == f[r]
              gifts == GiftsTo(u, r + 1)
              aboard == UNION (gifts \cap Fleets)
              passed == (gifts \cap Planets) \cup (aboard \cap v.ships)
  <2>1. /\ r + 1 \in 1..n /\ r + 1 \in 0..n /\ f[r + 1] = Receive(v, gifts, r + 1)
        /\ v \in Universes /\ Left(v) /\ r + 1 # AllEmpires
    <3>1. r + 1 \in 1..n /\ r + 1 \in 0..n /\ r + 1 - 1 = r /\ r + 1 # -1 /\ r \in 0..n
      BY <1>1
    <3>2. v \in Universes /\ f[r + 1] = Receive(v, gifts, r + 1)
      BY <1>2, <3>1
    <3>. HIDE DEF Left
    <3>. QED BY <1>4, <3>1, <3>2, OwnersCounted
  <2>2. \A p \in Planets : u.given[p] = AllEmpires => p \notin passed
    <3>1. \A p \in Planets : u.given[p] = AllEmpires => p \notin gifts
      BY <2>1 DEF GiftsTo
    <3>2. v.ships \cap Planets = {}
      BY <2>1, OrdersAssumption DEF Universes
    <3>3. \A x \in passed : x \in gifts \/ x \in v.ships
      <4>. HIDE DEF gifts, v, aboard
      <4>1. passed = (gifts \cap Planets) \cup (aboard \cap v.ships)
        OBVIOUS
      <4>. QED BY <4>1
    <3>. HIDE DEF gifts, v, passed
    <3>. QED BY <3>1, <3>2, <3>3
  <2>3. f[r + 1] = [v EXCEPT !.owner = [x \in DOMAIN v.owner |->
                                           IF x \in passed THEN r + 1 ELSE v.owner[x]]]
        \/ f[r + 1] = v
    BY <2>1 DEF Receive
  <2>. HIDE DEF passed, gifts, aboard
  <2>4. /\ f[r + 1].scrapped = v.scrapped
        /\ \A p \in Planets : p \notin passed => f[r + 1].owner[p] = v.owner[p]
    BY <2>1, <2>3 DEF Universes
  <2>5. Left(f[r + 1])
    BY <2>1, <2>2, <2>4
  <2>. HIDE DEF Left
  <2>. QED BY <2>1, <2>5
<1>5. n \in T
  <2>. HIDE DEF T
  <2>1. 0..n \subseteq T
    BY <1>1, <1>3, <1>4, NatSetInduction
  <2>. QED BY <1>1, <2>1
<1>. QED BY <1>2, <1>5

(* HandleColonization. A settler is gone; ships that did not settle stay, and planets on     *)
(* which nobody settled keep their owners.                                                    *)
LEMMA ColonizationOutcome ==
    ASSUME NEW u \in Universes, NEW atWar
    PROVE  /\ HandleColonization(u, atWar).invade = u.invade
           /\ HandleColonization(u, atWar).troops = u.troops
           /\ HandleColonization(u, atWar).scrapped = u.scrapped
           /\ HandleColonization(u, atWar).given = u.given
           /\ HandleColonization(u, atWar).ships \subseteq u.ships
           /\ \A s \in u.ships : s \notin HandleColonization(u, atWar).ships =>
                 \E p \in Colonized(u, atWar) : s \in Colonizers(u, p)
           /\ \A s \in Ships : HandleColonization(u, atWar).owner[s] = u.owner[s]
           /\ \A p \in Planets :
                 IF p \in Colonized(u, atWar)
                 THEN \E s \in Colonizers(u, p) : HandleColonization(u, atWar).owner[p] = u.owner[s]
                 ELSE HandleColonization(u, atWar).owner[p] = u.owner[p]
<1>. DEFINE w == HandleColonization(u, atWar)
            planets == Colonized(u, atWar)
            settler == [p \in planets |-> CHOOSE s \in Colonizers(u, p) : TRUE]
            settlers == {settler[p] : p \in planets}
<1>1. \A p \in planets : p \in Planets /\ settler[p] \in Colonizers(u, p)
  <2>1. \A p \in planets : p \in Planets /\ Colonizers(u, p) # {}
    BY DEF Colonized, EmpiresColonizing
  <2>. QED BY <2>1
<1>2. Ships \cap Planets = {}
  BY OrdersAssumption
<1>3. /\ w.invade = u.invade /\ w.troops = u.troops /\ w.scrapped = u.scrapped
      /\ w.given = u.given /\ w.ships = u.ships \ settlers
      /\ w.owner = [x \in DOMAIN u.owner |-> IF x \in planets THEN u.owner[settler[x]] ELSE u.owner[x]]
  BY DEF HandleColonization, Universes
<1>4. DOMAIN u.owner = Ships \cup Planets
  BY DEF Universes
<1>. HIDE DEF w, planets, settler
<1>5. \A s \in u.ships : s \notin w.ships => \E p \in planets : s \in Colonizers(u, p)
  BY <1>1, <1>3
<1>6. \A s \in Ships : w.owner[s] = u.owner[s]
  BY <1>1, <1>2, <1>3, <1>4
<1>7. \A p \in Planets : IF p \in planets
                         THEN \E s \in Colonizers(u, p) : w.owner[p] = u.owner[s]
                         ELSE w.owner[p] = u.owner[p]
  BY <1>1, <1>3, <1>4
<1>. QED BY <1>3, <1>5, <1>6, <1>7 DEF w, planets

LEMMA InvasionOutcome ==
    ASSUME NEW u \in Universes
    PROVE  /\ HandleInvasion(u).ships = u.ships \ Invaders(u)
           /\ HandleInvasion(u).scrapped = u.scrapped
           /\ HandleInvasion(u).given = u.given
           /\ \A p \in Planets : HandleInvasion(u).owner[p] = OwnerAfter(u, p)
<1>. DEFINE fought == Contested(u)
            taken == {p \in fought : Victor(u, p) # u.owner[p]}
            w == HandleInvasion(u)
<1>1. /\ w.ships = u.ships \ Invaders(u) /\ w.scrapped = u.scrapped /\ w.given = u.given
      /\ w.owner = [x \in DOMAIN u.owner |-> IF x \in taken THEN Victor(u, x) ELSE u.owner[x]]
  BY DEF HandleInvasion, Universes
<1>2. DOMAIN u.owner = Ships \cup Planets
  BY DEF Universes
<1>. HIDE DEF w, fought
<1>3. \A p \in Planets : w.owner[p] = IF p \in fought THEN Victor(u, p) ELSE u.owner[p]
  BY <1>1, <1>2
<1>. QED BY <1>1, <1>3 DEF OwnerAfter, w, fought

-----------------------------------------------------------------------------
(* What players see of their own orders, and what the orders do together.                    *)

(* A turn that is processed: its universes after each phase.                                  *)
OrdersGiven == [e \in Empires |-> plan[e].orders]
AllOrders == OrdersOfUpTo(OrdersGiven, NumEmpires)
Ordered == ExecuteOrders(universe, war, OrdersGiven)
Settled == HandleColonization(Ordered, war)
Fought == HandleInvasion(Settled)

LEMMA OrderedMerged ==
    ASSUME TurnInv
    PROVE  /\ Merged(universe, war, Ordered, AllOrders)
           /\ universe \in Universes /\ Ordered \in Universes
           /\ Settled \in Universes /\ Fought \in Universes
<1>1. Fresh(universe) /\ universe \in Universes
  BY DEF TurnInv, OrdersTypeOK
<1>2. \A e \in Empires : plan[e].orders \in Seq(OrderKinds)
  BY PlanFields DEF TurnInv, OrdersTypeOK
<1>3. OrdersGiven \in [Empires -> Seq(OrderKinds)]
  BY <1>2 DEF OrdersGiven
<1>4. \A e \in Empires : LegalList(universe, war, e, OrdersGiven[e])
  BY DEF TurnInv, PlanOK, OrdersGiven
<1>5. Merged(universe, war, Ordered, AllOrders)
  BY <1>1, <1>3, <1>4, MergeOrders DEF Ordered, AllOrders
<1>6. Ordered \in Universes
  BY <1>5 DEF Merged, SameBut
<1>. QED BY <1>1, <1>5, <1>6, ColonizationTyped, InvasionTyped DEF Settled, Fought

(* The orders are those in the players' order sets.                                            *)
LEMMA WhoseOrders ==
    ASSUME TurnInv
    PROVE  /\ \A e \in Empires : \A i \in 1..Len(plan[e].orders) :
                 plan[e].orders[i] \in AllOrders /\ plan[e].orders[i].empire = e
           /\ \A d \in AllOrders :
                 /\ d \in OrderKinds /\ d.empire \in Empires
                 /\ \E i \in 1..Len(plan[d.empire].orders) : d = plan[d.empire].orders[i]
<1>1. \A e \in Empires : LegalList(universe, war, e, plan[e].orders)
  BY DEF TurnInv, PlanOK
<1>2. ASSUME NEW e \in Empires, NEW i \in 1..Len(plan[e].orders)
      PROVE  /\ plan[e].orders[i] \in OrderKinds /\ plan[e].orders[i].empire = e
  <2>1. LegalList(universe, war, e, plan[e].orders)
    BY <1>1
  <2>. QED BY <2>1 DEF LegalList
<1>3. \A e \in Empires : e \in 1..NumEmpires /\ OrdersGiven[e] = plan[e].orders
  BY EmpiresCounted DEF OrdersGiven
<1>4. \A e \in 1..NumEmpires : e \in Empires
  BY EmpiresCounted
<1>5. ASSUME NEW e \in Empires, NEW i \in 1..Len(plan[e].orders) PROVE plan[e].orders[i] \in AllOrders
  BY <1>2, <1>3 DEF AllOrders, OrdersOfUpTo
<1>6. ASSUME NEW d \in AllOrders
      PROVE  /\ d \in OrderKinds /\ d.empire \in Empires
             /\ \E i \in 1..Len(plan[d.empire].orders) : d = plan[d.empire].orders[i]
  <2>1. PICK e \in 1..NumEmpires : \E j \in 1..Len(OrdersGiven[e]) : d = OrdersGiven[e][j]
    BY DEF AllOrders, OrdersOfUpTo
  <2>2. e \in Empires /\ OrdersGiven[e] = plan[e].orders
    BY <1>3, <1>4
  <2>3. PICK j \in 1..Len(plan[e].orders) : d = plan[e].orders[j]
    BY <2>1, <2>2
  <2>. QED BY <1>2, <2>2, <2>3
<1>. QED BY <1>2, <1>5, <1>6

LEMMA ShownInvading ==
    ASSUME TurnInv, NEW s \in universe.ships, NEW p \in Planets
    PROVE  /\ Ordered.invade[s] = p => universe.owner[s] \in Empires /\ s \in TroopShips
           /\ \A e \in Empires : plan[e].universe.invade[s] = p
                                   <=> Ordered.invade[s] = p /\ universe.owner[s] = e
<1>1. Ordered.invade[s] = p <=> \E d \in AllOrders : Invades(universe, war, d, s, p)
  BY OrderedMerged DEF Merged, InvadingBy
<1>2. \A d : Invades(universe, war, d, s, p) => universe.owner[s] = d.empire /\ s \in TroopShips
  BY DEF Invades, MayInvade, OwnedShip
<1>3. ASSUME NEW e \in Empires
      PROVE  plan[e].universe.invade[s] = p <=> Ordered.invade[s] = p /\ universe.owner[s] = e
  <2>1. plan[e].universe.invade[s] = p
          <=> \E i \in 1..Len(plan[e].orders) : Invades(universe, war, plan[e].orders[i], s, p)
    BY DEF TurnInv, PlanOK, Reflects, ShowsInvading
  <2>. QED BY <1>1, <1>2, <2>1, WhoseOrders
<1>. QED BY <1>1, <1>2, <1>3, WhoseOrders

LEMMA ShownColonizers ==
    ASSUME TurnInv, NEW e \in Empires, NEW p \in Planets
    PROVE  \A s \in Ships : plan[e].universe.colonize[s] = p
                              <=> \E d \in AllOrders : d.empire = e /\ Colonizes(d, s, p)
<1>1. \A s \in Ships :
         plan[e].universe.colonize[s] = p
           <=> \E i \in 1..Len(plan[e].orders) : Colonizes(plan[e].orders[i], s, p)
  BY DEF TurnInv, PlanOK, Reflects, ShowsColonizing
<1>. QED BY <1>1, WhoseOrders

(* A ship that colonizes is its empire's, has no other order to colonize and none to invade.    *)
LEMMA ColonizersFree ==
    ASSUME TurnInv, NEW d \in AllOrders, d.type = "Colonize"
    PROVE  /\ d.ship \in Ships /\ d.planet \in Planets /\ d.empire \in Empires
           /\ d.ship \in universe.ships /\ universe.owner[d.ship] = d.empire
           /\ \A c \in AllOrders : c.type = "Colonize" /\ c.ship = d.ship => c = d
           /\ \A p \in Planets : Ordered.invade[d.ship] # p
<1>. DEFINE e == d.empire
            q == plan[e].orders
            s == d.ship
<1>1. /\ d \in OrderKinds /\ e \in Empires
      /\ \E i \in 1..Len(q) : d = q[i]
  BY WhoseOrders
<1>2. LegalList(universe, war, e, q)
  BY <1>1 DEF TurnInv, PlanOK
<1>3. s \in Ships /\ d.planet \in Planets
  BY <1>1, OrderCases
<1>4. PICK i \in 1..Len(q) : d = q[i]
  BY <1>1
<1>5. s \in universe.ships /\ universe.owner[s] = e
  BY <1>2, <1>4 DEF LegalList, MayColonize, OwnedShip
<1>6. ASSUME NEW c \in AllOrders, c.type = "Colonize", c.ship = s PROVE c = d
  <2>1. /\ c \in OrderKinds /\ c.empire \in Empires
        /\ \E j \in 1..Len(plan[c.empire].orders) : c = plan[c.empire].orders[j]
    BY WhoseOrders
  <2>2. LegalList(universe, war, c.empire, plan[c.empire].orders)
    BY <2>1 DEF TurnInv, PlanOK
  <2>3. universe.owner[s] = c.empire
    BY <1>6, <2>1, <2>2 DEF LegalList, MayColonize, OwnedShip
  <2>4. PICK j \in 1..Len(q) : c = q[j]
    BY <1>5, <2>1, <2>3
  <2>5. i = j
    BY <1>2, <1>4, <1>6, <2>4 DEF LegalList
  <2>. QED BY <1>4, <2>4, <2>5
<1>7. ASSUME NEW p \in Planets, Ordered.invade[s] = p PROVE FALSE
  <2>1. PICK c \in AllOrders : Invades(universe, war, c, s, p)
    BY <1>5, <1>7, OrderedMerged DEF Merged, InvadingBy
  <2>2. c.empire = e
    BY <1>5, <2>1 DEF Invades, MayInvade, OwnedShip
  <2>3. PICK j \in 1..Len(q) : c = q[j]
    BY <2>2, WhoseOrders
  <2>4. OneTask(universe, war, q)
    BY <1>2 DEF LegalList
  <2>. QED BY <1>3, <1>4, <2>1, <2>3, <2>4 DEF OneTask
<1>. QED BY <1>1, <1>3, <1>5, <1>6, <1>7

LEMMA ShownGiving ==
    ASSUME TurnInv, NEW p \in Planets, ~GivenAway(p)
    PROVE  Ordered.given[p] = AllEmpires
<1>. SUFFICES ASSUME Ordered.given[p] # AllEmpires PROVE FALSE
  OBVIOUS
<1>1. PICK d \in AllOrders : Gives(d, p)
  BY OrderedMerged DEF Merged, GivingBy
<1>2. PICK i \in 1..Len(plan[d.empire].orders) : d = plan[d.empire].orders[i]
  BY WhoseOrders
<1>. DEFINE e == d.empire
            q == plan[e].orders
<1>3. e \in Empires /\ q \in Seq(OrderKinds)
  BY WhoseOrders, PlanFields DEF TurnInv, OrdersTypeOK
<1>4. GivenBy(q, p, plan[e].universe.given[p])
  BY <1>3 DEF TurnInv, PlanOK, Reflects, ShowsGiving
<1>5. PICK j \in 1..Len(q) : Gives(q[j], p) /\ q[j].recipient = plan[e].universe.given[p]
  BY <1>1, <1>2, <1>4 DEF GivenBy
<1>6. q[j] \in OrderKinds /\ q[j].type = "Give"
  BY <1>3, <1>5 DEF Gives
<1>7. q[j].recipient \in Empires
  BY <1>6, OrderCases
<1>8. AllEmpires \notin Empires
  BY EmpiresCounted, OwnersCounted
<1>. QED BY <1>3, <1>5, <1>7, <1>8 DEF GivenAway

-----------------------------------------------------------------------------
(* The phases of the turn that is processed.                                                   *)

LEMMA TurnPhases ==
    ASSUME TurnInv
    PROVE  /\ universe.ships \subseteq Ships
           /\ Ordered.ships = universe.ships /\ Ordered.owner = universe.owner
           /\ Settled.ships \subseteq universe.ships
           /\ Settled.invade = Ordered.invade /\ Settled.troops = universe.troops
           /\ \A s \in Ships : Settled.owner[s] = universe.owner[s]
           /\ Fought.ships = Settled.ships \ Invaders(Settled)
           /\ Fought.scrapped = Ordered.scrapped /\ Fought.given = Ordered.given
           /\ \A p \in Planets : Fought.owner[p] = OwnerAfter(Settled, p)
<1>1. /\ universe \in Universes /\ Ordered \in Universes /\ Settled \in Universes
      /\ Ordered.ships = universe.ships /\ Ordered.owner = universe.owner
      /\ Ordered.troops = universe.troops
  BY OrderedMerged DEF Merged, SameBut
<1>2. /\ Settled.invade = Ordered.invade /\ Settled.troops = Ordered.troops
      /\ Settled.scrapped = Ordered.scrapped /\ Settled.given = Ordered.given
      /\ Settled.ships \subseteq Ordered.ships
      /\ \A s \in Ships : Settled.owner[s] = Ordered.owner[s]
  BY <1>1, ColonizationOutcome DEF Settled
<1>3. /\ Fought.ships = Settled.ships \ Invaders(Settled)
      /\ Fought.scrapped = Settled.scrapped /\ Fought.given = Settled.given
      /\ \A p \in Planets : Fought.owner[p] = OwnerAfter(Settled, p)
  BY <1>1, InvasionOutcome DEF Fought
<1>4. universe.ships \subseteq Ships
  BY <1>1 DEF Universes
<1>. QED BY <1>1, <1>2, <1>3, <1>4

LEMMA TurnEnds ==
    ASSUME TurnInv, ProcessTurn
    PROVE  /\ universe'.ships = Fought.ships \ Ordered.scrapped
           /\ \A p \in Planets : ~GivenAway(p) => universe'.owner[p] = Fought.owner[p]
           /\ \A s \in Ships : universe'.colonize[s] = NoPlanet
<1>. DEFINE received == HandleGifting(Fought)
<1>1. universe' = HandleScrapping(received)
  BY DEF ProcessTurn, PreCombatProcessTurns, Fought, Settled, Ordered, OrdersGiven
<1>2. Fought \in Universes
  BY OrderedMerged
<1>3. /\ received \in Universes /\ received.ships = Fought.ships
      /\ received.scrapped = Fought.scrapped
      /\ \A p \in Planets : Fought.given[p] = AllEmpires => received.owner[p] = Fought.owner[p]
  BY <1>2, GiftingKeeps, GiftingLeaves
<1>. HIDE DEF received
<1>4. /\ universe'.ships = received.ships \ received.scrapped
      /\ universe'.owner = received.owner
  BY <1>1, <1>3 DEF HandleScrapping, Universes
<1>5. \A s \in Ships : universe'.colonize[s] = NoPlanet
  <2>1. Fresh(universe)'
    BY ProcessTurnKeeps DEF TurnInv
  <2>. QED BY <2>1 DEF Fresh
<1>6. \A p \in Planets : ~GivenAway(p) => Fought.given[p] = AllEmpires
  BY TurnPhases, ShownGiving
<1>. QED BY <1>3, <1>4, <1>5, <1>6, TurnPhases

(* Whom the server lets colonize a planet: the first of the empires that see themselves do so. *)
LEMMA ColonizersShown ==
    ASSUME TurnInv, NEW p \in Planets
    PROVE  \A s \in Ships :
              s \in Colonizers(Ordered, p)
                <=> \E d \in AllOrders : Colonizes(d, s, p) /\ NobodyBefore(AllOrders, d.empire, p)
<1>1. \A s \in Ships :
         Ordered.colonize[s] = p
           <=> \E d \in AllOrders : Colonizes(d, s, p) /\ NobodyBefore(AllOrders, d.empire, p)
  BY OrderedMerged DEF Merged, ColonizingBy
<1>2. ASSUME NEW s \in Ships, NEW d \in AllOrders, Colonizes(d, s, p)
      PROVE  s \in Ordered.ships /\ Ordered.owner[s] \in Empires
  BY <1>2, ColonizersFree, TurnPhases DEF Colonizes
<1>. QED BY <1>1, <1>2 DEF Colonizers

LEMMA WhoWants ==
    ASSUME TurnInv, NEW p \in Planets
    PROVE  /\ ShownColonizing(p) \subseteq Empires
           /\ \A e : e \in ShownColonizing(p)
                       <=> \E d \in AllOrders : d.type = "Colonize" /\ d.planet = p /\ d.empire = e
<1>1. \A e \in Empires :
         e \in ShownColonizing(p)
           <=> \E s \in Ships : \E d \in AllOrders : d.empire = e /\ Colonizes(d, s, p)
  BY ShownColonizers DEF ShownColonizing
<1>2. \A d \in AllOrders : d.type = "Colonize" => d.ship \in Ships /\ d.empire \in Empires
  BY ColonizersFree
<1>3. ShownColonizing(p) \subseteq Empires
  BY DEF ShownColonizing
<1>. QED BY <1>1, <1>2, <1>3 DEF Colonizes

(* The ships that land on a planet are those that their owners see invade it, and nobody lands  *)
(* on a planet of its own.                                                                      *)
LEMMA LandingShown ==
    ASSUME TurnInv, NEW p \in Planets
    PROVE  /\ \A e \in Empires : Landing(Settled, p, e) = Invading(e, p)
           /\ \A e : e \notin Empires => Landing(Settled, p, e) = {}
           /\ Landing(Settled, p, universe.owner[p]) = {}
<1>1. p # NoPlanet
  BY NoPlanetNone
<1>2. ASSUME NEW s \in Settled.ships, Settled.invade[s] = p
      PROVE  /\ s \in universe.ships /\ Settled.owner[s] = universe.owner[s]
             /\ Ordered.invade[s] = p /\ universe.owner[s] \in Empires /\ s \in TroopShips
  BY <1>2, TurnPhases, ShownInvading
<1>3. ASSUME NEW s \in universe.ships, Ordered.invade[s] = p
      PROVE  s \in Settled.ships
  <2>1. ASSUME s \notin Settled.ships PROVE FALSE
    <3>1. PICK r \in Colonized(Ordered, war) : s \in Colonizers(Ordered, r)
      BY <2>1, OrderedMerged, TurnPhases, ColonizationOutcome DEF Settled
    <3>2. r \in Planets /\ s \in Ships
      BY <3>1, TurnPhases DEF Colonized
    <3>3. PICK d \in AllOrders : Colonizes(d, s, r)
      BY <3>1, <3>2, ColonizersShown
    <3>. QED BY <1>3, <3>3, ColonizersFree DEF Colonizes
  <2>. QED BY <2>1
<1>4. ASSUME NEW e
      PROVE  Landing(Settled, p, e) = {s \in universe.ships : Ordered.invade[s] = p /\ universe.owner[s] = e}
  <2>1. ASSUME NEW s \in Landing(Settled, p, e)
        PROVE  s \in universe.ships /\ Ordered.invade[s] = p /\ universe.owner[s] = e
    BY <1>2 DEF Landing, Invaders
  <2>2. ASSUME NEW s \in universe.ships, Ordered.invade[s] = p, universe.owner[s] = e
        PROVE  s \in Landing(Settled, p, e)
    <3>1. s \in Settled.ships /\ s \in TroopShips
      BY <1>3, <2>2, ShownInvading
    <3>2. Settled.invade[s] = p /\ Settled.owner[s] = e
      BY <2>2, TurnPhases
    <3>. QED BY <1>1, <3>1, <3>2 DEF Landing, Invaders
  <2>. QED BY <2>1, <2>2
<1>5. ASSUME NEW e \in Empires PROVE Landing(Settled, p, e) = Invading(e, p)
  <2>1. \A s \in universe.ships :
           plan[e].universe.invade[s] = p <=> Ordered.invade[s] = p /\ universe.owner[s] = e
    BY ShownInvading
  <2>. QED BY <1>4, <2>1 DEF Invading
<1>6. ASSUME NEW e, e \notin Empires PROVE Landing(Settled, p, e) = {}
  <2>1. \A s \in universe.ships : Ordered.invade[s] = p => universe.owner[s] # e
    BY <1>6, ShownInvading
  <2>. QED BY <1>4, <2>1
<1>7. Landing(Settled, p, universe.owner[p]) = {}
  <2>1. ASSUME NEW s \in universe.ships, Ordered.invade[s] = p, universe.owner[s] = universe.owner[p]
        PROVE  FALSE
    <3>1. PICK d \in AllOrders : Invades(universe, war, d, s, p)
      BY <2>1, OrderedMerged DEF Merged, InvadingBy
    <3>2. MayInvade(universe, war, d.empire, s, p) /\ d.empire \in Empires
      BY <3>1, WhoseOrders DEF Invades
    <3>3. universe.owner[s] = d.empire
      BY <3>2 DEF MayInvade, OwnedShip
    <3>4. d.empire # AllEmpires
      BY <3>2, EmpiresCounted, OwnersCounted
    <3>. QED BY <2>1, <3>2, <3>3, <3>4 DEF MayInvade
  <2>. QED BY <1>4, <2>1
<1>. QED BY <1>5, <1>6, <1>7

-----------------------------------------------------------------------------
(* Conquest.                                                                                    *)

LEMMA LandedTroops ==
    ASSUME TurnInv, NEW p \in Planets, Settled.owner[p] = universe.owner[p], NEW e \in Owners
    PROVE  StrengthIn(Settled, p, e) = Strength(e, p) /\ BonusIn(Settled, p, e) = Bonus(e, p)
<1>1. Settled.troops = universe.troops
  BY TurnPhases
<1>2. Troop * Cardinality(Landing(Settled, p, e))
        = IF e \in Empires THEN Troop * Cardinality(Invading(e, p)) ELSE 0
  <2>1. CASE e \in Empires
    BY <2>1, LandingShown
  <2>2. CASE e \notin Empires
    BY <2>2, LandingShown, LandingEmpty, OrderedMerged
  <2>. QED BY <2>1, <2>2
<1>. QED BY <1>1, <1>2 DEF StrengthIn, BonusIn, Strength, Bonus

LEMMA Conquered ==
    ASSUME TurnInv, ProcessTurn, NEW p \in Planets, ~GivenAway(p), ShownColonizing(p) = {}
    PROVE  /\ universe'.owner[p] # universe.owner[p] =>
                 /\ Strength(universe'.owner[p], p) > Strength(universe.owner[p], p)
                 /\ \A e \in Empires : Strength(universe'.owner[p], p) >= Strength(e, p)
           /\ \A e \in Empires :
                 (\A f \in Owners \ {e} : Strength(e, p) > Strength(f, p) + Bonus(f, p))
                    => universe'.owner[p] = e
<1>. DEFINE own == universe.owner[p]
            new == universe'.owner[p]
            A(e) == StrengthIn(Settled, p, e)
            B(e) == BonusIn(Settled, p, e)
<1>1. Settled.owner[p] = own
  <2>1. \A s \in Ships : s \notin Colonizers(Ordered, p)
    BY ColonizersShown, WhoWants DEF Colonizes
  <2>2. p \notin Colonized(Ordered, war)
    <3>1. Colonizers(Ordered, p) \subseteq Ships
      BY OrderedMerged DEF Colonizers, Universes
    <3>. QED BY <2>1, <3>1 DEF Colonized, EmpiresColonizing
  <2>3. Settled.owner[p] = Ordered.owner[p]
    BY <2>2, OrderedMerged, ColonizationOutcome DEF Settled
  <2>. QED BY <2>3, TurnPhases
<1>2. new = OwnerAfter(Settled, p)
  BY TurnEnds, TurnPhases
<1>3. own \in Owners /\ new \in Owners
  <2>1. new = Fought.owner[p]
    BY TurnEnds
  <2>. QED BY <2>1, OrderedMerged DEF Universes
<1>4. \A e \in Owners : A(e) = Strength(e, p) /\ B(e) = Bonus(e, p)
  BY <1>1, LandedTroops
<1>5. /\ new # own => A(new) > A(own) /\ \A e \in Owners : A(new) >= A(e)
      /\ \A e \in Owners : (\A f \in Owners \ {e} : A(e) > A(f) + B(f)) => new = e
  <2>1. Settled \in Universes /\ Landing(Settled, p, Settled.owner[p]) = {}
    BY <1>1, OrderedMerged, LandingShown
  <2>2. /\ OwnerAfter(Settled, p) # Settled.owner[p] =>
              /\ StrengthIn(Settled, p, OwnerAfter(Settled, p))
                   > StrengthIn(Settled, p, Settled.owner[p])
              /\ \A e \in Owners :
                    StrengthIn(Settled, p, OwnerAfter(Settled, p)) >= StrengthIn(Settled, p, e)
        /\ \A e \in Owners :
              (\A f \in Owners \ {e} :
                  StrengthIn(Settled, p, e) > StrengthIn(Settled, p, f) + BonusIn(Settled, p, f))
                => OwnerAfter(Settled, p) = e
    BY <2>1, CombatOutcome
  <2>. QED BY <1>1, <1>2, <2>2
<1>. HIDE DEF own, new, A, B
<1>6. Empires \subseteq Owners
  BY DEF Owners
<1>7. new # own =>
         /\ Strength(new, p) > Strength(own, p)
         /\ \A e \in Empires : Strength(new, p) >= Strength(e, p)
  BY <1>3, <1>4, <1>5, <1>6
<1>8. ASSUME NEW e \in Empires, \A f \in Owners \ {e} : Strength(e, p) > Strength(f, p) + Bonus(f, p)
      PROVE  new = e
  <2>1. \A f \in Owners \ {e} : A(e) > A(f) + B(f)
    BY <1>4, <1>6, <1>8
  <2>. QED BY <1>5, <1>6, <2>1
<1>. QED BY <1>7, <1>8 DEF own, new

(* A planet changes hands in a ground combat only to who lands the most troops and more than the *)
(* garrison, and always to who lands more than all others and than the garrison with its bonus   *)
(* (HandleInvasion, ResolveGroundCombat), however the empires' orders are executed before.        *)
THEOREM ConquestByTroops == Spec => ConquerorsLandedMost
<1>1. TurnInv /\ [Next]_vars =>
        [ProcessTurn =>
           \A p \in Planets : ~GivenAway(p) /\ ShownColonizing(p) = {} =>
             LET before == universe.owner[p]
                 after == universe'.owner[p]
             IN /\ after # before =>
                     /\ Strength(after, p) > Strength(before, p)
                     /\ \A e \in Empires : Strength(after, p) >= Strength(e, p)
                /\ \A e \in Empires :
                     (\A f \in Owners \ {e} : Strength(e, p) > Strength(f, p) + Bonus(f, p))
                        => after = e]_vars
  BY Conquered
<1>. QED BY <1>1, TurnInvariant, PTL DEF Spec, ConquerorsLandedMost

-----------------------------------------------------------------------------
(* Colonization.                                                                                 *)

(* The ships that the server takes for colonizers of the planet are those of the first empire.    *)
LEMMA FirstHas ==
    ASSUME TurnInv, NEW p \in Planets, ShownColonizing(p) # {}
    PROVE  /\ Min(ShownColonizing(p)) \in Empires
           /\ \A e \in ShownColonizing(p) : Min(ShownColonizing(p)) <= e
           /\ EmpiresColonizing(Ordered, p) = {Min(ShownColonizing(p))}
<1>. DEFINE wanting == ShownColonizing(p)
            first == Min(wanting)
<1>1. wanting \subseteq Empires /\ Empires \subseteq Nat
  BY WhoWants, EmpiresCounted
<1>2. first \in wanting /\ \A e \in wanting : first <= e
  BY <1>1, SmallestOf
<1>3. \A e : e \in wanting <=> \E d \in AllOrders : d.type = "Colonize" /\ d.planet = p /\ d.empire = e
  BY WhoWants
<1>. HIDE DEF wanting, first
<1>4. first \in Nat /\ \A d \in AllOrders : d.empire \in Nat
  BY <1>1, <1>2, WhoseOrders
<1>5. Colonizers(Ordered, p) \subseteq Ships
  BY OrderedMerged DEF Colonizers, Universes
<1>6. PICK c \in AllOrders : c.type = "Colonize" /\ c.planet = p /\ c.empire = first
  BY <1>2, <1>3
<1>7. \A d \in AllOrders : d.type = "Colonize" /\ d.planet = p => first <= d.empire
  BY <1>2, <1>3
<1>8. ASSUME NEW s \in Colonizers(Ordered, p) PROVE Ordered.owner[s] = first
  <2>1. PICK d \in AllOrders : Colonizes(d, s, p) /\ NobodyBefore(AllOrders, d.empire, p)
    BY <1>5, ColonizersShown
  <2>2. d.empire <= first /\ first <= d.empire
    BY <1>6, <1>7, <2>1 DEF NobodyBefore, Colonizes
  <2>3. Ordered.owner[s] = d.empire
    BY <2>1, ColonizersFree, TurnPhases DEF Colonizes
  <2>. QED BY <1>4, <2>2, <2>3
<1>9. c.ship \in Colonizers(Ordered, p)
  <2>1. c.ship \in Ships /\ Colonizes(c, c.ship, p)
    BY <1>6, ColonizersFree DEF Colonizes
  <2>2. NobodyBefore(AllOrders, c.empire, p)
    BY <1>6, <1>7 DEF NobodyBefore
  <2>. QED BY <2>1, <2>2, ColonizersShown
<1>10. EmpiresColonizing(Ordered, p) = {first}
  BY <1>8, <1>9 DEF EmpiresColonizing
<1>. QED BY <1>1, <1>2, <1>10 DEF wanting, first

LEMMA FirstSettles ==
    ASSUME TurnInv, ProcessTurn, NEW p \in Planets, ShownColonizing(p) # {}, ~GivenAway(p),
           \A e \in Empires : Invading(e, p) = {}
    PROVE  universe'.owner[p] = IF Blocked(universe, war, Min(ShownColonizing(p)))
                                THEN universe.owner[p] ELSE Min(ShownColonizing(p))
<1>. DEFINE first == Min(ShownColonizing(p))
<1>1. first \in Empires /\ EmpiresColonizing(Ordered, p) = {first}
  BY FirstHas
<1>2. Blocked(Ordered, war, first) <=> Blocked(universe, war, first)
  BY TurnPhases DEF Blocked
<1>. HIDE DEF first
<1>3. p \in Colonized(Ordered, war) <=> ~Blocked(universe, war, first)
  BY <1>1, <1>2 DEF Colonized
<1>4. Settled.owner[p] = IF Blocked(universe, war, first) THEN universe.owner[p] ELSE first
  <2>1. IF p \in Colonized(Ordered, war)
        THEN \E s \in Colonizers(Ordered, p) : Settled.owner[p] = Ordered.owner[s]
        ELSE Settled.owner[p] = Ordered.owner[p]
    BY OrderedMerged, ColonizationOutcome DEF Settled
  <2>2. \A s \in Colonizers(Ordered, p) : Ordered.owner[s] = first
    BY <1>1 DEF EmpiresColonizing
  <2>. QED BY <1>3, <2>1, <2>2, TurnPhases
<1>5. p \notin Contested(Settled)
  <2>1. \A e : Landing(Settled, p, e) = {}
    BY LandingShown
  <2>2. Sides(Settled, p) \subseteq {Settled.owner[p]}
    BY <2>1 DEF Sides
  <2>. QED BY <2>2 DEF Contested
<1>6. universe'.owner[p] = Settled.owner[p]
  BY <1>5, TurnEnds, TurnPhases DEF OwnerAfter
<1>. QED BY <1>4, <1>6 DEF first

LEMMA OthersStay ==
    ASSUME TurnInv, ProcessTurn, NEW p \in Planets, ShownColonizing(p) # {},
           NEW e \in ShownColonizing(p) \ {Min(ShownColonizing(p))}, NEW s \in Ships,
           plan[e].universe.colonize[s] = p, ~ToldToScrap(s)
    PROVE  s \in universe'.ships /\ universe'.colonize[s] = NoPlanet
<1>. DEFINE first == Min(ShownColonizing(p))
<1>1. first \in Empires /\ e \in Empires /\ first <= e /\ e # first
  BY FirstHas, WhoWants
<1>2. EmpiresColonizing(Ordered, p) = {first}
  BY FirstHas
<1>. HIDE DEF first
<1>3. PICK d \in AllOrders : d.empire = e /\ Colonizes(d, s, p)
  BY <1>1, ShownColonizers
<1>4. /\ d.type = "Colonize" /\ d.ship = s /\ d.planet = p
      /\ s \in universe.ships /\ universe.owner[s] = e
      /\ \A c \in AllOrders : c.type = "Colonize" /\ c.ship = s => c = d
      /\ \A r \in Planets : Ordered.invade[s] # r
  BY <1>3, ColonizersFree DEF Colonizes
<1>5. s \in Settled.ships
  <2>1. ASSUME s \notin Settled.ships PROVE FALSE
    <3>1. PICK r \in Colonized(Ordered, war) : s \in Colonizers(Ordered, r)
      BY <1>4, <2>1, OrderedMerged, TurnPhases, ColonizationOutcome DEF Settled
    <3>2. r \in Planets
      BY <3>1 DEF Colonized
    <3>3. PICK c \in AllOrders : Colonizes(c, s, r)
      BY <3>1, <3>2, ColonizersShown
    <3>4. r = p
      BY <1>4, <3>3 DEF Colonizes
    <3>5. Ordered.owner[s] = first
      BY <1>2, <3>1, <3>4 DEF EmpiresColonizing
    <3>. QED BY <1>1, <1>4, <3>5, TurnPhases
  <2>. QED BY <2>1
<1>6. s \notin Invaders(Settled)
  <2>1. Ordered.invade[s] = NoPlanet
    BY <1>4, OrderedMerged DEF Universes
  <2>. QED BY <2>1, TurnPhases DEF Invaders
<1>7. s \notin Ordered.scrapped
  <2>1. ASSUME s \in Ordered.scrapped PROVE FALSE
    <3>1. PICK c \in AllOrders : c.type = "Scrap" /\ c.ship = s
      BY <2>1, OrderedMerged DEF Merged, ScrappingBy
    <3>2. c.empire \in Empires
      BY WhoseOrders
    <3>3. PICK i \in 1..Len(plan[c.empire].orders) : c = plan[c.empire].orders[i]
      BY WhoseOrders
    <3>4. plan[c.empire].orders \in Seq(OrderKinds)
      BY <3>2, PlanFields DEF TurnInv, OrdersTypeOK
    <3>5. i \in DOMAIN plan[c.empire].orders
      BY <3>4
    <3>. QED BY <3>1, <3>2, <3>3, <3>5 DEF ToldToScrap
  <2>. QED BY <2>1
<1>. QED BY <1>5, <1>6, <1>7, TurnEnds, TurnPhases

(* Of several empires that colonize a planet the first does, whatever HandleColonization's comment *)
(* says, unless armed enemies are there; the others' ships stay, free for other orders             *)
(* (ColonizeOrder::ExecuteImpl on the server's universe, HandleColonization).                      *)
THEOREM FirstColonizes == Spec => FirstEmpireColonizes
<1>1. TurnInv /\ [Next]_vars =>
        [ProcessTurn =>
           \A p \in Planets :
             LET wanting == ShownColonizing(p)
                 first == Min(wanting)
             IN wanting # {} /\ ~GivenAway(p) /\ (\A e \in Empires : Invading(e, p) = {}) =>
                  /\ universe'.owner[p] =
                       (IF Blocked(universe, war, first) THEN universe.owner[p] ELSE first)
                  /\ \A e \in wanting \ {first}, s \in Ships :
                       plan[e].universe.colonize[s] = p /\ ~ToldToScrap(s)
                       => s \in universe'.ships /\ universe'.colonize[s] = NoPlanet]_vars
  BY FirstSettles, OthersStay
<1>. QED BY <1>1, TurnInvariant, PTL DEF Spec, FirstEmpireColonizes
==============================================================================
