--------------------------- MODULE SubmissionProofs ---------------------------
(***************************************************************************)
(* Proofs about the orders of a session on their way from the client that    *)
(* issues them to the turn that executes them. An empire's turn is in one     *)
(* place at a time: announced by a TURN_UPDATE, played, or submitted, as an   *)
(* order set on the wire, in the event queue, deferred, or in the turn        *)
(* sequence. So no order set is late, none replaces another, and what is      *)
(* saved belongs to the turn saved.                                          *)
(***************************************************************************)
EXTENDS GameSessionProofs

-----------------------------------------------------------------------------
(* The elements of a kind in a sequence: none, at most one, or no more than   *)
(* in another sequence.                                                      *)
NoneIn(s, S) == \A x \in EventsOf(s) : x \notin S
OnceIn(s, S) == \A i, j \in DOMAIN s : s[i] \in S /\ s[j] \in S => i = j
FewerIn(t, s, S) == /\ EventsOf(t) \cap S \subseteq EventsOf(s)
                    /\ OnceIn(s, S) => OnceIn(t, S)

LEMMA NoneInEmpty ==
    ASSUME NEW S
    PROVE  NoneIn(<<>>, S) /\ OnceIn(<<>>, S)
BY DEF NoneIn, OnceIn, EventsOf

LEMMA NoneInSingle ==
    ASSUME NEW S, NEW x
    PROVE  /\ NoneIn(<<x>>, S) <=> x \notin S
           /\ OnceIn(<<x>>, S)
BY DEF NoneIn, OnceIn, EventsOf

LEMMA FewerNone ==
    ASSUME NEW S, NEW s, NEW t, FewerIn(t, s, S), NoneIn(s, S)
    PROVE  NoneIn(t, S)
BY DEF FewerIn, NoneIn

LEMMA FewerSame ==
    ASSUME NEW S, NEW s
    PROVE  FewerIn(s, s, S)
BY DEF FewerIn

LEMMA FewerInTail ==
    ASSUME NEW U, NEW s \in Seq(U), s # <<>>, NEW S
    PROVE  /\ FewerIn(Tail(s), s, S)
           /\ OnceIn(s, S) /\ Head(s) \in S => NoneIn(Tail(s), S)
           /\ Head(s) \in S => ~NoneIn(s, S)
           /\ Head(s) \notin S => FewerIn(s, Tail(s), S)
<1>1. /\ Len(s) \in Nat \ {0}
      /\ DOMAIN s = 1 .. Len(s)
      /\ Head(s) = s[1]
      /\ DOMAIN Tail(s) = 1 .. Len(s) - 1
      /\ \A i \in 1 .. Len(s) - 1 : Tail(s)[i] = s[i + 1]
  BY HeadTailProperties, LenProperties, EmptySeq
<1>2. OnceIn(s, S) => OnceIn(Tail(s), S)
  <2>1. \A i \in DOMAIN Tail(s) : i + 1 \in DOMAIN s /\ Tail(s)[i] = s[i + 1]
    BY <1>1
  <2>2. \A i, j \in DOMAIN Tail(s) : i + 1 = j + 1 => i = j
    BY <1>1
  <2>. QED BY <2>1, <2>2 DEF OnceIn
<1>3. EventsOf(Tail(s)) \subseteq EventsOf(s) /\ Head(s) \in EventsOf(s)
  BY ElementsOfTail
<1>4. ASSUME OnceIn(s, S), Head(s) \in S PROVE NoneIn(Tail(s), S)
  <2>1. ASSUME NEW i \in DOMAIN Tail(s) PROVE Tail(s)[i] \notin S
    <3>1. i + 1 \in DOMAIN s /\ 1 \in DOMAIN s /\ i + 1 # 1 /\ Tail(s)[i] = s[i + 1]
      BY <1>1
    <3>. QED BY <1>1, <1>4, <3>1 DEF OnceIn
  <2>. QED BY <2>1 DEF NoneIn, EventsOf
<1>5. ASSUME Head(s) \notin S PROVE FewerIn(s, Tail(s), S)
  <2>1. ASSUME NEW i \in DOMAIN s, s[i] \in S
        PROVE  i - 1 \in DOMAIN Tail(s) /\ Tail(s)[i - 1] = s[i]
    BY <1>1, <1>5, <2>1
  <2>2. EventsOf(s) \cap S \subseteq EventsOf(Tail(s))
    BY <2>1 DEF EventsOf
  <2>3. OnceIn(Tail(s), S) => OnceIn(s, S)
    <3>1. \A i, j \in DOMAIN s : i - 1 = j - 1 => i = j
      BY <1>1
    <3>. QED BY <2>1, <3>1 DEF OnceIn
  <2>. QED BY <2>2, <2>3 DEF FewerIn
<1>. QED BY <1>2, <1>3, <1>4, <1>5 DEF FewerIn, NoneIn

LEMMA NoneInConcat ==
    ASSUME NEW U, NEW s \in Seq(U), NEW t \in Seq(U), NEW S
    PROVE  /\ NoneIn(s \o t, S) <=> NoneIn(s, S) /\ NoneIn(t, S)
           /\ OnceIn(s, S) /\ OnceIn(t, S) /\ (NoneIn(s, S) \/ NoneIn(t, S))
                 => OnceIn(s \o t, S)
           /\ NoneIn(t, S) => FewerIn(s \o t, s, S)
           /\ NoneIn(s, S) => FewerIn(s \o t, t, S)
<1>1. /\ DOMAIN s = 1 .. Len(s) /\ Len(s) \in Nat
      /\ DOMAIN t = 1 .. Len(t) /\ Len(t) \in Nat
      /\ DOMAIN (s \o t) = 1 .. Len(s) + Len(t)
      /\ \A i \in 1 .. Len(s) + Len(t) :
            (s \o t)[i] = IF i <= Len(s) THEN s[i] ELSE t[i - Len(s)]
  BY ConcatProperties, LenProperties
<1>2. EventsOf(s \o t) = EventsOf(s) \cup EventsOf(t)
  BY ElementsOfConcat
<1>3. NoneIn(s \o t, S) <=> NoneIn(s, S) /\ NoneIn(t, S)
  BY <1>2 DEF NoneIn
<1>4. ASSUME OnceIn(s, S), NoneIn(t, S) PROVE OnceIn(s \o t, S)
  <2>1. \A i \in DOMAIN t : t[i] \notin S
    BY <1>4 DEF NoneIn, EventsOf
  <2>2. ASSUME NEW i \in DOMAIN (s \o t), (s \o t)[i] \in S
        PROVE  i \in DOMAIN s /\ (s \o t)[i] = s[i]
    <3>1. ~(i <= Len(s)) => i - Len(s) \in DOMAIN t /\ (s \o t)[i] = t[i - Len(s)]
      BY <1>1
    <3>. QED BY <1>1, <2>1, <2>2, <3>1
  <2>. QED BY <1>4, <2>2 DEF OnceIn
<1>5. ASSUME NoneIn(s, S), OnceIn(t, S) PROVE OnceIn(s \o t, S)
  <2>1. \A i \in DOMAIN s : s[i] \notin S
    BY <1>5 DEF NoneIn, EventsOf
  <2>2. ASSUME NEW i \in DOMAIN (s \o t), (s \o t)[i] \in S
        PROVE  /\ i - Len(s) \in DOMAIN t /\ (s \o t)[i] = t[i - Len(s)]
               /\ i \in Nat
    BY <1>1, <2>1, <2>2
  <2>3. ASSUME NEW i \in DOMAIN (s \o t), NEW j \in DOMAIN (s \o t),
               (s \o t)[i] \in S, (s \o t)[j] \in S
        PROVE  i = j
    <3>1. i - Len(s) = j - Len(s)
      BY <1>5, <2>2, <2>3 DEF OnceIn
    <3>. QED BY <1>1, <2>2, <2>3, <3>1
  <2>. QED BY <2>3 DEF OnceIn
<1>6. NoneIn(t, S) => EventsOf(s \o t) \cap S \subseteq EventsOf(s)
  BY <1>2 DEF NoneIn
<1>7. NoneIn(s, S) => EventsOf(s \o t) \cap S \subseteq EventsOf(t)
  BY <1>2 DEF NoneIn
<1>. QED BY <1>3, <1>4, <1>5, <1>6, <1>7 DEF FewerIn

LEMMA NoneInAppend ==
    ASSUME NEW U, NEW s \in Seq(U), NEW x \in U, NEW S
    PROVE  /\ NoneIn(Append(s, x), S) <=> NoneIn(s, S) /\ x \notin S
           /\ NoneIn(s, S) => OnceIn(Append(s, x), S)
           /\ x \notin S => FewerIn(Append(s, x), s, S)
<1>1. Append(s, x) = s \o <<x>> /\ <<x>> \in Seq(U)
  OBVIOUS
<1>2. NoneIn(s, S) => OnceIn(s, S)
  BY DEF NoneIn, OnceIn, EventsOf
<1>3. /\ NoneIn(<<x>>, S) <=> x \notin S
      /\ OnceIn(<<x>>, S)
  BY NoneInSingle
<1>4. /\ NoneIn(s \o <<x>>, S) <=> NoneIn(s, S) /\ NoneIn(<<x>>, S)
      /\ OnceIn(s, S) /\ OnceIn(<<x>>, S) /\ (NoneIn(s, S) \/ NoneIn(<<x>>, S))
            => OnceIn(s \o <<x>>, S)
      /\ NoneIn(<<x>>, S) => FewerIn(s \o <<x>>, s, S)
  BY <1>1, NoneInConcat
<1>. QED BY <1>1, <1>2, <1>3, <1>4, Zenon

(* In a sequence, every element of one kind comes before every element of       *)
(* another.                                                                   *)
Precede(s, S, T) == \A i, j \in DOMAIN s : s[i] \in S /\ s[j] \in T => i < j

LEMMA PrecedeTail ==
    ASSUME NEW U, NEW s \in Seq(U), s # <<>>, NEW S, NEW T, Precede(s, S, T)
    PROVE  /\ Precede(Tail(s), S, T)
           /\ Head(s) \in T => NoneIn(s, S)
<1>1. /\ Len(s) \in Nat \ {0}
      /\ DOMAIN s = 1 .. Len(s)
      /\ Head(s) = s[1]
      /\ DOMAIN Tail(s) = 1 .. Len(s) - 1
      /\ \A i \in 1 .. Len(s) - 1 : Tail(s)[i] = s[i + 1]
  BY HeadTailProperties, LenProperties, EmptySeq
<1>2. \A i \in DOMAIN Tail(s) : i + 1 \in DOMAIN s /\ Tail(s)[i] = s[i + 1]
  BY <1>1
<1>3. \A i, j \in DOMAIN Tail(s) : i + 1 < j + 1 => i < j
  BY <1>1
<1>4. Precede(Tail(s), S, T)
  BY <1>2, <1>3 DEF Precede
<1>5. ASSUME Head(s) \in T, NEW i \in DOMAIN s, s[i] \in S PROVE FALSE
  <2>1. 1 \in DOMAIN s /\ s[1] \in T /\ ~(i < 1)
    BY <1>1, <1>5
  <2>. QED BY <1>5, <2>1 DEF Precede
<1>. QED BY <1>4, <1>5 DEF NoneIn, EventsOf

LEMMA PrecedeConcat ==
    ASSUME NEW U, NEW s \in Seq(U), NEW t \in Seq(U), NEW S, NEW T,
           Precede(s, S, T), Precede(t, S, T), NoneIn(s, T) \/ NoneIn(t, S)
    PROVE  Precede(s \o t, S, T)
<1>1. /\ DOMAIN s = 1 .. Len(s) /\ Len(s) \in Nat
      /\ DOMAIN t = 1 .. Len(t) /\ Len(t) \in Nat
      /\ DOMAIN (s \o t) = 1 .. Len(s) + Len(t)
      /\ \A i \in 1 .. Len(s) + Len(t) :
            (s \o t)[i] = IF i <= Len(s) THEN s[i] ELSE t[i - Len(s)]
  BY ConcatProperties, LenProperties
<1>2. ASSUME NEW i \in DOMAIN (s \o t)
      PROVE  /\ i <= Len(s) => i \in DOMAIN s /\ (s \o t)[i] = s[i]
             /\ i > Len(s) => i - Len(s) \in DOMAIN t /\ (s \o t)[i] = t[i - Len(s)]
  BY <1>1
<1>3. ASSUME NEW i \in DOMAIN (s \o t), NEW j \in DOMAIN (s \o t),
             (s \o t)[i] \in S, (s \o t)[j] \in T
      PROVE  i < j
  <2>1. i \in Nat /\ j \in Nat /\ Len(s) \in Nat
    BY <1>1
  <2>2. CASE i <= Len(s) /\ j <= Len(s)
    BY <1>2, <1>3, <2>2 DEF Precede
  <2>3. CASE i <= Len(s) /\ j > Len(s)
    BY <2>1, <2>3
  <2>4. CASE i > Len(s) /\ j > Len(s)
    <3>1. i - Len(s) < j - Len(s)
      BY <1>2, <1>3, <2>4 DEF Precede
    <3>. QED BY <2>1, <3>1
  <2>5. CASE i > Len(s) /\ j <= Len(s)
    <3>1. ~NoneIn(t, S)
      BY <1>2, <1>3, <2>5 DEF NoneIn, EventsOf
    <3>2. ~NoneIn(s, T)
      BY <1>2, <1>3, <2>5 DEF NoneIn, EventsOf
    <3>. QED BY <3>1, <3>2
  <2>. QED BY <2>1, <2>2, <2>3, <2>4, <2>5
<1>. QED BY <1>3 DEF Precede

LEMMA PrecedePrefix ==
    ASSUME NEW U, NEW s \in Seq(U), NEW n \in 0 .. Len(s), NEW S, NEW T, Precede(s, S, T)
    PROVE  Precede(SubSeq(s, 1, n), S, T)
<1>1. Len(s) \in Nat /\ DOMAIN s = 1 .. Len(s)
  BY LenProperties
<1>2. \A k \in 1 .. n : s[k] \in U
  BY <1>1, ElementOfSeq
<1>3. /\ DOMAIN SubSeq(s, 1, n) = 1 .. n
      /\ \A i \in 1 .. n : SubSeq(s, 1, n)[i] = s[i]
  BY <1>1, <1>2, SubSeqProperties, LenProperties
<1>4. \A i \in DOMAIN SubSeq(s, 1, n) : i \in DOMAIN s /\ SubSeq(s, 1, n)[i] = s[i]
  BY <1>1, <1>3
<1>. QED BY <1>4 DEF Precede

LEMMA FewerInPrefix ==
    ASSUME NEW U, NEW s \in Seq(U), NEW n \in 0 .. Len(s), NEW S
    PROVE  FewerIn(SubSeq(s, 1, n), s, S)
<1>1. Len(s) \in Nat /\ DOMAIN s = 1 .. Len(s)
  BY LenProperties
<1>2. \A k \in 1 .. n : s[k] \in U
  BY <1>1, ElementOfSeq
<1>3. /\ DOMAIN SubSeq(s, 1, n) = 1 .. n
      /\ \A i \in 1 .. n : SubSeq(s, 1, n)[i] = s[i]
  BY <1>1, <1>2, SubSeqProperties, LenProperties
<1>4. \A i \in DOMAIN SubSeq(s, 1, n) : i \in DOMAIN s /\ SubSeq(s, 1, n)[i] = s[i]
  BY <1>1, <1>3
<1>. QED BY <1>4 DEF FewerIn, OnceIn, EventsOf

LEMMA FewerInDeletion ==
    ASSUME NEW U, NEW s \in Seq(U), NEW i \in DOMAIN s, NEW S
    PROVE  FewerIn(SubSeq(s, 1, i - 1) \o SubSeq(s, i + 1, Len(s)), s, S)
<1>. DEFINE front == SubSeq(s, 1, i - 1)
            rest == SubSeq(s, i + 1, Len(s))
            f(k) == IF k < i THEN k ELSE k + 1
<1>1. i \in 1 .. Len(s) /\ Len(s) \in Nat /\ DOMAIN s = 1 .. Len(s)
  BY LenProperties
<1>2. \A k \in 1 .. Len(s) : s[k] \in U
  BY <1>1, ElementOfSeq
<1>3. /\ front \in Seq(U) /\ Len(front) = i - 1
      /\ \A k \in 1 .. i - 1 : front[k] = s[k]
  BY <1>1, <1>2, SubSeqProperties
<1>4. /\ rest \in Seq(U) /\ Len(rest) = Len(s) - i
      /\ \A k \in 1 .. Len(s) - i : rest[k] = s[i + k]
  BY <1>1, <1>2, SubSeqProperties
<1>. HIDE DEF front, rest
<1>5. /\ DOMAIN (front \o rest) = 1 .. Len(front) + Len(rest)
      /\ \A k \in 1 .. Len(front) + Len(rest) :
            (front \o rest)[k] = IF k <= Len(front) THEN front[k] ELSE rest[k - Len(front)]
  BY <1>3, <1>4, ConcatProperties, LenProperties
<1>6. ASSUME NEW k \in DOMAIN (front \o rest)
      PROVE  f(k) \in DOMAIN s /\ (front \o rest)[k] = s[f(k)] /\ k \in Nat
  <2>1. k \in 1 .. Len(s) - 1
    BY <1>1, <1>3, <1>4, <1>5
  <2>2. CASE k < i
    BY <1>1, <1>3, <1>4, <1>5, <2>1, <2>2
  <2>3. CASE ~(k < i)
    <3>1. k - (i - 1) \in 1 .. Len(s) - i /\ i + (k - (i - 1)) = k + 1
      BY <1>1, <2>1, <2>3
    <3>2. (front \o rest)[k] = rest[k - (i - 1)]
      BY <1>1, <1>3, <1>4, <1>5, <2>1, <2>3
    <3>3. rest[k - (i - 1)] = s[k + 1]
      BY <1>4, <3>1
    <3>. QED BY <1>1, <2>1, <2>3, <3>2, <3>3
  <2>. QED BY <2>2, <2>3
<1>7. \A k, m \in Nat : f(k) = f(m) => k = m
  BY <1>1
<1>. HIDE DEF f
<1>. QED BY <1>6, <1>7 DEF FewerIn, OnceIn, EventsOf, front, rest

LEMMA FewerTransitive ==
    ASSUME NEW S, NEW r, NEW s, NEW t, FewerIn(r, s, S), FewerIn(s, t, S)
    PROVE  FewerIn(r, t, S)
BY DEF FewerIn

-----------------------------------------------------------------------------
(* The way of an empire's turn. The messages and events it is made of: the      *)
(* announcement of the turn, the order set submitted for it, and save data that *)
(* holds orders.                                                             *)
TurnUpdates == [type : {"TURN_UPDATE"}, turn : Nat]
TurnOrdersOf(e) == EventsFrom({"TurnOrders"}, {e})
SaveDataOf(p) == {x \in EventsFrom({"ClientSaveData"}, {p}) : x.turns # {}}

(* The places an empire's turn may be in.                                      *)
Updated(e) == ~NoneIn(toClient[e], TurnUpdates)
Playing(e) == clientState[e] = "PlayingTurn"
Sent(e) == ~NoneIn(toServer[e], TurnOrdersOf(e))
Read(e) == ~NoneIn(eventQueue, TurnOrdersOf(e))
Kept(e) == ~NoneIn(deferredEvents, TurnOrdersOf(e))
Got(e) == m_turn_sequence[e].got

AtServer(e) == Updated(e) \/ Read(e) \/ Kept(e) \/ Got(e)

OnePlace(e) ==
    /\ Updated(e) => ~(Playing(e) \/ Sent(e) \/ Read(e) \/ Kept(e) \/ Got(e))
    /\ Playing(e) => ~(Sent(e) \/ Read(e) \/ Kept(e) \/ Got(e))
    /\ Sent(e) => ~(Read(e) \/ Kept(e) \/ Got(e))
    /\ Read(e) => ~(Kept(e) \/ Got(e))
    /\ Kept(e) => ~Got(e)

OnlyOnce(e) ==
    /\ OnceIn(toClient[e], TurnUpdates)
    /\ OnceIn(toServer[e], TurnOrdersOf(e))
    /\ OnceIn(eventQueue, TurnOrdersOf(e))
    /\ OnceIn(deferredEvents, TurnOrdersOf(e))

(* Whatever is found in those places is of the turn the server plays. A client   *)
(* that waits has no orders, and no entry without orders received holds any.    *)
OfTurn(s, S, turn) == \A x \in EventsOf(s) : x \in S => x.turns \subseteq {turn}

OfThisTurn(e) ==
    /\ \A m \in EventsOf(toClient[e]) : m \in TurnUpdates => m.turn = m_current_turn
    /\ Playing(e) => clientTurn[e] = m_current_turn
    /\ m_orders[e] \subseteq {clientTurn[e]}
    /\ clientState[e] = "WaitingForTurnData" => m_orders[e] = {}
    /\ OfTurn(toServer[e], TurnOrdersOf(e), m_current_turn)
    /\ OfTurn(eventQueue, TurnOrdersOf(e), m_current_turn)
    /\ OfTurn(deferredEvents, TurnOrdersOf(e), m_current_turn)
    /\ m_turn_sequence[e].turns \subseteq {m_current_turn}
    /\ ~Got(e) => m_turn_sequence[e].turns = {}

JourneyOf(e) == OnePlace(e) /\ OnlyOnce(e) /\ OfThisTurn(e)
JourneyInv == \A e \in Empires : JourneyOf(e)

-----------------------------------------------------------------------------
(* Kinds of messages and events.                                               *)
LEMMA KindsOfMessages ==
    ASSUME NEW m \in ClientMessages
    PROVE  m \in TurnUpdates <=> m.type = "TURN_UPDATE"
BY DEF ClientMessages, TurnUpdates

LEMMA KindsOfEvents ==
    ASSUME NEW x \in Events, NEW e \in Players
    PROVE  /\ x \in TurnOrdersOf(e) <=> x.type = "TurnOrders" /\ x.player = e
           /\ x \in SaveDataOf(e) <=> x.type = "ClientSaveData" /\ x.player = e /\ x.turns # {}
BY DEF Events, EventsFrom, TurnOrdersOf, SaveDataOf

LEMMA SentAreEvents ==
    ASSUME NEW p \in Players
    PROVE  EventsFrom(ReceivedTypes, {p}) \subseteq Events
BY DEF Events, EventsFrom

LEMMA PostedKinds ==
    ASSUME NEW type \in PostedTypes, NEW e \in Players
    PROVE  /\ Posted(type) \in Events
           /\ Posted(type) \notin TurnOrdersOf(e)
           /\ Posted(type) \notin SaveDataOf(e)
<1>1. Posted(type) \in Events /\ Posted(type).type = type
  BY PostedTyped DEF Posted, Event
<1>2. type # "TurnOrders" /\ type # "ClientSaveData"
  BY DEF PostedTypes
<1>. QED BY <1>1, <1>2, KindsOfEvents

(* A step that brings nothing of the kind into any place, and at most lets the   *)
(* player leave or issue orders of the turn it plays, keeps the empire's turn     *)
(* where it is.                                                                *)
LEMMA JourneyKept ==
    ASSUME NEW e, JourneyOf(e),
           FewerIn(toClient'[e], toClient[e], TurnUpdates),
           FewerIn(toServer'[e], toServer[e], TurnOrdersOf(e)),
           FewerIn(eventQueue', eventQueue, TurnOrdersOf(e)),
           FewerIn(deferredEvents', deferredEvents, TurnOrdersOf(e)),
           m_turn_sequence'[e] = m_turn_sequence[e],
           UNCHANGED m_current_turn,
           clientTurn'[e] = clientTurn[e],
           clientState'[e] = clientState[e] \/ clientState'[e] = "Left",
           m_orders'[e] \subseteq {clientTurn[e]},
           clientState'[e] = "WaitingForTurnData" => m_orders'[e] = {}
    PROVE  JourneyOf(e)' /\ (AtServer(e)' => AtServer(e))
<1>1. /\ Updated(e)' => Updated(e)
      /\ Sent(e)' => Sent(e)
      /\ Read(e)' => Read(e)
      /\ Kept(e)' => Kept(e)
  BY FewerNone DEF Updated, Sent, Read, Kept
<1>2. /\ Got(e)' <=> Got(e)
      /\ Playing(e)' => Playing(e)
  BY DEF Got, Playing
<1>3. OnePlace(e)'
  BY <1>1, <1>2 DEF JourneyOf, OnePlace
<1>4. OnlyOnce(e)'
  BY DEF JourneyOf, OnlyOnce, FewerIn
<1>5. \A m \in EventsOf(toClient'[e]) : m \in TurnUpdates => m.turn = m_current_turn'
  BY DEF JourneyOf, OfThisTurn, FewerIn
<1>6. /\ OfTurn(toServer'[e], TurnOrdersOf(e), m_current_turn')
      /\ OfTurn(eventQueue', TurnOrdersOf(e), m_current_turn')
      /\ OfTurn(deferredEvents', TurnOrdersOf(e), m_current_turn')
  BY DEF JourneyOf, OfThisTurn, OfTurn, FewerIn
<1>7. OfThisTurn(e)'
  BY <1>2, <1>5, <1>6 DEF JourneyOf, OfThisTurn
<1>. QED BY <1>1, <1>2, <1>3, <1>4, <1>7 DEF JourneyOf, AtServer

-----------------------------------------------------------------------------
(* The steps of the clients.                                                   *)

(* What a client does is about itself.                                          *)
LEMMA OthersUntouched ==
    ASSUME TypeOK, NEW p \in Players, ClientNext(p), NEW q \in Players, q # p
    PROVE  /\ toClient'[q] = toClient[q]
           /\ toServer'[q] = toServer[q]
           /\ clientState'[q] = clientState[q]
           /\ clientTurn'[q] = clientTurn[q]
           /\ m_orders'[q] = m_orders[q]
<1>1. /\ toClient \in [Players -> Seq(ClientMessages)]
      /\ toServer \in [Players -> Seq(EventsFrom(ReceivedTypes, Players))]
      /\ clientState \in [Players -> {"WaitingForTurnData", "PlayingTurn", "Left"}]
      /\ clientTurn \in [Players -> Nat]
      /\ m_orders \in [Players -> OrderSets]
  BY DEF TypeOK, ServerChannels
<1>2. /\ Take(p) => toClient'[q] = toClient[q]
      /\ \A es : Send(p, es) => toServer'[q] = toServer[q]
      /\ Leave(p) => /\ clientState'[q] = clientState[q]
                     /\ clientTurn'[q] = clientTurn[q]
                     /\ m_orders'[q] = m_orders[q]
  BY <1>1 DEF Take, Send, Leave
<1>3. CASE IssueOrder(p) \/ EndTurn(p) \/ MenuSave(p)
  BY <1>1, <1>2, <1>3 DEF IssueOrder, EndTurn, MenuSave
<1>4. CASE StartTurn(p)
  BY <1>1, <1>2, <1>4 DEF StartTurn
<1>5. CASE ReceiveResponse(p)
  BY <1>1, <1>2, <1>5 DEF ReceiveResponse
<1>6. CASE AnswerSaveGame(p) \/ ReceiveHostID(p) \/ ReceivePlayerStatus(p)
  BY <1>1, <1>2, <1>6 DEF AnswerSaveGame, ReceiveHostID, ReceivePlayerStatus, clientVars
<1>7. CASE Quit(p) \/ ReceiveEndGame(p) \/ LoseServer(p)
  BY <1>1, <1>2, <1>7 DEF Quit, ReceiveEndGame, LoseServer
<1>8. CASE Crash(p)
  BY <1>1, <1>2, <1>8 DEF Crash
<1>. QED BY <1>3, <1>4, <1>5, <1>6, <1>7, <1>8 DEF ClientNext, Responds

(* The two ends of a client's connection, after it has sent and taken messages. *)
LEMMA EventSent ==
    ASSUME TypeOK, NEW p \in Players, NEW x \in EventsFrom(ReceivedTypes, {p}),
           Send(p, <<x>>), NEW S
    PROVE  /\ NoneIn(toServer'[p], S) <=> NoneIn(toServer[p], S) /\ x \notin S
           /\ NoneIn(toServer[p], S) => OnceIn(toServer'[p], S)
           /\ x \notin S => FewerIn(toServer'[p], toServer[p], S)
           /\ EventsOf(toServer'[p]) = EventsOf(toServer[p]) \cup {x}
<1>1. toServer[p] \in Seq(EventsFrom(ReceivedTypes, {p}))
  BY ChannelTyped DEF TypeOK
<1>2. toServer'[p] = Append(toServer[p], x)
  <2>1. toServer \in [Players -> Seq(EventsFrom(ReceivedTypes, Players))]
    BY DEF TypeOK, ServerChannels
  <2>2. toServer[p] \o <<x>> = Append(toServer[p], x)
    BY <1>1
  <2>. QED BY <2>1, <2>2 DEF Send
<1>3. /\ NoneIn(Append(toServer[p], x), S) <=> NoneIn(toServer[p], S) /\ x \notin S
      /\ NoneIn(toServer[p], S) => OnceIn(Append(toServer[p], x), S)
      /\ x \notin S => FewerIn(Append(toServer[p], x), toServer[p], S)
  BY <1>1, NoneInAppend
<1>4. EventsOf(Append(toServer[p], x)) = EventsOf(toServer[p]) \cup {x}
  BY <1>1, ElementsOfAppend
<1>. QED BY <1>2, <1>3, <1>4

LEMMA MessageTaken ==
    ASSUME TypeOK, NEW p \in Players, Take(p), toClient[p] # <<>>, NEW S
    PROVE  /\ FewerIn(toClient'[p], toClient[p], S)
           /\ OnceIn(toClient[p], S) /\ Head(toClient[p]) \in S => NoneIn(toClient'[p], S)
           /\ Head(toClient[p]) \in EventsOf(toClient[p])
           /\ Head(toClient[p]) \in S => ~NoneIn(toClient[p], S)
<1>1. toClient[p] \in Seq(ClientMessages)
  BY DEF TypeOK
<1>2. toClient'[p] = Tail(toClient[p])
  BY DEF Take, TypeOK
<1>3. /\ FewerIn(Tail(toClient[p]), toClient[p], S)
      /\ OnceIn(toClient[p], S) /\ Head(toClient[p]) \in S => NoneIn(Tail(toClient[p]), S)
      /\ Head(toClient[p]) \in S => ~NoneIn(toClient[p], S)
  BY <1>1, FewerInTail
<1>. QED BY <1>1, <1>2, <1>3, ElementsOfTail

(* The farewell of a client holds no orders.                                     *)
LEMMA FarewellKinds ==
    ASSUME NEW p \in Players, NEW e \in Players
    PROVE  /\ Goodbye(p) \in Seq(EventsFrom(ReceivedTypes, {p}))
           /\ NoneIn(Goodbye(p), TurnOrdersOf(e))
           /\ NoneIn(Goodbye(p), SaveDataOf(e))
           /\ \A noticed \in {<<>>, <<Event("Disconnection", p, {})>>} :
                 /\ noticed \in Seq(EventsFrom(ReceivedTypes, {p}))
                 /\ NoneIn(noticed, TurnOrdersOf(e))
                 /\ NoneIn(noticed, SaveDataOf(e))
<1>1. /\ Event("Disconnection", p, {}) \in EventsFrom(ReceivedTypes, {p})
      /\ Event("Shutdown", p, {}) \in EventsFrom(ReceivedTypes, {p})
  BY ReceivedTyped DEF ReceivedTypes, OrderSets
<1>2. ASSUME NEW type \in {"Disconnection", "Shutdown"}
      PROVE  Event(type, p, {}) \notin TurnOrdersOf(e) /\ Event(type, p, {}) \notin SaveDataOf(e)
  BY DEF Event, TurnOrdersOf, SaveDataOf, EventsFrom
<1>3. ASSUME NEW S, Event("Disconnection", p, {}) \notin S, Event("Shutdown", p, {}) \notin S
      PROVE  NoneIn(Goodbye(p), S)
  <2>. DEFINE bye == <<Event("Disconnection", p, {})>>
              request == IF p \in AIs THEN <<>> ELSE <<Event("Shutdown", p, {})>>
              U == EventsFrom(ReceivedTypes, {p})
  <2>1. bye \in Seq(U) /\ request \in Seq(U)
    <3>1. <<>> \in Seq(U) /\ \A x \in U : <<x>> \in Seq(U)
      OBVIOUS
    <3>. QED BY <1>1, <3>1, Zenon
  <2>2. NoneIn(bye, S) /\ NoneIn(request, S)
    BY <1>3, NoneInEmpty, NoneInSingle
  <2>3. Goodbye(p) = request \o bye
    BY DEF Goodbye
  <2>. HIDE DEF bye, request, U
  <2>. QED BY <2>1, <2>2, <2>3, NoneInConcat
<1>4. /\ <<>> \in Seq(EventsFrom(ReceivedTypes, {p}))
      /\ <<Event("Disconnection", p, {})>> \in Seq(EventsFrom(ReceivedTypes, {p}))
  BY <1>1
<1>5. ASSUME NEW S, Event("Disconnection", p, {}) \notin S
      PROVE  NoneIn(<<>>, S) /\ NoneIn(<<Event("Disconnection", p, {})>>, S)
  BY <1>5, NoneInEmpty, NoneInSingle
<1>6. \A noticed \in {<<>>, <<Event("Disconnection", p, {})>>} :
         /\ noticed \in Seq(EventsFrom(ReceivedTypes, {p}))
         /\ NoneIn(noticed, TurnOrdersOf(e))
         /\ NoneIn(noticed, SaveDataOf(e))
  <2>1. /\ NoneIn(<<>>, TurnOrdersOf(e)) /\ NoneIn(<<>>, SaveDataOf(e))
        /\ NoneIn(<<Event("Disconnection", p, {})>>, TurnOrdersOf(e))
        /\ NoneIn(<<Event("Disconnection", p, {})>>, SaveDataOf(e))
    <3>1. /\ Event("Disconnection", p, {}) \notin TurnOrdersOf(e)
          /\ Event("Disconnection", p, {}) \notin SaveDataOf(e)
      BY <1>2
    <3>. QED BY <1>5, <3>1
  <2>2. ASSUME NEW noticed \in {<<>>, <<Event("Disconnection", p, {})>>}
        PROVE  /\ noticed \in Seq(EventsFrom(ReceivedTypes, {p}))
               /\ NoneIn(noticed, TurnOrdersOf(e))
               /\ NoneIn(noticed, SaveDataOf(e))
    <3>1. CASE noticed = <<>>
      BY <1>4, <2>1, <3>1
    <3>2. CASE noticed = <<Event("Disconnection", p, {})>>
      BY <1>4, <2>1, <3>2
    <3>. QED BY <3>1, <3>2
  <2>. QED BY <2>2
<1>7. NoneIn(Goodbye(p), TurnOrdersOf(e)) /\ NoneIn(Goodbye(p), SaveDataOf(e))
  BY <1>2, <1>3
<1>. QED BY <1>6, <1>7, GoodbyeTyped

(* A client's own steps keep its empire's turn in one place, where no hotkey      *)
(* sends order sets out of turn.                                                *)
LEMMA ClientJourney ==
    ASSUME TypeOK, HotkeyUsers = {}, NEW e \in Empires, JourneyOf(e), ClientNext(e)
    PROVE  JourneyOf(e)'
<1>. e \in Players
  BY DEF Players
<1>a. /\ UNCHANGED <<eventQueue, deferredEvents, m_turn_sequence, m_current_turn>>
      /\ FewerIn(eventQueue', eventQueue, TurnOrdersOf(e))
      /\ FewerIn(deferredEvents', deferredEvents, TurnOrdersOf(e))
  BY ClientKeepsServer, FewerSame DEF serverVars
<1>b. /\ FewerIn(toClient[e], toClient[e], TurnUpdates)
      /\ FewerIn(toServer[e], toServer[e], TurnOrdersOf(e))
  BY FewerSame
<1>c. /\ clientState \in [Players -> {"WaitingForTurnData", "PlayingTurn", "Left"}]
      /\ clientTurn \in [Players -> Nat]
      /\ m_orders \in [Players -> OrderSets]
  BY DEF TypeOK
<1>d. /\ m_orders[e] \subseteq {clientTurn[e]}
      /\ clientState[e] = "WaitingForTurnData" => m_orders[e] = {}
  BY DEF JourneyOf, OfThisTurn
(* A step by which the client sends nothing of the kind.                         *)
<1>e. ASSUME FewerIn(toClient'[e], toClient[e], TurnUpdates),
             FewerIn(toServer'[e], toServer[e], TurnOrdersOf(e)),
             clientTurn'[e] = clientTurn[e], m_orders'[e] = m_orders[e],
             clientState'[e] = clientState[e] \/ clientState'[e] = "Left"
      PROVE  JourneyOf(e)'
  BY <1>a, <1>d, <1>e, JourneyKept
<1>f. Take(e) /\ toClient[e] # <<>> => FewerIn(toClient'[e], toClient[e], TurnUpdates)
  BY MessageTaken
<1>g. ASSUME NEW type \in ReceivedTypes \ {"TurnOrders"}, NEW turns \in OrderSets,
             Send(e, <<Event(type, e, turns)>>)
      PROVE  FewerIn(toServer'[e], toServer[e], TurnOrdersOf(e))
  <2>1. Event(type, e, turns) \in EventsFrom(ReceivedTypes, {e})
    BY ReceivedTyped
  <2>2. Event(type, e, turns) \notin TurnOrdersOf(e)
    BY DEF Event, TurnOrdersOf, EventsFrom
  <2>. QED BY <1>g, <2>1, <2>2, EventSent
<1>h. Send(e, Goodbye(e)) => FewerIn(toServer'[e], toServer[e], TurnOrdersOf(e))
  <2>1. toServer[e] \in Seq(EventsFrom(ReceivedTypes, {e}))
    BY ChannelTyped DEF TypeOK
  <2>2. Goodbye(e) \in Seq(EventsFrom(ReceivedTypes, {e})) /\ NoneIn(Goodbye(e), TurnOrdersOf(e))
    BY FarewellKinds
  <2>3. FewerIn(toServer[e] \o Goodbye(e), toServer[e], TurnOrdersOf(e))
    BY <2>1, <2>2, NoneInConcat
  <2>. QED BY <2>3 DEF Send, TypeOK, ServerChannels
<1>i. Leave(e) => /\ clientState'[e] = "Left"
                  /\ clientTurn'[e] = clientTurn[e]
                  /\ m_orders'[e] = m_orders[e]
  BY <1>c DEF Leave
<1>1. CASE IssueOrder(e)
  <2>1. m_orders'[e] \subseteq {clientTurn[e]}
    BY <1>1, <1>c, <1>d DEF IssueOrder
  <2>2. clientState'[e] # "WaitingForTurnData"
    BY <1>1 DEF IssueOrder
  <2>. QED BY <1>1, <1>a, <1>b, <2>1, <2>2, JourneyKept DEF IssueOrder
<1>2. CASE EndTurn(e)
  <2>. DEFINE x == Event("TurnOrders", e, m_orders[e])
  <2>1. /\ Playing(e)
        /\ Send(e, <<x>>)
        /\ m_orders'[e] = {}
        /\ clientState'[e] = "WaitingForTurnData"
        /\ toClient'[e] = toClient[e]
        /\ clientTurn'[e] = clientTurn[e]
    BY <1>2, <1>c DEF EndTurn, Playing
  <2>2. x \in EventsFrom(ReceivedTypes, {e})
    BY <1>c, ReceivedTyped DEF ReceivedTypes, DeferredTypes
  <2>3. x.turns \subseteq {m_current_turn}
    BY <2>1, <1>d DEF JourneyOf, OfThisTurn, Event
  <2>4. ~(Updated(e) \/ Sent(e) \/ Read(e) \/ Kept(e) \/ Got(e))
    BY <2>1 DEF JourneyOf, OnePlace
  <2>. HIDE DEF x
  <2>5. /\ OnceIn(toServer'[e], TurnOrdersOf(e))
        /\ EventsOf(toServer'[e]) = EventsOf(toServer[e]) \cup {x}
    BY <2>1, <2>2, <2>4, EventSent DEF Sent
  <2>6. ~(Updated(e)' \/ Playing(e)' \/ Read(e)' \/ Kept(e)' \/ Got(e)')
    BY <1>a, <2>1, <2>4 DEF Updated, Playing, Read, Kept, Got
  <2>7. OnePlace(e)'
    BY <2>6 DEF OnePlace
  <2>8. OnlyOnce(e)'
    BY <1>a, <2>1, <2>5 DEF JourneyOf, OnlyOnce
  <2>9. OfTurn(toServer'[e], TurnOrdersOf(e), m_current_turn')
    BY <1>a, <2>3, <2>5 DEF JourneyOf, OfThisTurn, OfTurn
  <2>10. OfThisTurn(e)'
    BY <1>a, <2>1, <2>6, <2>9 DEF JourneyOf, OfThisTurn, Got
  <2>. QED BY <2>7, <2>8, <2>10 DEF JourneyOf
<1>3. CASE MenuSave(e)
  BY <1>3, <1>b, <1>e, <1>g DEF MenuSave, ReceivedTypes, DeferredTypes, OrderSets
<1>4. CASE Quit(e)
  BY <1>4, <1>b, <1>e, <1>h, <1>i DEF Quit
<1>5. CASE Crash(e)
  <2>1. PICK n \in 0 .. Len(toServer[e]), noticed \in {<<>>, <<Event("Disconnection", e, {})>>} :
          toServer' = [toServer EXCEPT ![e] = SubSeq(@, 1, n) \o noticed]
    BY <1>5 DEF Crash
  <2>2. toServer[e] \in Seq(EventsFrom(ReceivedTypes, {e}))
    BY ChannelTyped DEF TypeOK
  <2>. DEFINE front == SubSeq(toServer[e], 1, n)
  <2>3. /\ front \in Seq(EventsFrom(ReceivedTypes, {e}))
        /\ FewerIn(front, toServer[e], TurnOrdersOf(e))
    <3>1. \A k \in 1 .. n : toServer[e][k] \in EventsFrom(ReceivedTypes, {e})
      BY <2>2, ElementOfSeq, LenProperties
    <3>2. Len(toServer[e]) \in Nat
      BY <2>2, LenProperties
    <3>3. front \in Seq(EventsFrom(ReceivedTypes, {e}))
      BY <2>2, <3>1, <3>2, SubSeqProperties
    <3>. QED BY <2>2, <3>3, FewerInPrefix
  <2>4. noticed \in Seq(EventsFrom(ReceivedTypes, {e})) /\ NoneIn(noticed, TurnOrdersOf(e))
    BY FarewellKinds
  <2>5. toServer'[e] = front \o noticed
    BY <2>1 DEF TypeOK, ServerChannels
  <2>. HIDE DEF front
  <2>6. FewerIn(front \o noticed, front, TurnOrdersOf(e))
    BY <2>3, <2>4, NoneInConcat
  <2>7. FewerIn(toServer'[e], toServer[e], TurnOrdersOf(e))
    BY <2>3, <2>5, <2>6, FewerTransitive
  <2>8. Leave(e) /\ toClient'[e] = toClient[e]
    BY <1>5 DEF Crash
  <2>9. FewerIn(toClient'[e], toClient[e], TurnUpdates)
    BY <1>b, <2>8
  <2>. QED BY <1>e, <1>i, <2>7, <2>8, <2>9
<1>6. CASE StartTurn(e)
  <2>. DEFINE t == Head(toClient[e]).turn
  <2>1. /\ Take(e) /\ toClient[e] # <<>>
        /\ Head(toClient[e]) \in ClientMessages
        /\ Head(toClient[e]).type = "TURN_UPDATE"
        /\ clientState[e] # "Left"
    BY <1>6, NextMessageTyped DEF StartTurn, NextMessage, Reads, Running
  <2>2. Head(toClient[e]) \in TurnUpdates
    BY <2>1, KindsOfMessages
  <2>3. /\ Head(toClient[e]) \in EventsOf(toClient[e])
        /\ Updated(e)
        /\ NoneIn(toClient'[e], TurnUpdates)
        /\ FewerIn(toClient'[e], toClient[e], TurnUpdates)
    BY <2>1, <2>2, MessageTaken DEF Updated, JourneyOf, OnlyOnce
  <2>4. t = m_current_turn
    BY <2>2, <2>3 DEF JourneyOf, OfThisTurn
  <2>5. ~(Playing(e) \/ Sent(e) \/ Read(e) \/ Kept(e) \/ Got(e))
    BY <2>3 DEF JourneyOf, OnePlace
  <2>6. m_orders[e] = {}
    BY <1>c, <1>d, <2>1, <2>5 DEF Playing
  <2>7. /\ clientTurn'[e] = t
        /\ m_orders'[e] = m_orders[e]
    BY <1>6, <1>c DEF StartTurn
  <2>8. FewerIn(toServer'[e], toServer[e], TurnOrdersOf(e))
    BY <1>6, <1>b, <1>g DEF StartTurn, ReceivedTypes, DeferredTypes, OrderSets
  <2>9. ~(Updated(e)' \/ Sent(e)' \/ Read(e)' \/ Kept(e)' \/ Got(e)')
    BY <1>a, <2>3, <2>5, <2>8, FewerNone DEF Updated, Sent, Read, Kept, Got
  <2>10. OnePlace(e)'
    BY <2>9 DEF OnePlace
  <2>11. OnlyOnce(e)'
    BY <1>a, <2>3, <2>8 DEF JourneyOf, OnlyOnce, FewerIn
  <2>12. OfTurn(toServer'[e], TurnOrdersOf(e), m_current_turn')
    BY <2>9 DEF Sent, NoneIn, OfTurn
  <2>13. \A m \in EventsOf(toClient'[e]) : m \notin TurnUpdates
    BY <2>3 DEF NoneIn
  <2>14. OfThisTurn(e)'
    BY <1>a, <2>4, <2>6, <2>7, <2>12, <2>13 DEF JourneyOf, OfThisTurn, Got
  <2>. QED BY <2>10, <2>11, <2>14 DEF JourneyOf
<1>7. CASE ReceiveResponse(e)
  <2>1. PICK i \in DOMAIN toClient[e] :
          toClient' = [toClient EXCEPT
                ![e] = SubSeq(@, 1, i - 1) \o SubSeq(@, i + 1, Len(@))]
    BY <1>7 DEF ReceiveResponse
  <2>2. toClient[e] \in Seq(ClientMessages)
    BY DEF TypeOK
  <2>3. FewerIn(toClient'[e], toClient[e], TurnUpdates)
    BY <2>1, <2>2, FewerInDeletion DEF TypeOK
  <2>4. FewerIn(toServer'[e], toServer[e], TurnOrdersOf(e))
    BY <1>7, <1>c, <1>g DEF ReceiveResponse, SaveData, ReceivedTypes
  <2>. QED BY <1>7, <1>e, <2>3, <2>4 DEF ReceiveResponse
<1>8. CASE AnswerSaveGame(e)
  <2>1. FewerIn(toServer'[e], toServer[e], TurnOrdersOf(e))
    BY <1>8, <1>c, <1>g DEF AnswerSaveGame, SaveData, ReceivedTypes
  <2>. QED BY <1>8, <1>e, <1>f, <2>1 DEF AnswerSaveGame, NextMessage, clientVars
<1>9. CASE ReceiveHostID(e)
  BY <1>9, <1>b, <1>e, <1>f DEF ReceiveHostID, NextMessage
<1>10. CASE ReceivePlayerStatus(e)
  BY <1>10, <1>b, <1>e, <1>f DEF ReceivePlayerStatus, NextMessage
<1>11. CASE ReceiveEndGame(e)
  BY <1>11, <1>e, <1>f, <1>h, <1>i DEF ReceiveEndGame, NextMessage
<1>12. CASE LoseServer(e)
  BY <1>12, <1>b, <1>e, <1>i DEF LoseServer
<1>. QED BY <1>1, <1>2, <1>3, <1>4, <1>5, <1>6, <1>7, <1>8, <1>9, <1>10, <1>11, <1>12
     DEF ClientNext, Responds

(* So no client's step moves an empire's turn to two places.                      *)
LEMMA ClientJourneys ==
    ASSUME TypeOK, HotkeyUsers = {}, NEW p \in Players, ClientNext(p), JourneyInv
    PROVE  JourneyInv'
<1>1. ASSUME NEW e \in Empires PROVE JourneyOf(e)'
  <2>1. JourneyOf(e) /\ e \in Players
    BY DEF JourneyInv, Players
  <2>2. CASE e = p
    BY <2>1, <2>2, ClientJourney
  <2>3. CASE e # p
    <3>1. UNCHANGED <<eventQueue, deferredEvents, m_turn_sequence, m_current_turn>>
      BY ClientKeepsServer DEF serverVars
    <3>2. /\ toClient'[e] = toClient[e]
          /\ toServer'[e] = toServer[e]
          /\ clientState'[e] = clientState[e]
          /\ clientTurn'[e] = clientTurn[e]
          /\ m_orders'[e] = m_orders[e]
      BY <2>1, <2>3, OthersUntouched
    <3>. QED BY <2>1, <3>1, <3>2
         DEF JourneyOf, OnePlace, OnlyOnce, OfThisTurn, Updated, Playing, Sent, Read, Kept, Got
  <2>. QED BY <2>2, <2>3
<1>. QED BY <1>1 DEF JourneyInv

-----------------------------------------------------------------------------
(* The steps of the server.                                                    *)

(* The event queue after the current event is gone.                             *)
LEMMA QueueDiscarded ==
    ASSUME TypeOK, eventQueue # <<>>, NEW e \in Players,
           Discard \/ \E type \in PostedTypes : Post(type)
    PROVE  /\ FewerIn(eventQueue', eventQueue, TurnOrdersOf(e))
           /\ OnceIn(eventQueue, TurnOrdersOf(e)) /\ Current \in TurnOrdersOf(e)
                 => NoneIn(eventQueue', TurnOrdersOf(e))
           /\ Current \in TurnOrdersOf(e) =>
                 ~NoneIn(eventQueue, TurnOrdersOf(e)) /\ Current \in EventsOf(eventQueue)
<1>. DEFINE S == TurnOrdersOf(e)
<1>1. eventQueue \in Seq(Events) /\ Tail(eventQueue) \in Seq(Events) /\ Current = Head(eventQueue)
  BY CurrentTyped DEF TypeOK, Current
<1>2. /\ FewerIn(Tail(eventQueue), eventQueue, S)
      /\ OnceIn(eventQueue, S) /\ Current \in S => NoneIn(Tail(eventQueue), S)
      /\ Current \in S => ~NoneIn(eventQueue, S)
  BY <1>1, FewerInTail
<1>3. Current \in EventsOf(eventQueue)
  BY CurrentQueued
<1>4. CASE Discard
  BY <1>2, <1>3, <1>4 DEF Discard
<1>5. ASSUME NEW type \in PostedTypes, Post(type)
      PROVE  /\ FewerIn(eventQueue', Tail(eventQueue), S)
             /\ NoneIn(Tail(eventQueue), S) => NoneIn(eventQueue', S)
  <2>1. Posted(type) \in Events /\ Posted(type) \notin S
    BY PostedKinds
  <2>. QED BY <1>1, <1>5, <2>1, NoneInAppend DEF Post
<1>6. CASE \E type \in PostedTypes : Post(type)
  <2>1. /\ FewerIn(eventQueue', Tail(eventQueue), S)
        /\ NoneIn(Tail(eventQueue), S) => NoneIn(eventQueue', S)
    BY <1>5, <1>6
  <2>2. FewerIn(eventQueue', eventQueue, S)
    BY <1>2, <2>1, FewerTransitive
  <2>. QED BY <1>2, <1>3, <2>1, <2>2
<1>. QED BY <1>4, <1>6

(* The event queue after a deferring state is left: what was deferred comes back. *)
LEMMA QueueGivenBack ==
    ASSUME TypeOK, eventQueue # <<>>, NEW e \in Players,
           NEW posted \in {<<>>, <<Posted("ProcessTurn")>>}, LeaveDeferring(posted)
    PROVE  /\ EventsOf(eventQueue') \cap TurnOrdersOf(e)
                 \subseteq EventsOf(eventQueue) \cup EventsOf(deferredEvents)
           /\ EventsOf(deferredEvents) \subseteq EventsOf(eventQueue')
           /\ /\ OnceIn(eventQueue, TurnOrdersOf(e))
              /\ OnceIn(deferredEvents, TurnOrdersOf(e))
              /\ \/ NoneIn(eventQueue, TurnOrdersOf(e))
                 \/ NoneIn(deferredEvents, TurnOrdersOf(e))
              => OnceIn(eventQueue', TurnOrdersOf(e))
           /\ deferredEvents' = <<>>
<1>. DEFINE S == TurnOrdersOf(e)
            given == deferredEvents \o Tail(eventQueue)
<1>1. /\ eventQueue \in Seq(Events)
      /\ Tail(eventQueue) \in Seq(Events)
      /\ deferredEvents \in Seq(Events)
  BY CurrentTyped, DeferredQueue DEF TypeOK
<1>2. /\ FewerIn(Tail(eventQueue), eventQueue, S)
      /\ EventsOf(Tail(eventQueue)) \subseteq EventsOf(eventQueue)
  BY <1>1, FewerInTail, ElementsOfTail
<1>3. posted \in Seq(Events) /\ NoneIn(posted, S) /\ OnceIn(posted, S)
  <2>1. Posted("ProcessTurn") \in Events /\ Posted("ProcessTurn") \notin S
    BY PostedKinds DEF PostedTypes
  <2>2. <<Posted("ProcessTurn")>> \in Seq(Events) /\ <<>> \in Seq(Events)
    BY <2>1
  <2>3. /\ NoneIn(<<Posted("ProcessTurn")>>, S) /\ OnceIn(<<Posted("ProcessTurn")>>, S)
        /\ NoneIn(<<>>, S) /\ OnceIn(<<>>, S)
    BY <2>1, NoneInSingle, NoneInEmpty
  <2>. QED BY <2>2, <2>3
<1>4. given \in Seq(Events)
  BY <1>1, ConcatProperties
<1>5. eventQueue' = given \o posted /\ deferredEvents' = <<>>
  BY DEF LeaveDeferring
<1>6. /\ EventsOf(given) = EventsOf(deferredEvents) \cup EventsOf(Tail(eventQueue))
      /\ /\ OnceIn(deferredEvents, S)
         /\ OnceIn(Tail(eventQueue), S)
         /\ NoneIn(deferredEvents, S) \/ NoneIn(Tail(eventQueue), S)
         => OnceIn(given, S)
  BY <1>1, ElementsOfConcat, NoneInConcat
<1>. HIDE DEF given
<1>7. /\ EventsOf(given \o posted) = EventsOf(given) \cup EventsOf(posted)
      /\ OnceIn(given, S) => OnceIn(given \o posted, S)
  BY <1>3, <1>4, ElementsOfConcat, NoneInConcat
<1>8. NoneIn(eventQueue, S) => NoneIn(Tail(eventQueue), S)
  BY <1>2 DEF NoneIn
<1>9. OnceIn(eventQueue, S) => OnceIn(Tail(eventQueue), S)
  BY <1>2 DEF FewerIn
<1>10. \A x \in EventsOf(posted) : x \notin S
  BY <1>3 DEF NoneIn
<1>. QED BY <1>2, <1>5, <1>6, <1>7, <1>8, <1>9, <1>10

(* What the server sends besides TURN_UPDATE.                                    *)
LEMMA OtherNewsSent ==
    ASSUME TypeOK, NEW ps, NEW ms \in Seq(ClientMessages), SendTo(ps, ms), NEW e \in Players,
           NoneIn(ms, TurnUpdates)
    PROVE  FewerIn(toClient'[e], toClient[e], TurnUpdates)
<1>1. toClient[e] \in Seq(ClientMessages)
  BY DEF TypeOK
<1>2. /\ FewerIn(toClient[e] \o ms, toClient[e], TurnUpdates)
      /\ FewerIn(toClient[e], toClient[e], TurnUpdates)
  BY <1>1, NoneInConcat, FewerSame
<1>3. toClient'[e] = IF e \in ps THEN toClient[e] \o ms ELSE toClient[e]
  BY DEF SendTo
<1>. QED BY <1>2, <1>3

LEMMA StatusKinds ==
    ASSUME NEW ps \in SUBSET AIs, NEW w \in BOOLEAN
    PROVE  /\ PlayerStatus(ps, w) \in Seq(ClientMessages)
           /\ NoneIn(PlayerStatus(ps, w), TurnUpdates)
<1>1. \A m \in EventsOf(PlayerStatus(ps, w)) : m.type = "PLAYER_STATUS"
  BY StatusElements
<1>2. \A m \in TurnUpdates : m.type = "TURN_UPDATE"
  BY DEF TurnUpdates
<1>3. PlayerStatus(ps, w) \in Seq(ClientMessages)
  BY PlayerStatusTyped
<1>. QED BY <1>1, <1>2, <1>3 DEF NoneIn

LEMMA OnlyTurnsAnnounced ==
    ASSUME TypeOK, React, ~ProcessTurn, NEW e \in Players
    PROVE  FewerIn(toClient'[e], toClient[e], TurnUpdates)
<1>1. CASE UNCHANGED toClient
  BY <1>1, FewerSame
<1>2. CASE TurnOrders
  <2>1. PICK c \in ConnectionOf(Current) :
            RejectTurnOrders(c) \/ ModeratorEndsTurn(c) \/ StoreTurnOrders(c)
    BY <1>2 DEF TurnOrders
  <2>2. CASE StoreTurnOrders(c)
    <3>. DEFINE ms == PlayerStatus({Current.player} \cap AIs, TRUE)
    <3>1. ms \in Seq(ClientMessages) /\ NoneIn(ms, TurnUpdates)
      BY StatusKinds
    <3>2. PICK reached : SendTo(reached, ms)
      BY <2>2 DEF StoreTurnOrders
    <3>. HIDE DEF ms
    <3>. QED BY <3>1, <3>2, OtherNewsSent
  <2>. QED BY <1>1, <2>1, <2>2 DEF RejectTurnOrders, ModeratorEndsTurn
<1>3. CASE SaveGameRequest
  <2>1. toClient[e] \in Seq(ClientMessages) /\ SaveGameMessage(e) \in ClientMessages
    BY DEF SaveGameMessage, ClientMessages, PlayerIsHost, TypeOK
  <2>2. SaveGameMessage(e) \notin TurnUpdates
    BY DEF SaveGameMessage, TurnUpdates
  <2>3. FewerIn(Append(toClient[e], SaveGameMessage(e)), toClient[e], TurnUpdates)
    BY <2>1, <2>2, NoneInAppend
  <2>4. toClient'[e] = toClient[e] \/ toClient'[e] = Append(toClient[e], SaveGameMessage(e))
    BY <1>3 DEF SaveGameRequest
  <2>. QED BY <2>3, <2>4, FewerSame
<1>4. CASE HandleNonLobbyDisconnection
  <2>1. m_host_player_id' \in Players \cup {NoPlayer}
    BY <1>4 DEF HandleNonLobbyDisconnection, SelectNewHost, HostCandidates, TypeOK
  <2>2. ASSUME NEW x \in ClientMessages, x.type # "TURN_UPDATE", NEW ps, SendTo(ps, <<x>>)
        PROVE  FewerIn(toClient'[e], toClient[e], TurnUpdates)
    <3>1. <<x>> \in Seq(ClientMessages) /\ NoneIn(<<x>>, TurnUpdates)
      BY <2>2, KindsOfMessages, NoneInSingle
    <3>. QED BY <2>2, <3>1, OtherNewsSent
  <2>3. /\ [type |-> "END_GAME"] \in ClientMessages
        /\ [type |-> "HOST_ID", host |-> m_host_player_id'] \in ClientMessages
    BY <2>1 DEF ClientMessages
  <2>4. \/ UNCHANGED toClient
        \/ \E reached :
              \/ SendTo(reached, <<[type |-> "END_GAME"]>>)
              \/ SendTo(reached, << [type |-> "HOST_ID", host |-> m_host_player_id'] >>)
    BY <1>4 DEF HandleNonLobbyDisconnection, SelectNewHost
  <2>5. ASSUME NEW reached, SendTo(reached, <<[type |-> "END_GAME"]>>)
        PROVE  FewerIn(toClient'[e], toClient[e], TurnUpdates)
    BY <2>2, <2>3, <2>5
  <2>6. ASSUME NEW reached,
               SendTo(reached, << [type |-> "HOST_ID", host |-> m_host_player_id'] >>)
        PROVE  FewerIn(toClient'[e], toClient[e], TurnUpdates)
    BY <2>2, <2>3, <2>6
  <2>. QED BY <1>1, <2>4, <2>5, <2>6
<1>. QED BY <1>1, <1>2, <1>3, <1>4
     DEF React, HandleShutdownMessage, Deferred, CheckTurnEndConditions, ClientSaveData,
         UnconsumedSaveData, DropCheck

(* What the server leaves alone: the clients, the current turn and the order sets *)
(* of others than the one whose orders it receives.                              *)
LEMMA ServerLeavesAlone ==
    ASSUME TypeOK, Server, React, ~ProcessTurn, NEW e \in Empires
    PROVE  /\ UNCHANGED <<toServer, clientState, clientTurn, m_orders, m_current_turn>>
           /\ \/ m_turn_sequence'[e] = m_turn_sequence[e]
              \/ TurnOrders /\ Current \in TurnOrdersOf(e)
<1>1. UNCHANGED <<toServer, m_current_turn>>
  BY DEF React, HandleShutdownMessage, Deferred, TurnOrders, CheckTurnEndConditions,
         SaveGameRequest, ClientSaveData, UnconsumedSaveData, DropCheck,
         HandleNonLobbyDisconnection
<1>2. CASE UNCHANGED m_turn_sequence
  BY <1>1, <1>2 DEF Server, clientVars
<1>3. CASE TurnOrders
  <2>1. Current.type = "TurnOrders" /\ eventQueue # <<>>
    BY <1>3 DEF TurnOrders, Dispatching
  <2>2. Current.player = e => Current \in TurnOrdersOf(e)
    BY <2>1, CurrentTyped, KindsOfEvents DEF Players
  <2>3. Current.player # e => m_turn_sequence'[e] = m_turn_sequence[e]
    BY <1>3 DEF TurnOrders, RejectTurnOrders, ModeratorEndsTurn, StoreTurnOrders, TypeOK
  <2>. QED BY <1>1, <1>3, <2>2, <2>3 DEF Server, clientVars
<1>. QED BY <1>2, <1>3
     DEF React, HandleShutdownMessage, Deferred, CheckTurnEndConditions, SaveGameRequest,
         ClientSaveData, UnconsumedSaveData, DropCheck, HandleNonLobbyDisconnection

(* A deferring state is left: the order set it kept, if any, is read again.        *)
LEMMA JourneyGivenBack ==
    ASSUME TypeOK, eventQueue # <<>>, NEW e \in Empires, JourneyOf(e),
           NEW posted \in {<<>>, <<Posted("ProcessTurn")>>}, LeaveDeferring(posted),
           FewerIn(toClient'[e], toClient[e], TurnUpdates),
           m_turn_sequence'[e] = m_turn_sequence[e],
           UNCHANGED <<toServer, clientState, clientTurn, m_orders, m_current_turn>>
    PROVE  JourneyOf(e)' /\ (AtServer(e)' => AtServer(e))
<1>1. e \in Players
  BY DEF Players
<1>2. /\ EventsOf(eventQueue') \cap TurnOrdersOf(e)
            \subseteq EventsOf(eventQueue) \cup EventsOf(deferredEvents)
      /\ OnceIn(eventQueue', TurnOrdersOf(e))
      /\ deferredEvents' = <<>>
  <2>1. /\ OnceIn(eventQueue, TurnOrdersOf(e))
        /\ OnceIn(deferredEvents, TurnOrdersOf(e))
    BY DEF JourneyOf, OnlyOnce
  <2>2. NoneIn(eventQueue, TurnOrdersOf(e)) \/ NoneIn(deferredEvents, TurnOrdersOf(e))
    BY DEF JourneyOf, OnePlace, Read, Kept
  <2>. QED BY <1>1, <2>1, <2>2, QueueGivenBack
<1>3. NoneIn(deferredEvents', TurnOrdersOf(e)) /\ OnceIn(deferredEvents', TurnOrdersOf(e))
  BY <1>2, NoneInEmpty
<1>4. /\ Updated(e)' => Updated(e)
      /\ Playing(e)' <=> Playing(e)
      /\ Sent(e)' <=> Sent(e)
      /\ Read(e)' => Read(e) \/ Kept(e)
      /\ ~Kept(e)'
      /\ Got(e)' <=> Got(e)
  BY <1>2, <1>3, FewerNone DEF Updated, Playing, Sent, Read, Kept, Got, NoneIn
<1>5. OnePlace(e)'
  BY <1>4 DEF JourneyOf, OnePlace
<1>6. OnlyOnce(e)'
  BY <1>2, <1>3 DEF JourneyOf, OnlyOnce, FewerIn
<1>7. OfTurn(eventQueue', TurnOrdersOf(e), m_current_turn)
  BY <1>2 DEF JourneyOf, OfThisTurn, OfTurn
<1>8. OfTurn(deferredEvents', TurnOrdersOf(e), m_current_turn)
  BY <1>3 DEF NoneIn, OfTurn
<1>9. \A m \in EventsOf(toClient'[e]) : m \in TurnUpdates => m.turn = m_current_turn
  BY DEF JourneyOf, OfThisTurn, FewerIn
<1>10. OfThisTurn(e)'
  BY <1>4, <1>7, <1>8, <1>9 DEF JourneyOf, OfThisTurn
<1>. QED BY <1>4, <1>5, <1>6, <1>10 DEF JourneyOf, AtServer

(* Every reaction but the processing of the turn.                                  *)
LEMMA ReactJourney ==
    ASSUME TypeOK, Server, React, ~ProcessTurn, NEW e \in Empires, JourneyOf(e)
    PROVE  JourneyOf(e)' /\ (AtServer(e)' => AtServer(e))
<1>1. e \in Players
  BY DEF Players
<1>2. UNCHANGED <<toServer, clientState, clientTurn, m_orders, m_current_turn>>
  BY ServerLeavesAlone
<1>3. FewerIn(toClient'[e], toClient[e], TurnUpdates)
  BY <1>1, OnlyTurnsAnnounced
<1>4. eventQueue # <<>>
  BY QueueMoves
<1>5. /\ m_orders[e] \subseteq {clientTurn[e]}
      /\ clientState[e] = "WaitingForTurnData" => m_orders[e] = {}
      /\ OnceIn(eventQueue, TurnOrdersOf(e))
  BY DEF JourneyOf, OfThisTurn, OnlyOnce
<1>6. ASSUME Discard \/ \E type \in PostedTypes : Post(type),
             UNCHANGED deferredEvents, m_turn_sequence'[e] = m_turn_sequence[e]
      PROVE  JourneyOf(e)' /\ (AtServer(e)' => AtServer(e))
  <2>1. FewerIn(eventQueue', eventQueue, TurnOrdersOf(e))
    BY <1>1, <1>4, <1>6, QueueDiscarded
  <2>2. /\ FewerIn(deferredEvents', deferredEvents, TurnOrdersOf(e))
        /\ FewerIn(toServer'[e], toServer[e], TurnOrdersOf(e))
    BY <1>2, <1>6, FewerSame
  <2>. QED BY <1>2, <1>3, <1>5, <1>6, <2>1, <2>2, JourneyKept
<1>7. CASE Deferred
  <2>. DEFINE x == [Current EXCEPT !.dangling = TRUE]
  <2>1. /\ Discard
        /\ deferredEvents' = Append(deferredEvents, x)
        /\ UNCHANGED m_turn_sequence
    BY <1>7 DEF Deferred, KeptEvents
  <2>2. /\ Current \in EventsFrom(DeferredTypes, Players)
        /\ x \in EventsFrom(DeferredTypes, Players)
        /\ x.turns = Current.turns
        /\ x \in TurnOrdersOf(e) <=> Current \in TurnOrdersOf(e)
    <3>1. Current \in EventsFrom(DeferredTypes, Players)
      BY <1>7, CurrentTyped DEF Deferred, EventsFrom, ReceivedTypes
    <3>. QED BY <3>1 DEF EventsFrom, TurnOrdersOf
  <2>3. deferredEvents \in Seq(EventsFrom(DeferredTypes, Players))
    BY DEF TypeOK
  <2>. HIDE DEF x
  <2>4. /\ FewerIn(eventQueue', eventQueue, TurnOrdersOf(e))
        /\ Current \in TurnOrdersOf(e) =>
              /\ NoneIn(eventQueue', TurnOrdersOf(e))
              /\ Read(e)
              /\ Current \in EventsOf(eventQueue)
    BY <1>1, <1>4, <1>5, <2>1, QueueDiscarded DEF Read
  <2>5. /\ x \notin TurnOrdersOf(e) => FewerIn(deferredEvents', deferredEvents, TurnOrdersOf(e))
        /\ NoneIn(deferredEvents, TurnOrdersOf(e)) => OnceIn(deferredEvents', TurnOrdersOf(e))
        /\ EventsOf(deferredEvents') = EventsOf(deferredEvents) \cup {x}
    BY <2>1, <2>2, <2>3, NoneInAppend, ElementsOfAppend
  <2>6. CASE Current \notin TurnOrdersOf(e)
    <3>1. FewerIn(toServer'[e], toServer[e], TurnOrdersOf(e))
      BY <1>2, FewerSame
    <3>2. FewerIn(deferredEvents', deferredEvents, TurnOrdersOf(e))
      BY <2>2, <2>5, <2>6
    <3>. QED BY <1>2, <1>3, <1>5, <2>1, <2>4, <3>1, <3>2, JourneyKept
  <2>7. CASE Current \in TurnOrdersOf(e)
    <3>1. ~(Updated(e) \/ Playing(e) \/ Sent(e) \/ Kept(e) \/ Got(e)) /\ AtServer(e)
      BY <2>4, <2>7 DEF JourneyOf, OnePlace, AtServer
    <3>2. ~(Updated(e)' \/ Playing(e)' \/ Sent(e)' \/ Read(e)' \/ Got(e)')
      BY <1>2, <1>3, <2>1, <2>4, <2>7, <3>1, FewerNone
         DEF Updated, Playing, Sent, Read, Got
    <3>3. OnePlace(e)'
      BY <3>2 DEF OnePlace
    <3>4. OnlyOnce(e)'
      BY <1>2, <1>3, <2>4, <2>5, <3>1 DEF JourneyOf, OnlyOnce, FewerIn, Kept
    <3>5. OfTurn(deferredEvents', TurnOrdersOf(e), m_current_turn)
      BY <2>2, <2>4, <2>5, <2>7 DEF JourneyOf, OfThisTurn, OfTurn
    <3>6. OfTurn(eventQueue', TurnOrdersOf(e), m_current_turn)
      BY <2>4 DEF JourneyOf, OfThisTurn, OfTurn, FewerIn
    <3>7. \A m \in EventsOf(toClient'[e]) : m \in TurnUpdates => m.turn = m_current_turn
      BY <1>3 DEF JourneyOf, OfThisTurn, FewerIn
    <3>8. OfThisTurn(e)'
      BY <1>2, <2>1, <3>2, <3>5, <3>6, <3>7 DEF JourneyOf, OfThisTurn, Got
    <3>. QED BY <3>1, <3>3, <3>4, <3>8 DEF JourneyOf
  <2>. QED BY <2>6, <2>7
<1>8. CASE TurnOrders
  <2>1. PICK c \in ConnectionOf(Current) :
            RejectTurnOrders(c) \/ ModeratorEndsTurn(c) \/ StoreTurnOrders(c)
    BY <1>8 DEF TurnOrders
  <2>2. UNCHANGED deferredEvents /\ Current.type = "TurnOrders"
    BY <1>8 DEF TurnOrders, Dispatching
  <2>3. CASE RejectTurnOrders(c) \/ ModeratorEndsTurn(c)
    BY <1>6, <2>2, <2>3 DEF RejectTurnOrders, ModeratorEndsTurn, PostedTypes
  <2>4. CASE StoreTurnOrders(c) /\ Current.player # e
    BY <1>6, <2>2, <2>4 DEF StoreTurnOrders, PostedTypes, TypeOK
  <2>5. CASE StoreTurnOrders(c) /\ Current.player = e
    <3>1. /\ m_turn_sequence'[e] = [got |-> TRUE, turns |-> Current.turns]
          /\ Post("CheckTurnEndConditions")
      BY <2>5 DEF StoreTurnOrders, TypeOK
    <3>2. Current \in TurnOrdersOf(e)
      BY <1>1, <1>4, <2>2, <2>5, CurrentTyped, KindsOfEvents
    <3>3. /\ FewerIn(eventQueue', eventQueue, TurnOrdersOf(e))
          /\ NoneIn(eventQueue', TurnOrdersOf(e))
          /\ Read(e)
          /\ Current \in EventsOf(eventQueue)
      BY <1>1, <1>4, <1>5, <3>1, <3>2, QueueDiscarded DEF PostedTypes, Read
    <3>4. Current.turns \subseteq {m_current_turn}
      BY <3>2, <3>3 DEF JourneyOf, OfThisTurn, OfTurn
    <3>5. ~(Updated(e) \/ Playing(e) \/ Sent(e) \/ Kept(e)) /\ AtServer(e)
      BY <3>3 DEF JourneyOf, OnePlace, AtServer
    <3>6. ~(Updated(e)' \/ Playing(e)' \/ Sent(e)' \/ Read(e)' \/ Kept(e)') /\ Got(e)'
      BY <1>2, <1>3, <2>2, <3>1, <3>3, <3>5, FewerNone
         DEF Updated, Playing, Sent, Read, Kept, Got
    <3>7. OnePlace(e)'
      BY <3>6 DEF OnePlace
    <3>8. OnlyOnce(e)'
      BY <1>2, <1>3, <2>2, <3>3 DEF JourneyOf, OnlyOnce, FewerIn
    <3>9. OfTurn(eventQueue', TurnOrdersOf(e), m_current_turn)
      BY <3>3 DEF NoneIn, OfTurn
    <3>10. \A m \in EventsOf(toClient'[e]) : m \in TurnUpdates => m.turn = m_current_turn
      BY <1>3 DEF JourneyOf, OfThisTurn, FewerIn
    <3>11. OfThisTurn(e)'
      BY <1>2, <2>2, <3>1, <3>4, <3>6, <3>9, <3>10 DEF JourneyOf, OfThisTurn
    <3>. QED BY <3>5, <3>7, <3>8, <3>11 DEF JourneyOf
  <2>. QED BY <2>1, <2>3, <2>4, <2>5
<1>9. CASE CheckTurnEndConditions
  <2>1. /\ UNCHANGED m_turn_sequence
        /\ \/ Discard /\ UNCHANGED deferredEvents
           \/ LeaveDeferring(<<Posted("ProcessTurn")>>)
    BY <1>9 DEF CheckTurnEndConditions, EventsEndingTurn
  <2>2. CASE LeaveDeferring(<<Posted("ProcessTurn")>>)
    BY <1>2, <1>3, <1>4, <2>1, <2>2, JourneyGivenBack
  <2>. QED BY <1>6, <2>1, <2>2
<1>10. CASE ClientSaveData
  <2>1. /\ UNCHANGED m_turn_sequence
        /\ \/ Discard /\ UNCHANGED deferredEvents
           \/ LeaveDeferring(<<>>)
    BY <1>10 DEF ClientSaveData
  <2>2. CASE LeaveDeferring(<<>>)
    BY <1>2, <1>3, <1>4, <2>1, <2>2, JourneyGivenBack
  <2>. QED BY <1>6, <2>1, <2>2
<1>11. CASE HandleShutdownMessage \/ SaveGameRequest \/ UnconsumedSaveData \/ DropCheck
            \/ HandleNonLobbyDisconnection
  BY <1>6, <1>11 DEF HandleShutdownMessage, SaveGameRequest, UnconsumedSaveData, DropCheck,
                     HandleNonLobbyDisconnection
<1>. QED BY <1>7, <1>8, <1>9, <1>10, <1>11 DEF React

(* Without moderators a turn is being processed only when every empire's orders   *)
(* have come.                                                                     *)
TurnMayEnd == fsm = "ProcessingTurn" => AllOrdersReceived \/ Moderators # {}

LEMMA TurnMayEndStep == TurnMayEnd /\ [Next]_vars => TurnMayEnd'
<1>. SUFFICES ASSUME TurnMayEnd, [Next]_vars, fsm' = "ProcessingTurn" PROVE TurnMayEnd'
  BY DEF TurnMayEnd
<1>. USE DEF TurnMayEnd, AllOrdersReceived
<1>1. CASE UNCHANGED <<fsm, m_turn_sequence>>
  BY <1>1
<1>2. CASE TurnOrders
  BY <1>2, GoesOn DEF TurnOrders, RejectTurnOrders, ModeratorEndsTurn
<1>3. CASE CheckTurnEndConditions
  BY <1>3 DEF CheckTurnEndConditions
<1>4. ASSUME ServerNext
      PROVE  TurnOrders \/ CheckTurnEndConditions \/ UNCHANGED <<fsm, m_turn_sequence>>
  BY <1>4, GoesOn
     DEF ServerNext, React, ReadFrom, HandleShutdownMessage, Deferred, SaveGameRequest,
         ClientSaveData, UnconsumedSaveData, DropCheck, HandleNonLobbyDisconnection
<1>5. ASSUME NEW p \in Players, ClientNext(p) PROVE UNCHANGED <<fsm, m_turn_sequence>>
  BY <1>5, ClientKeepsServer DEF serverVars
<1>. QED BY <1>1, <1>2, <1>3, <1>4, <1>5 DEF Next, Server, vars, serverVars

(* The turn is processed: every empire's order set is in the turn sequence, so     *)
(* nothing of an earlier turn is left anywhere when the next one is announced.     *)
LEMMA NewTurnJourney ==
    ASSUME TypeOK, Server, ProcessTurn, Moderators = {}, TurnMayEnd, NEW e \in Empires,
           JourneyOf(e)
    PROVE  JourneyOf(e)' /\ AtServer(e)
<1>1. e \in Players /\ eventQueue # <<>>
  BY DEF Players, ProcessTurn, Dispatching
<1>2. Got(e)
  BY DEF TurnMayEnd, AllOrdersReceived, ProcessTurn, Got
<1>3. ~(Updated(e) \/ Playing(e) \/ Sent(e) \/ Read(e) \/ Kept(e))
  BY <1>2 DEF JourneyOf, OnePlace
<1>4. /\ UNCHANGED <<toServer, clientState, clientTurn, m_orders>>
      /\ m_turn_sequence'[e] = NullOrders
      /\ m_current_turn' = m_current_turn + 1
      /\ LeaveDeferring(<<>>)
  BY DEF ProcessTurn, ClearedTurnOrders, Server, clientVars
<1>5. /\ NoneIn(eventQueue', TurnOrdersOf(e))
      /\ NoneIn(deferredEvents', TurnOrdersOf(e))
  <2>1. /\ EventsOf(eventQueue') \cap TurnOrdersOf(e)
              \subseteq EventsOf(eventQueue) \cup EventsOf(deferredEvents)
        /\ deferredEvents' = <<>>
    BY <1>1, <1>4, QueueGivenBack
  <2>2. \A x \in EventsOf(eventQueue) \cup EventsOf(deferredEvents) : x \notin TurnOrdersOf(e)
    BY <1>3 DEF Read, Kept, NoneIn
  <2>. QED BY <2>1, <2>2, NoneInEmpty DEF NoneIn
<1>6. /\ OnceIn(toClient'[e], TurnUpdates)
      /\ \A m \in EventsOf(toClient'[e]) : m \in TurnUpdates => m.turn = m_current_turn'
  <2>. DEFINE update == [type |-> "TURN_UPDATE", turn |-> m_current_turn']
              status == PlayerStatus(m_player_connections \cap AIs, FALSE)
              ms == <<update>> \o status
  <2>1. /\ update \in ClientMessages /\ update.turn = m_current_turn'
        /\ status \in Seq(ClientMessages)
        /\ NoneIn(status, TurnUpdates)
        /\ toClient[e] \in Seq(ClientMessages)
        /\ NoneIn(toClient[e], TurnUpdates)
    <3>1. update \in ClientMessages /\ update.turn = m_current_turn'
      BY <1>4 DEF ClientMessages, TypeOK
    <3>2. /\ status \in Seq(ClientMessages)
          /\ NoneIn(status, TurnUpdates)
      BY StatusKinds
    <3>3. toClient[e] \in Seq(ClientMessages)
      BY <1>1 DEF TypeOK
    <3>4. NoneIn(toClient[e], TurnUpdates)
      BY <1>3 DEF Updated
    <3>. QED BY <3>1, <3>2, <3>3, <3>4
  <2>2. PICK reached :
          toClient'[e] = IF e \in reached THEN toClient[e] \o ms ELSE toClient[e]
    BY <1>1 DEF ProcessTurn, SendTo
  <2>. HIDE DEF update, status
  <2>3. <<update>> \in Seq(ClientMessages) /\ OnceIn(<<update>>, TurnUpdates)
    BY <2>1, NoneInSingle
  <2>4. /\ ms \in Seq(ClientMessages)
        /\ OnceIn(ms, TurnUpdates)
        /\ EventsOf(ms) = EventsOf(<<update>>) \cup EventsOf(status)
    <3>1. FewerIn(ms, <<update>>, TurnUpdates)
      BY <2>1, <2>3, NoneInConcat
    <3>. QED BY <2>1, <2>3, <3>1, ElementsOfConcat, ConcatProperties DEF FewerIn
  <2>5. \A m \in EventsOf(ms) : m \in TurnUpdates => m.turn = m_current_turn'
    BY <2>1, <2>4 DEF EventsOf, NoneIn
  <2>. HIDE DEF ms
  <2>6. /\ FewerIn(toClient[e] \o ms, ms, TurnUpdates)
        /\ FewerIn(toClient[e], ms, TurnUpdates)
    <3>1. FewerIn(toClient[e] \o ms, ms, TurnUpdates)
      BY <2>1, <2>4, NoneInConcat
    <3>2. FewerIn(toClient[e], ms, TurnUpdates)
      BY <2>1 DEF FewerIn, NoneIn, OnceIn, EventsOf
    <3>. QED BY <3>1, <3>2
  <2>7. FewerIn(toClient'[e], ms, TurnUpdates)
    BY <2>2, <2>6
  <2>. QED BY <2>4, <2>5, <2>7 DEF FewerIn
<1>7. ~(Playing(e)' \/ Sent(e)' \/ Read(e)' \/ Kept(e)' \/ Got(e)')
  BY <1>3, <1>4, <1>5 DEF Playing, Sent, Read, Kept, Got, NullOrders
<1>8. OnePlace(e)'
  BY <1>7 DEF OnePlace
<1>9. OnlyOnce(e)'
  BY <1>4, <1>5, <1>6 DEF JourneyOf, OnlyOnce, NoneIn, OnceIn, EventsOf
<1>10. /\ OfTurn(toServer'[e], TurnOrdersOf(e), m_current_turn')
       /\ OfTurn(eventQueue', TurnOrdersOf(e), m_current_turn')
       /\ OfTurn(deferredEvents', TurnOrdersOf(e), m_current_turn')
  BY <1>5, <1>7 DEF Sent, NoneIn, OfTurn
<1>11. OfThisTurn(e)'
  BY <1>4, <1>6, <1>7, <1>10 DEF JourneyOf, OfThisTurn, NullOrders
<1>. QED BY <1>2, <1>8, <1>9, <1>11 DEF JourneyOf, AtServer

(* The server reads the next event of a connection.                                *)
LEMMA ReadJourney ==
    ASSUME TypeOK, Server, NEW p \in Players, ReadFrom(p), NEW e \in Empires, JourneyOf(e)
    PROVE  JourneyOf(e)'
<1>. DEFINE x == Head(toServer[p])
<1>1. /\ e \in Players
      /\ toServer[p] \in Seq(EventsFrom(ReceivedTypes, {p})) /\ toServer[p] # <<>>
      /\ x \in EventsFrom(ReceivedTypes, {p}) /\ x \in Events
  BY ChannelTyped, HeadTailProperties, SentAreEvents DEF Players, ReadFrom, TypeOK
<1>2. /\ UNCHANGED <<deferredEvents, m_turn_sequence, m_current_turn, toClient,
                     clientState, clientTurn, m_orders>>
      /\ eventQueue = <<>>
      /\ eventQueue' = <<x>>
      /\ toServer'[p] = Tail(toServer[p])
      /\ p # e => toServer'[e] = toServer[e]
  BY <1>1 DEF ReadFrom, Server, clientVars, TypeOK, ServerChannels
<1>3. x \in TurnOrdersOf(e) => p = e
  BY <1>1, KindsOfEvents DEF EventsFrom
<1>4. /\ FewerIn(toClient'[e], toClient[e], TurnUpdates)
      /\ FewerIn(deferredEvents', deferredEvents, TurnOrdersOf(e))
      /\ m_orders[e] \subseteq {clientTurn[e]}
      /\ clientState[e] = "WaitingForTurnData" => m_orders[e] = {}
  BY <1>2, FewerSame DEF JourneyOf, OfThisTurn
<1>5. /\ FewerIn(Tail(toServer[p]), toServer[p], TurnOrdersOf(e))
      /\ OnceIn(toServer[p], TurnOrdersOf(e)) /\ x \in TurnOrdersOf(e)
            => NoneIn(Tail(toServer[p]), TurnOrdersOf(e))
      /\ x \in TurnOrdersOf(e) => ~NoneIn(toServer[p], TurnOrdersOf(e))
      /\ x \in EventsOf(toServer[p])
  BY <1>1, FewerInTail, ElementsOfTail
<1>6. /\ NoneIn(eventQueue', TurnOrdersOf(e)) <=> x \notin TurnOrdersOf(e)
      /\ OnceIn(eventQueue', TurnOrdersOf(e))
      /\ EventsOf(eventQueue') = {x}
  BY <1>2, NoneInSingle DEF EventsOf
<1>. HIDE DEF x
<1>7. CASE x \notin TurnOrdersOf(e)
  <2>1. FewerIn(eventQueue', eventQueue, TurnOrdersOf(e))
    BY <1>6, <1>7 DEF FewerIn, NoneIn
  <2>2. FewerIn(toServer'[e], toServer[e], TurnOrdersOf(e))
    BY <1>2, <1>5, FewerSame
  <2>. QED BY <1>2, <1>4, <2>1, <2>2, JourneyKept
<1>8. CASE x \in TurnOrdersOf(e)
  <2>1. p = e /\ Sent(e)
    BY <1>3, <1>5, <1>8 DEF Sent
  <2>2. ~(Updated(e) \/ Playing(e) \/ Kept(e) \/ Got(e))
    BY <2>1 DEF JourneyOf, OnePlace
  <2>3. /\ NoneIn(toServer'[e], TurnOrdersOf(e))
        /\ FewerIn(toServer'[e], toServer[e], TurnOrdersOf(e))
    BY <1>2, <1>5, <1>8, <2>1 DEF JourneyOf, OnlyOnce
  <2>4. ~(Updated(e)' \/ Playing(e)' \/ Sent(e)' \/ Kept(e)' \/ Got(e)')
    BY <1>2, <2>2, <2>3 DEF Updated, Playing, Sent, Kept, Got
  <2>5. OnePlace(e)'
    BY <2>4 DEF OnePlace
  <2>6. OnlyOnce(e)'
    BY <1>2, <1>6, <2>3 DEF JourneyOf, OnlyOnce, FewerIn
  <2>7. OfTurn(eventQueue', TurnOrdersOf(e), m_current_turn)
    BY <1>5, <1>6, <1>8, <2>1 DEF JourneyOf, OfThisTurn, OfTurn
  <2>8. OfTurn(toServer'[e], TurnOrdersOf(e), m_current_turn)
    BY <2>3 DEF NoneIn, OfTurn
  <2>9. OfThisTurn(e)'
    BY <1>2, <2>4, <2>7, <2>8 DEF JourneyOf, OfThisTurn, Got
  <2>. QED BY <2>5, <2>6, <2>9 DEF JourneyOf
<1>. QED BY <1>7, <1>8

LEMMA JourneyInit == Init => JourneyInv
<1>. SUFFICES ASSUME Init, NEW e \in Empires PROVE JourneyOf(e)
  BY DEF JourneyInv
<1>. DEFINE update == [type |-> "TURN_UPDATE", turn |-> 1]
<1>1. /\ e \in Players
      /\ toClient[e] = <<update>>
      /\ toServer[e] = <<>>
      /\ eventQueue = <<>>
      /\ deferredEvents = <<>>
      /\ m_current_turn = 1
      /\ ~m_turn_sequence[e].got /\ m_turn_sequence[e].turns = {}
      /\ clientState[e] = "WaitingForTurnData"
      /\ m_orders[e] = {}
  BY DEF Init, ServerInit, ClientInit, Players, NullOrders
<1>2. /\ ~(Playing(e) \/ Sent(e) \/ Read(e) \/ Kept(e) \/ Got(e))
      /\ OnlyOnce(e)
  BY <1>1, NoneInEmpty, NoneInSingle DEF Playing, Sent, Read, Kept, Got, OnlyOnce
<1>3. OnePlace(e)
  BY <1>2 DEF OnePlace
<1>4. /\ \A m \in EventsOf(toClient[e]) : m.turn = m_current_turn
      /\ EventsOf(toServer[e]) = {} /\ EventsOf(eventQueue) = {} /\ EventsOf(deferredEvents) = {}
  BY <1>1 DEF EventsOf
<1>5. OfThisTurn(e)
  BY <1>1, <1>2, <1>4 DEF OfThisTurn, OfTurn
<1>. QED BY <1>2, <1>3, <1>5 DEF JourneyOf

LEMMA JourneyStep ==
    ASSUME Moderators = {}, HotkeyUsers = {}
    PROVE  TypeOK /\ TurnMayEnd /\ JourneyInv /\ [Next]_vars => JourneyInv'
<1>. SUFFICES ASSUME TypeOK, TurnMayEnd, JourneyInv, [Next]_vars PROVE JourneyInv'
  OBVIOUS
<1>1. CASE UNCHANGED vars
  BY <1>1 DEF vars, serverVars, clientVars, JourneyInv, JourneyOf, OnePlace, OnlyOnce, OfThisTurn,
              Updated, Playing, Sent, Read, Kept, Got
<1>2. ASSUME NEW p \in Players, ClientNext(p) PROVE JourneyInv'
  BY <1>2, ClientJourneys
<1>3. ASSUME Server, NEW e \in Empires PROVE JourneyOf(e)'
  <2>1. JourneyOf(e)
    BY DEF JourneyInv
  <2>2. ASSUME NEW p \in Players, ReadFrom(p) PROVE JourneyOf(e)'
    BY <1>3, <2>1, <2>2, ReadJourney
  <2>3. CASE ProcessTurn
    BY <1>3, <2>1, <2>3, NewTurnJourney
  <2>4. CASE React /\ ~ProcessTurn
    BY <1>3, <2>1, <2>4, ReactJourney
  <2>. QED BY <1>3, <2>2, <2>3, <2>4 DEF Server, ServerNext
<1>4. CASE Server
  BY <1>3, <1>4 DEF JourneyInv
<1>. QED BY <1>1, <1>2, <1>4 DEF Next

LEMMA JourneyAlways ==
    ASSUME Moderators = {}, HotkeyUsers = {}
    PROVE  Spec => [](TypeOK /\ TurnMayEnd /\ JourneyInv)
<1>1. Init => TurnMayEnd
  BY DEF Init, ServerInit, TurnMayEnd
<1>2. TypeOK /\ TurnMayEnd /\ JourneyInv /\ [Next]_vars => JourneyInv'
  BY JourneyStep
<1>. QED BY <1>1, <1>2, JourneyInit, TurnMayEndStep, TypeCorrect, PTL DEF Spec

(* Without moderators and without the end-turn hotkey no order is held for a turn   *)
(* it was not issued in, however saves, departures and submissions mix: the turn    *)
(* sequence holds orders of the current turn only.                                 *)
THEOREM OrdersBelongToTheTurn ==
    ASSUME Moderators = {}, HotkeyUsers = {}
    PROVE  Spec => []OrdersOfThisTurn
<1>1. JourneyInv => OrdersOfThisTurn
  BY DEF JourneyInv, JourneyOf, OfThisTurn, OrdersOfThisTurn
<1>. QED BY <1>1, JourneyAlways, PTL

-----------------------------------------------------------------------------
(* The saves.                                                                   *)
PlayersIn(data) == {data[i].player : i \in DOMAIN data}

(* While a save is gathered the players counted as having answered are those with  *)
(* an entry; the last save file has an entry of everybody still connected.         *)
GatheredInv ==
    /\ fsm = "WaitingForSaveData" => m_players_responded = PlayersIn(m_player_save_game_data)
    /\ saveFile.turn > 0 => m_player_connections \subseteq PlayersIn(saveFile.data)

LEMMA PlayersInAppend ==
    ASSUME NEW data \in Seq(SaveEntries), NEW entry \in SaveEntries
    PROVE  PlayersIn(Append(data, entry)) = PlayersIn(data) \cup {entry.player}
<1>1. \A d : PlayersIn(d) = {x.player : x \in EventsOf(d)}
  BY DEF PlayersIn, EventsOf
<1>2. EventsOf(Append(data, entry)) = EventsOf(data) \cup {entry}
  BY ElementsOfAppend
<1>. QED BY <1>1, <1>2

LEMMA GatheredStep == TypeOK /\ AskedInv /\ GatheredInv /\ [Next]_vars => GatheredInv'
<1>. SUFFICES ASSUME TypeOK, AskedInv, GatheredInv, [Next]_vars PROVE GatheredInv'
  OBVIOUS
<1>1. CASE /\ UNCHANGED <<m_players_responded, m_player_save_game_data, saveFile>>
           /\ fsm' = "WaitingForSaveData" => fsm = "WaitingForSaveData"
           /\ m_player_connections' \subseteq m_player_connections
  BY <1>1 DEF GatheredInv, PlayersIn
<1>a. ASSUME React PROVE m_player_connections' \subseteq m_player_connections
  BY <1>a, ReactionConnections
<1>2. CASE SaveGameRequest
  <2>1. /\ UNCHANGED saveFile
        /\ m_player_connections' \subseteq m_player_connections
        /\ \/ m_players_responded' = {} /\ m_player_save_game_data' = <<>>
           \/ fsm' = "WaitingForTurnEndIdle"
    BY <1>2, <1>a DEF React, SaveGameRequest
  <2>. QED BY <2>1 DEF GatheredInv, PlayersIn
<1>3. CASE ClientSaveData
  <2>. DEFINE entry == SaveEntry(Current.player, Current.turns)
  <2>1. /\ m_player_save_game_data' = Append(m_player_save_game_data, entry)
        /\ m_players_responded' = m_players_responded \cup {Current.player}
        /\ entry.player = Current.player
        /\ fsm = "WaitingForSaveData"
        /\ UNCHANGED m_needed_reponses
        /\ m_player_connections' \subseteq m_player_connections
    BY <1>3, <1>a DEF React, ClientSaveData, SaveEntry
  <2>2. entry \in SaveEntries /\ m_player_save_game_data \in Seq(SaveEntries)
    <3>1. Current.player \in Players /\ Current.turns \in OrderSets
      BY <1>3, CurrentTyped DEF ClientSaveData, Dispatching, ReceivedTypes
    <3>. QED BY <3>1 DEF SaveEntry, SaveEntries, TypeOK, TurnEntries
  <2>. HIDE DEF entry
  <2>3. m_players_responded' = PlayersIn(m_player_save_game_data')
    BY <2>1, <2>2, PlayersInAppend DEF GatheredInv
  <2>4. \/ UNCHANGED saveFile
        \/ /\ saveFile' = [turn |-> m_current_turn, data |-> m_player_save_game_data']
           /\ m_players_responded' = m_needed_reponses
    BY <1>3 DEF ClientSaveData, AllResponded
  <2>5. m_player_connections \subseteq m_needed_reponses
    BY <2>1 DEF AskedInv
  <2>6. saveFile'.turn > 0 => m_player_connections' \subseteq PlayersIn(saveFile'.data)
    <3>1. CASE UNCHANGED saveFile
      BY <2>1, <3>1 DEF GatheredInv
    <3>2. CASE /\ saveFile' = [turn |-> m_current_turn, data |-> m_player_save_game_data']
               /\ m_players_responded' = m_needed_reponses
      <4>1. saveFile'.data = m_player_save_game_data'
        BY <3>2
      <4>. QED BY <2>1, <2>3, <2>5, <3>2, <4>1
    <3>. QED BY <2>4, <3>1, <3>2
  <2>. QED BY <2>3, <2>6 DEF GatheredInv, PlayersIn
<1>4. ASSUME ServerNext, ~SaveGameRequest, ~ClientSaveData
      PROVE  /\ UNCHANGED <<m_players_responded, m_player_save_game_data, saveFile>>
             /\ fsm' = "WaitingForSaveData" => fsm = "WaitingForSaveData"
             /\ m_player_connections' \subseteq m_player_connections
  <2>1. ServerNext => m_player_connections' \subseteq m_player_connections
    BY <1>a DEF ServerNext, ReadFrom
  <2>2. TurnOrders => fsm' # "WaitingForSaveData"
    BY GoesOn DEF TurnOrders, ModeratorEndsTurn
  <2>. QED BY <1>4, <2>1, <2>2, GoesOn
       DEF ServerNext, React, ReadFrom, HandleShutdownMessage, Deferred, TurnOrders,
           CheckTurnEndConditions, ProcessTurn, UnconsumedSaveData, DropCheck,
           HandleNonLobbyDisconnection
<1>5. ASSUME NEW p \in Players, ClientNext(p) PROVE UNCHANGED serverVars
  BY <1>5, ClientKeepsServer
<1>. QED BY <1>1, <1>2, <1>3, <1>4, <1>5 DEF Next, Server, vars, serverVars

(* A save file leaves out nobody who is still connected, whoever plays, leaves or   *)
(* moderates, and however answers and departures mix.                              *)
THEOREM SavesLeaveOutNobody == Spec => []NobodyLeftOut
<1>1. Init => AskedInv /\ GatheredInv
  BY DEF Init, ServerInit, AskedInv, SaveDataConnected, GatheredInv, PlayersIn
<1>2. GatheredInv => NobodyLeftOut
  BY DEF GatheredInv, NobodyLeftOut, SavedPlayers, PlayersIn
<1>. QED BY <1>1, <1>2, AskedStep, GatheredStep, TypeCorrect, PTL DEF Spec

(* Save data that holds orders is on its way only while its empire's turn is not   *)
(* at the server, so no turn passes before it is read; and it goes ahead of the     *)
(* order set that its client submits afterwards.                                   *)
SavedOf(p) ==
    /\ p \notin Empires => m_orders[p] = {}
    /\ Precede(toServer[p], SaveDataOf(p), TurnOrdersOf(p))
    /\ ~NoneIn(toServer[p], SaveDataOf(p)) => p \in Empires /\ ~AtServer(p)
    /\ OfTurn(toServer[p], SaveDataOf(p), m_current_turn)
    /\ OfTurn(eventQueue, SaveDataOf(p), m_current_turn)

SaveDataInv ==
    /\ \A p \in Players : SavedOf(p)
    /\ \A x \in EventsOf(eventQueue) : x.type = "ClientSaveData" => eventQueue = <<x>>

(* A step of a client by which no save data with orders is sent.                    *)
LEMMA SavedKept ==
    ASSUME NEW p, SavedOf(p),
           UNCHANGED <<eventQueue, m_current_turn>>,
           AtServer(p)' => AtServer(p),
           p \notin Empires => m_orders'[p] = {},
           FewerIn(toServer'[p], toServer[p], SaveDataOf(p)),
           Precede(toServer'[p], SaveDataOf(p), TurnOrdersOf(p))
    PROVE  SavedOf(p)'
<1>1. ~NoneIn(toServer'[p], SaveDataOf(p)) => p \in Empires /\ ~AtServer(p)'
  BY FewerNone DEF SavedOf
<1>2. OfTurn(toServer'[p], SaveDataOf(p), m_current_turn')
  BY DEF SavedOf, OfTurn, FewerIn
<1>. QED BY <1>1, <1>2 DEF SavedOf

LEMMA PrecedeAppend ==
    ASSUME NEW U, NEW s \in Seq(U), NEW x \in U, NEW S, NEW T, Precede(s, S, T),
           x \notin S \/ (x \notin T /\ NoneIn(s, T))
    PROVE  Precede(Append(s, x), S, T)
<1>1. Append(s, x) = s \o <<x>> /\ <<x>> \in Seq(U)
  OBVIOUS
<1>2. NoneIn(s, T) \/ NoneIn(<<x>>, S)
  BY NoneInSingle
<1>3. Precede(<<x>>, S, T)
  BY DEF Precede
<1>. QED BY <1>1, <1>2, <1>3, PrecedeConcat

LEMMA PrecedeNone ==
    ASSUME NEW t, NEW S, NEW T, NoneIn(t, S)
    PROVE  Precede(t, S, T)
BY DEF Precede, NoneIn, EventsOf

(* One event sent.                                                                  *)
LEMMA SavedSent ==
    ASSUME TypeOK, NEW p \in Players, SavedOf(p), NEW x \in EventsFrom(ReceivedTypes, {p}),
           Send(p, <<x>>),
           UNCHANGED <<eventQueue, m_current_turn>>,
           AtServer(p)' => AtServer(p),
           p \notin Empires => m_orders'[p] = {},
           x \in SaveDataOf(p) =>
              /\ p \in Empires /\ ~AtServer(p) /\ ~Sent(p)
              /\ x.turns \subseteq {m_current_turn}
    PROVE  SavedOf(p)'
<1>1. toServer[p] \in Seq(EventsFrom(ReceivedTypes, {p})) /\ toServer'[p] = Append(toServer[p], x)
  <2>1. toServer[p] \in Seq(EventsFrom(ReceivedTypes, {p}))
    BY ChannelTyped DEF TypeOK
  <2>2. toServer[p] \o <<x>> = Append(toServer[p], x)
    BY <2>1
  <2>. QED BY <2>1, <2>2 DEF Send, TypeOK, ServerChannels
<1>2. /\ x \notin SaveDataOf(p) => FewerIn(toServer'[p], toServer[p], SaveDataOf(p))
      /\ EventsOf(toServer'[p]) = EventsOf(toServer[p]) \cup {x}
  BY EventSent
<1>3. CASE x \notin SaveDataOf(p)
  <2>1. Precede(toServer[p], SaveDataOf(p), TurnOrdersOf(p))
    BY DEF SavedOf
  <2>2. Precede(toServer'[p], SaveDataOf(p), TurnOrdersOf(p))
    BY <1>1, <1>3, <2>1, PrecedeAppend
  <2>. QED BY <1>2, <1>3, <2>2, SavedKept
<1>4. CASE x \in SaveDataOf(p)
  <2>1. Precede(toServer[p], SaveDataOf(p), TurnOrdersOf(p)) /\ NoneIn(toServer[p], TurnOrdersOf(p))
    BY <1>4 DEF SavedOf, Sent
  <2>2. x \notin TurnOrdersOf(p)
    BY <1>4 DEF SaveDataOf, TurnOrdersOf, EventsFrom
  <2>3. Precede(toServer'[p], SaveDataOf(p), TurnOrdersOf(p))
    BY <1>1, <2>1, <2>2, PrecedeAppend
  <2>4. OfTurn(toServer'[p], SaveDataOf(p), m_current_turn')
    BY <1>2, <1>4 DEF SavedOf, OfTurn
  <2>. QED BY <1>4, <2>3, <2>4 DEF SavedOf
<1>. QED BY <1>3, <1>4

LEMMA ClientSaves ==
    ASSUME TypeOK, HotkeyUsers = {}, NEW p \in Players, ClientNext(p), JourneyInv,
           SavedOf(p)
    PROVE  SavedOf(p)'
<1>1. /\ UNCHANGED <<eventQueue, deferredEvents, m_turn_sequence, m_current_turn>>
      /\ AtServer(p)' => AtServer(p)
  <2>1. UNCHANGED <<eventQueue, deferredEvents, m_turn_sequence, m_current_turn>>
    BY ClientKeepsServer DEF serverVars
  <2>2. EventsOf(toClient'[p]) \subseteq EventsOf(toClient[p])
    BY ClientNews
  <2>3. Updated(p)' => Updated(p)
    BY <2>2 DEF Updated, NoneIn
  <2>. QED BY <2>1, <2>3 DEF AtServer, Read, Kept, Got
<1>2. /\ clientState \in [Players -> {"WaitingForTurnData", "PlayingTurn", "Left"}]
      /\ m_orders \in [Players -> OrderSets]
      /\ toServer[p] \in Seq(EventsFrom(ReceivedTypes, {p}))
  BY ChannelTyped DEF TypeOK
<1>3. p \notin Empires => m_orders'[p] = {}
  <2>1. CASE IssueOrder(p)
    BY <2>1 DEF IssueOrder
  <2>2. CASE EndTurn(p)
    BY <1>2, <2>2 DEF EndTurn
  <2>3. ~IssueOrder(p) /\ ~EndTurn(p) => UNCHANGED m_orders
    BY DEF ClientNext, Responds, MenuSave, Quit, Crash, StartTurn, ReceiveResponse, AnswerSaveGame,
           ReceiveHostID, ReceivePlayerStatus, ReceiveEndGame, LoseServer, Leave, clientVars
  <2>. QED BY <2>1, <2>2, <2>3 DEF SavedOf
<1>4. Precede(toServer[p], SaveDataOf(p), TurnOrdersOf(p))
  BY DEF SavedOf
<1>5. UNCHANGED toServer => SavedOf(p)'
  BY <1>1, <1>3, <1>4, SavedKept, FewerSame
<1>6. ASSUME NEW type \in {"TurnOrders", "SaveGameRequest"}, NEW turns \in OrderSets,
             Send(p, <<Event(type, p, turns)>>)
      PROVE  SavedOf(p)'
  <2>1. Event(type, p, turns) \in EventsFrom(ReceivedTypes, {p})
    BY ReceivedTyped DEF ReceivedTypes, DeferredTypes
  <2>2. Event(type, p, turns) \notin SaveDataOf(p)
    BY DEF Event, SaveDataOf, EventsFrom
  <2>. QED BY <1>1, <1>3, <1>6, <2>1, <2>2, SavedSent
<1>7. ASSUME Send(p, <<SaveData(p)>>), clientState[p] # "Left" PROVE SavedOf(p)'
  <2>1. SaveData(p) \in EventsFrom(ReceivedTypes, {p}) /\ SaveData(p).turns = m_orders[p]
    BY <1>2, ReceivedTyped DEF SaveData, ReceivedTypes, Event
  <2>2. ASSUME SaveData(p) \in SaveDataOf(p)
        PROVE  /\ p \in Empires /\ ~AtServer(p) /\ ~Sent(p)
               /\ SaveData(p).turns \subseteq {m_current_turn}
    <3>1. m_orders[p] # {}
      BY <2>1, <2>2 DEF SaveDataOf
    <3>2. p \in Empires
      BY <3>1 DEF SavedOf
    <3>3. JourneyOf(p)
      BY <3>2 DEF JourneyInv
    <3>4. Playing(p)
      BY <1>2, <1>7, <3>1, <3>3 DEF JourneyOf, OfThisTurn, Playing
    <3>5. ~AtServer(p) /\ ~Sent(p)
      BY <3>3, <3>4 DEF JourneyOf, OnePlace, AtServer
    <3>6. SaveData(p).turns \subseteq {m_current_turn}
      BY <2>1, <3>3, <3>4 DEF JourneyOf, OfThisTurn
    <3>. QED BY <3>2, <3>5, <3>6
  <2>. QED BY <1>1, <1>3, <1>7, <2>1, <2>2, SavedSent
<1>8. Send(p, Goodbye(p)) => SavedOf(p)'
  <2>1. /\ Goodbye(p) \in Seq(EventsFrom(ReceivedTypes, {p}))
        /\ NoneIn(Goodbye(p), SaveDataOf(p))
    BY FarewellKinds
  <2>2. Precede(Goodbye(p), SaveDataOf(p), TurnOrdersOf(p))
    BY <2>1, PrecedeNone
  <2>3. /\ FewerIn(toServer[p] \o Goodbye(p), toServer[p], SaveDataOf(p))
        /\ Precede(toServer[p] \o Goodbye(p), SaveDataOf(p), TurnOrdersOf(p))
    BY <1>2, <1>4, <2>1, <2>2, NoneInConcat, PrecedeConcat
  <2>4. Send(p, Goodbye(p)) => toServer'[p] = toServer[p] \o Goodbye(p)
    BY DEF Send, TypeOK, ServerChannels
  <2>. QED BY <1>1, <1>3, <2>3, <2>4, SavedKept
<1>9. CASE Crash(p)
  <2>1. PICK n \in 0 .. Len(toServer[p]), noticed \in {<<>>, <<Event("Disconnection", p, {})>>} :
          toServer' = [toServer EXCEPT ![p] = SubSeq(@, 1, n) \o noticed]
    BY <1>9 DEF Crash
  <2>. DEFINE front == SubSeq(toServer[p], 1, n)
  <2>2. /\ front \in Seq(EventsFrom(ReceivedTypes, {p}))
        /\ FewerIn(front, toServer[p], SaveDataOf(p))
        /\ Precede(front, SaveDataOf(p), TurnOrdersOf(p))
    <3>1. \A k \in 1 .. n : toServer[p][k] \in EventsFrom(ReceivedTypes, {p})
      BY <1>2, ElementOfSeq, LenProperties
    <3>2. Len(toServer[p]) \in Nat
      BY <1>2, LenProperties
    <3>3. front \in Seq(EventsFrom(ReceivedTypes, {p}))
      BY <1>2, <3>1, <3>2, SubSeqProperties
    <3>. QED BY <1>2, <1>4, <3>3, FewerInPrefix, PrecedePrefix
  <2>3. /\ noticed \in Seq(EventsFrom(ReceivedTypes, {p}))
        /\ NoneIn(noticed, SaveDataOf(p))
        /\ Precede(noticed, SaveDataOf(p), TurnOrdersOf(p))
    BY FarewellKinds, PrecedeNone
  <2>4. toServer'[p] = front \o noticed
    BY <2>1 DEF TypeOK, ServerChannels
  <2>. HIDE DEF front
  <2>5. /\ FewerIn(front \o noticed, front, SaveDataOf(p))
        /\ Precede(front \o noticed, SaveDataOf(p), TurnOrdersOf(p))
    BY <2>2, <2>3, NoneInConcat, PrecedeConcat
  <2>6. FewerIn(toServer'[p], toServer[p], SaveDataOf(p))
    BY <2>2, <2>4, <2>5, FewerTransitive
  <2>. QED BY <1>1, <1>3, <2>4, <2>5, <2>6, SavedKept
<1>10. \/ UNCHANGED toServer
       \/ \E type \in {"TurnOrders", "SaveGameRequest"}, turns \in OrderSets :
             Send(p, <<Event(type, p, turns)>>)
       \/ Send(p, <<SaveData(p)>>) /\ clientState[p] # "Left"
       \/ Send(p, Goodbye(p))
       \/ Crash(p)
  <2>1. {} \in OrderSets /\ m_orders[p] \in OrderSets
    BY <1>2 DEF OrderSets
  <2>2. CASE EndTurn(p)
    BY <2>1, <2>2 DEF EndTurn
  <2>3. CASE StartTurn(p) \/ MenuSave(p)
    BY <2>1, <2>3 DEF StartTurn, MenuSave
  <2>4. CASE AnswerSaveGame(p) \/ ReceiveResponse(p)
    BY <2>4 DEF AnswerSaveGame, ReceiveResponse, NextMessage, Reads, Running
  <2>5. CASE Quit(p) \/ ReceiveEndGame(p)
    BY <2>5 DEF Quit, ReceiveEndGame
  <2>6. CASE IssueOrder(p) \/ ReceiveHostID(p) \/ ReceivePlayerStatus(p) \/ LoseServer(p)
    BY <2>6 DEF IssueOrder, ReceiveHostID, ReceivePlayerStatus, LoseServer
  <2>. QED BY <2>2, <2>3, <2>4, <2>5, <2>6 DEF ClientNext, Responds
<1>. QED BY <1>5, <1>6, <1>7, <1>8, <1>9, <1>10

(* The server's reactions: save data is dispatched before any other event is read,   *)
(* and a turn passes only when no save data with orders is on its way.              *)
LEMMA NoSaveDataLeft ==
    ASSUME TypeOK, React,
           \A x \in EventsOf(eventQueue) : x.type = "ClientSaveData" => eventQueue = <<x>>,
           NEW x \in EventsOf(eventQueue')
    PROVE  x.type # "ClientSaveData"
<1>. SUFFICES ASSUME x.type = "ClientSaveData" PROVE FALSE
  OBVIOUS
<1>1. /\ eventQueue # <<>> /\ eventQueue \in Seq(Events)
      /\ deferredEvents \in Seq(EventsFrom(DeferredTypes, Players))
  BY QueueMoves DEF TypeOK
<1>2. \A y \in EventsOf(deferredEvents) : y.type \in DeferredTypes
  <2>1. \A i \in DOMAIN deferredEvents : deferredEvents[i] \in EventsFrom(DeferredTypes, Players)
    BY <1>1, ElementOfSeq, LenProperties
  <2>. QED BY <2>1 DEF EventsOf, EventsFrom
<1>3. x \in EventsOf(Tail(eventQueue))
  BY <1>2, QueueElements DEF DeferredTypes, PostedTypes
<1>4. eventQueue = <<x>>
  BY <1>1, <1>3, ElementsOfTail
<1>5. EventsOf(Tail(eventQueue)) = {}
  BY <1>4 DEF EventsOf
<1>. QED BY <1>3, <1>5

LEMMA ReactSaves ==
    ASSUME TypeOK, Server, React, Moderators = {}, TurnMayEnd, JourneyInv, SaveDataInv,
           NEW p \in Players
    PROVE  SavedOf(p)'
<1>1. /\ SavedOf(p)
      /\ UNCHANGED <<toServer, m_orders>>
  <2>1. UNCHANGED toServer
    BY DEF React, HandleShutdownMessage, Deferred, TurnOrders, CheckTurnEndConditions, ProcessTurn,
           SaveGameRequest, ClientSaveData, UnconsumedSaveData, DropCheck,
           HandleNonLobbyDisconnection
  <2>. QED BY <2>1 DEF SaveDataInv, Server, clientVars
<1>2. OfTurn(eventQueue', SaveDataOf(p), m_current_turn')
  <2>1. \A x \in EventsOf(eventQueue') : x.type # "ClientSaveData"
    BY NoSaveDataLeft DEF SaveDataInv
  <2>. QED BY <2>1 DEF OfTurn, SaveDataOf, EventsFrom
<1>3. CASE NoneIn(toServer[p], SaveDataOf(p))
  <2>1. OfTurn(toServer'[p], SaveDataOf(p), m_current_turn')
    BY <1>1, <1>3 DEF OfTurn, NoneIn
  <2>. QED BY <1>1, <1>2, <1>3, <2>1 DEF SavedOf
<1>4. CASE ~NoneIn(toServer[p], SaveDataOf(p))
  <2>1. p \in Empires /\ ~AtServer(p) /\ JourneyOf(p)
    BY <1>1, <1>4 DEF SavedOf, JourneyInv
  <2>2. ~ProcessTurn
    BY <2>1, NewTurnJourney
  <2>3. ~AtServer(p)'
    BY <2>1, <2>2, ReactJourney
  <2>4. m_current_turn' = m_current_turn
    BY <2>1, <2>2, ServerLeavesAlone
  <2>. QED BY <1>1, <1>2, <2>1, <2>3, <2>4 DEF SavedOf
<1>. QED BY <1>3, <1>4

LEMMA ReadSaves ==
    ASSUME TypeOK, Server, NEW q \in Players, ReadFrom(q), NEW p \in Players, SavedOf(p)
    PROVE  SavedOf(p)'
<1>. DEFINE x == Head(toServer[q])
<1>1. /\ toServer[q] \in Seq(EventsFrom(ReceivedTypes, {q})) /\ toServer[q] # <<>>
      /\ x \in EventsFrom(ReceivedTypes, {q}) /\ x \in Events
      /\ x \in EventsOf(toServer[q])
  BY ChannelTyped, HeadTailProperties, SentAreEvents, ElementsOfTail DEF ReadFrom, TypeOK
<1>2. /\ UNCHANGED <<deferredEvents, m_turn_sequence, m_current_turn, toClient, m_orders>>
      /\ eventQueue = <<>>
      /\ eventQueue' = <<x>>
      /\ toServer'[q] = Tail(toServer[q])
      /\ q # p => toServer'[p] = toServer[p]
  BY <1>1 DEF ReadFrom, Server, clientVars, TypeOK, ServerChannels
<1>3. x \in TurnOrdersOf(p) \/ x \in SaveDataOf(p) => q = p
  BY <1>1, KindsOfEvents DEF EventsFrom
<1>4. /\ NoneIn(eventQueue', TurnOrdersOf(p)) <=> x \notin TurnOrdersOf(p)
      /\ EventsOf(eventQueue') = {x}
  BY <1>2, NoneInSingle DEF EventsOf
<1>5. OfTurn(eventQueue', SaveDataOf(p), m_current_turn')
  BY <1>1, <1>2, <1>3, <1>4 DEF SavedOf, OfTurn
<1>. HIDE DEF x
<1>6. AtServer(p)' => AtServer(p) \/ x \in TurnOrdersOf(p)
  BY <1>2, <1>4 DEF AtServer, Updated, Read, Kept, Got
<1>7. CASE q # p
  <2>1. AtServer(p)' => AtServer(p)
    BY <1>3, <1>6, <1>7
  <2>. QED BY <1>2, <1>5, <1>7, <2>1 DEF SavedOf
<1>8. CASE q = p
  <2>1. /\ FewerIn(Tail(toServer[p]), toServer[p], SaveDataOf(p))
        /\ Precede(Tail(toServer[p]), SaveDataOf(p), TurnOrdersOf(p))
        /\ x \in TurnOrdersOf(p) => NoneIn(toServer[p], SaveDataOf(p))
    <3>1. Precede(toServer[p], SaveDataOf(p), TurnOrdersOf(p))
      BY DEF SavedOf
    <3>2. /\ Precede(Tail(toServer[p]), SaveDataOf(p), TurnOrdersOf(p))
          /\ Head(toServer[p]) \in TurnOrdersOf(p) => NoneIn(toServer[p], SaveDataOf(p))
      BY <1>1, <1>8, <3>1, PrecedeTail
    <3>. QED BY <1>1, <1>8, <3>2, FewerInTail DEF x
  <2>2. ~NoneIn(toServer'[p], SaveDataOf(p)) => p \in Empires /\ ~AtServer(p)'
    BY <1>2, <1>6, <1>8, <2>1, FewerNone DEF SavedOf
  <2>3. OfTurn(toServer'[p], SaveDataOf(p), m_current_turn')
    BY <1>2, <1>8, <2>1 DEF SavedOf, OfTurn, FewerIn
  <2>. QED BY <1>2, <1>5, <1>8, <2>1, <2>2, <2>3 DEF SavedOf
<1>. QED BY <1>7, <1>8

LEMMA SaveDataStep ==
    ASSUME Moderators = {}, HotkeyUsers = {}
    PROVE  TypeOK /\ TurnMayEnd /\ JourneyInv /\ SaveDataInv /\ [Next]_vars => SaveDataInv'
<1>. SUFFICES ASSUME TypeOK, TurnMayEnd, JourneyInv, SaveDataInv, [Next]_vars PROVE SaveDataInv'
  OBVIOUS
<1>. DEFINE Alone == \A x \in EventsOf(eventQueue) : x.type = "ClientSaveData" => eventQueue = <<x>>
<1>1. CASE UNCHANGED vars
  BY <1>1 DEF vars, serverVars, clientVars, SaveDataInv, SavedOf, AtServer, Updated, Read, Kept, Got
<1>2. ASSUME NEW q \in Players, ClientNext(q) PROVE SaveDataInv'
  <2>1. Alone'
    BY <1>2, ClientKeepsServer DEF SaveDataInv, serverVars
  <2>2. ASSUME NEW p \in Players PROVE SavedOf(p)'
    <3>1. SavedOf(p)
      BY DEF SaveDataInv
    <3>2. CASE p = q
      BY <1>2, <3>1, <3>2, ClientSaves
    <3>3. CASE p # q
      <4>1. UNCHANGED <<eventQueue, deferredEvents, m_turn_sequence, m_current_turn>>
        BY <1>2, ClientKeepsServer DEF serverVars
      <4>2. /\ toClient'[p] = toClient[p]
            /\ toServer'[p] = toServer[p]
            /\ m_orders'[p] = m_orders[p]
        BY <1>2, <3>3, OthersUntouched
      <4>. QED BY <3>1, <4>1, <4>2 DEF SavedOf, AtServer, Updated, Read, Kept, Got
    <3>. QED BY <3>2, <3>3
  <2>. QED BY <2>1, <2>2 DEF SaveDataInv
<1>3. CASE Server /\ React
  <2>1. \A p \in Players : SavedOf(p)'
    BY <1>3, ReactSaves
  <2>2. \A x \in EventsOf(eventQueue') : x.type # "ClientSaveData"
    BY <1>3, NoSaveDataLeft DEF SaveDataInv
  <2>. QED BY <2>1, <2>2 DEF SaveDataInv
<1>4. ASSUME Server, NEW q \in Players, ReadFrom(q) PROVE SaveDataInv'
  <2>1. \A p \in Players : SavedOf(p)'
    BY <1>4, ReadSaves DEF SaveDataInv
  <2>2. Alone'
    BY <1>4 DEF ReadFrom, EventsOf
  <2>. QED BY <2>1, <2>2 DEF SaveDataInv
<1>. QED BY <1>1, <1>2, <1>3, <1>4 DEF Next, Server, ServerNext

(* The entries gathered hold orders of the current turn, those of the last save file  *)
(* orders of the turn saved.                                                        *)
EntriesOfTurn(data, turn) == \A x \in EventsOf(data) : x.turns \subseteq {turn}
EntriesInv ==
    /\ fsm = "WaitingForSaveData" => EntriesOfTurn(m_player_save_game_data, m_current_turn)
    /\ EntriesOfTurn(saveFile.data, saveFile.turn)

LEMMA EntriesStep ==
    TypeOK /\ JourneyInv /\ SaveDataInv /\ EntriesInv /\ [Next]_vars => EntriesInv'
<1>. SUFFICES ASSUME TypeOK, JourneyInv, SaveDataInv, EntriesInv, [Next]_vars PROVE EntriesInv'
  OBVIOUS
<1>1. CASE /\ UNCHANGED saveFile
           /\ \/ fsm' # "WaitingForSaveData"
              \/ UNCHANGED <<fsm, m_player_save_game_data, m_current_turn>>
  BY <1>1 DEF EntriesInv
<1>2. CASE SaveGameRequest
  <2>1. /\ UNCHANGED saveFile
        /\ fsm' = "WaitingForTurnEndIdle" \/ m_player_save_game_data' = <<>>
    BY <1>2 DEF SaveGameRequest
  <2>2. EntriesOfTurn(<<>>, m_current_turn')
    BY DEF EntriesOfTurn, EventsOf
  <2>. QED BY <2>1, <2>2 DEF EntriesInv
<1>3. CASE ClientSaveData
  <2>. DEFINE entry == SaveEntry(Current.player, Current.turns)
  <2>1. /\ m_player_save_game_data' = Append(m_player_save_game_data, entry)
        /\ fsm = "WaitingForSaveData"
        /\ Current.type = "ClientSaveData" /\ eventQueue # <<>>
        /\ UNCHANGED m_current_turn
        /\ \/ UNCHANGED saveFile
           \/ saveFile' = [turn |-> m_current_turn, data |-> m_player_save_game_data']
    BY <1>3 DEF ClientSaveData, Dispatching
  <2>2. /\ Current.player \in Players /\ Current.turns \in OrderSets
        /\ Current \in Events /\ Current \in EventsOf(eventQueue)
    BY <2>1, CurrentTyped, CurrentQueued DEF ReceivedTypes
  <2>3. /\ entry \in SaveEntries
        /\ entry.turns = Current.turns \/ \E e \in Empires : entry.turns = m_turn_sequence[e].turns
    BY <2>2 DEF SaveEntry, SaveEntries, TypeOK, TurnEntries
  <2>4. Current.turns \subseteq {m_current_turn}
    <3>1. CASE Current.turns = {}
      BY <3>1
    <3>2. CASE Current.turns # {}
      <4>1. Current \in SaveDataOf(Current.player)
        BY <2>1, <2>2, <3>2, KindsOfEvents
      <4>. QED BY <2>2, <4>1 DEF SaveDataInv, SavedOf, OfTurn
    <3>. QED BY <3>1, <3>2
  <2>5. entry.turns \subseteq {m_current_turn}
    BY <2>3, <2>4 DEF JourneyInv, JourneyOf, OfThisTurn
  <2>. HIDE DEF entry
  <2>6. EntriesOfTurn(m_player_save_game_data', m_current_turn)
    <3>1. m_player_save_game_data \in Seq(SaveEntries)
      BY DEF TypeOK
    <3>2. EventsOf(m_player_save_game_data') = EventsOf(m_player_save_game_data) \cup {entry}
      BY <2>1, <2>3, <3>1, ElementsOfAppend
    <3>. QED BY <2>1, <2>5, <3>2 DEF EntriesInv, EntriesOfTurn
  <2>7. EntriesOfTurn(saveFile'.data, saveFile'.turn)
    <3>1. CASE UNCHANGED saveFile
      BY <3>1 DEF EntriesInv
    <3>2. CASE saveFile' = [turn |-> m_current_turn, data |-> m_player_save_game_data']
      <4>1. saveFile'.data = m_player_save_game_data' /\ saveFile'.turn = m_current_turn
        BY <3>2
      <4>. QED BY <2>6, <4>1
    <3>. QED BY <2>1, <3>1, <3>2
  <2>. QED BY <2>1, <2>6, <2>7 DEF EntriesInv
<1>4. ASSUME ServerNext, ~SaveGameRequest, ~ClientSaveData
      PROVE  /\ UNCHANGED saveFile
             /\ \/ fsm' # "WaitingForSaveData"
                \/ UNCHANGED <<fsm, m_player_save_game_data, m_current_turn>>
  <2>1. TurnOrders => fsm' # "WaitingForSaveData"
    BY GoesOn DEF TurnOrders, ModeratorEndsTurn
  <2>. QED BY <1>4, <2>1, GoesOn
       DEF ServerNext, React, ReadFrom, HandleShutdownMessage, Deferred, TurnOrders,
           CheckTurnEndConditions, ProcessTurn, UnconsumedSaveData, DropCheck,
           HandleNonLobbyDisconnection
<1>5. ASSUME NEW p \in Players, ClientNext(p) PROVE UNCHANGED serverVars
  BY <1>5, ClientKeepsServer
<1>. QED BY <1>1, <1>2, <1>3, <1>4, <1>5 DEF Next, Server, vars, serverVars

LEMMA SaveDataInit == Init => SaveDataInv /\ EntriesInv
<1>. SUFFICES ASSUME Init PROVE SaveDataInv /\ EntriesInv
  OBVIOUS
<1>1. /\ eventQueue = <<>>
      /\ saveFile.data = <<>>
      /\ fsm = "WaitingForTurnEndIdle"
      /\ \A p \in Players : toServer[p] = <<>> /\ m_orders[p] = {}
  BY DEF Init, ServerInit, ClientInit
<1>2. EventsOf(<<>>) = {} /\ \A S, T : Precede(<<>>, S, T) /\ NoneIn(<<>>, S)
  BY DEF EventsOf, Precede, NoneIn
<1>3. \A p \in Players : SavedOf(p)
  BY <1>1, <1>2 DEF SavedOf, OfTurn
<1>. QED BY <1>1, <1>2, <1>3 DEF SaveDataInv, EntriesInv, EntriesOfTurn

(* Without moderators and without the end-turn hotkey a save file leaves out nobody    *)
(* who is connected and each of its entries holds orders of the saved turn only, also   *)
(* when answers to a save that was abandoned come in during a later one.                *)
THEOREM SavesAreConsistent ==
    ASSUME Moderators = {}, HotkeyUsers = {}
    PROVE  Spec => []SaveFileConsistent
<1>1. TypeOK /\ TurnMayEnd /\ JourneyInv /\ SaveDataInv /\ [Next]_vars => SaveDataInv'
  BY SaveDataStep
<1>2. Spec => [](TypeOK /\ TurnMayEnd /\ JourneyInv)
  BY JourneyAlways
<1>3. EntriesInv /\ NobodyLeftOut => SaveFileConsistent
  BY DEF EntriesInv, EntriesOfTurn, EventsOf, SaveFileConsistent
<1>. QED BY <1>1, <1>2, <1>3, EntriesStep, SaveDataInit, SavesLeaveOutNobody, PTL DEF Spec

-----------------------------------------------------------------------------
(* No order is lost on its way.                                                     *)
OrdersKept(e) == OrdersHeld(e) \ executed'[e] \subseteq OrdersHeld(e)'

LEMMA TurnsInBound ==
    ASSUME NEW s, NEW e, NEW R
    PROVE  TurnsIn(s, e) \subseteq R <=>
              \A x \in EventsOf(s) : x.type = "TurnOrders" /\ x.player = e => x.turns \subseteq R
BY DEF TurnsIn

LEMMA TurnsInHas ==
    ASSUME NEW s, NEW e, NEW x \in EventsOf(s), x.type = "TurnOrders", x.player = e
    PROVE  x.turns \subseteq TurnsIn(s, e)
BY DEF TurnsIn

LEMMA TurnsInMore ==
    ASSUME NEW s, NEW t, NEW e, EventsOf(s) \subseteq EventsOf(t)
    PROVE  TurnsIn(s, e) \subseteq TurnsIn(t, e)
BY DEF TurnsIn

(* A sequence without its head.                                                     *)
LEMMA ElementsBesidesHead ==
    ASSUME NEW U, NEW s \in Seq(U), s # <<>>
    PROVE  EventsOf(s) \subseteq {Head(s)} \cup EventsOf(Tail(s))
<1>1. /\ Len(s) \in Nat \ {0}
      /\ DOMAIN s = 1 .. Len(s)
      /\ Head(s) = s[1]
      /\ DOMAIN Tail(s) = 1 .. Len(s) - 1
      /\ \A i \in 1 .. Len(s) - 1 : Tail(s)[i] = s[i + 1]
  BY HeadTailProperties, LenProperties, EmptySeq
<1>2. ASSUME NEW i \in DOMAIN s, i # 1 PROVE s[i] \in EventsOf(Tail(s))
  <2>1. i - 1 \in DOMAIN Tail(s) /\ Tail(s)[i - 1] = s[i]
    BY <1>1, <1>2
  <2>. QED BY <2>1 DEF EventsOf
<1>. QED BY <1>1, <1>2 DEF EventsOf

LEMMA TurnsInTail ==
    ASSUME NEW U, NEW s \in Seq(U), s # <<>>, NEW e
    PROVE  /\ TurnsIn(s, e) \subseteq Head(s).turns \cup TurnsIn(Tail(s), e)
           /\ ~(Head(s).type = "TurnOrders" /\ Head(s).player = e) =>
                 TurnsIn(s, e) \subseteq TurnsIn(Tail(s), e)
<1>1. EventsOf(s) \subseteq {Head(s)} \cup EventsOf(Tail(s))
  BY ElementsBesidesHead
<1>2. \A x \in EventsOf(Tail(s)) :
         x.type = "TurnOrders" /\ x.player = e => x.turns \subseteq TurnsIn(Tail(s), e)
  BY TurnsInHas
<1>. QED BY <1>1, <1>2, TurnsInBound

(* A client loses none of its orders while it stays.                                 *)
LEMMA ClientOrdersKept ==
    ASSUME TypeOK, NEW p \in Players, ClientNext(p), NEW e \in Empires, clientState'[e] # "Left"
    PROVE  OrdersKept(e)
<1>1. /\ UNCHANGED <<eventQueue, deferredEvents, m_turn_sequence>>
      /\ e \in Players
  BY ClientKeepsServer DEF serverVars, Players
<1>2. SUFFICES m_orders[e] \cup TurnsIn(toServer[e], e)
                  \subseteq m_orders'[e] \cup TurnsIn(toServer'[e], e)
  BY <1>1 DEF OrdersKept, OrdersHeld
<1>3. CASE p # e
  <2>1. toServer'[e] = toServer[e] /\ m_orders'[e] = m_orders[e]
    BY <1>1, <1>3, OthersUntouched
  <2>. QED BY <2>1
<1>4. CASE p = e
  <2>1. /\ m_orders \in [Players -> OrderSets]
        /\ clientState \in [Players -> {"WaitingForTurnData", "PlayingTurn", "Left"}]
    BY DEF TypeOK
  <2>2. ~Leave(e)
    BY <2>1 DEF Leave, Players
  <2>3. ASSUME NEW type \in ReceivedTypes, NEW turns \in OrderSets,
               Send(e, <<Event(type, e, turns)>>)
        PROVE  /\ TurnsIn(toServer[e], e) \subseteq TurnsIn(toServer'[e], e)
               /\ type = "TurnOrders" => turns \subseteq TurnsIn(toServer'[e], e)
    <3>1. Event(type, e, turns) \in EventsFrom(ReceivedTypes, {e})
      BY <1>1, ReceivedTyped
    <3>2. EventsOf(toServer'[e]) = EventsOf(toServer[e]) \cup {Event(type, e, turns)}
      BY <1>1, <2>3, <3>1, EventSent
    <3>3. TurnsIn(toServer[e], e) \subseteq TurnsIn(toServer'[e], e)
      BY <3>2, TurnsInMore
    <3>4. /\ Event(type, e, turns).type = type
          /\ Event(type, e, turns).player = e
          /\ Event(type, e, turns).turns = turns
      BY DEF Event
    <3>. QED BY <3>2, <3>3, <3>4, TurnsInHas
  <2>4. {} \in OrderSets /\ m_orders[e] \in OrderSets
    BY <1>1, <2>1 DEF OrderSets
  <2>5. CASE EndTurn(e)
    BY <2>3, <2>4, <2>5 DEF EndTurn, ReceivedTypes, DeferredTypes
  <2>6. CASE IssueOrder(e)
    BY <1>1, <2>1, <2>6 DEF IssueOrder
  <2>7. CASE StartTurn(e) \/ MenuSave(e)
    <3>1. /\ UNCHANGED m_orders
          /\ UNCHANGED toServer \/ Send(e, <<Event("SaveGameRequest", e, {})>>)
      BY <2>7 DEF StartTurn, MenuSave
    <3>. QED BY <2>3, <2>4, <3>1 DEF ReceivedTypes, DeferredTypes
  <2>8. CASE AnswerSaveGame(e) \/ ReceiveResponse(e)
    <3>1. UNCHANGED m_orders /\ Send(e, <<Event("ClientSaveData", e, m_orders[e])>>)
      BY <2>8 DEF AnswerSaveGame, ReceiveResponse, SaveData, clientVars
    <3>. QED BY <2>3, <2>4, <3>1 DEF ReceivedTypes
  <2>9. CASE ReceiveHostID(e) \/ ReceivePlayerStatus(e)
    BY <2>9 DEF ReceiveHostID, ReceivePlayerStatus
  <2>. QED BY <1>4, <2>2, <2>5, <2>6, <2>7, <2>8, <2>9
       DEF ClientNext, Responds, Quit, Crash, ReceiveEndGame, LoseServer
<1>. QED BY <1>3, <1>4

(* What the queue loses when its current event is gone.                              *)
LEMMA QueueOrdersKept ==
    ASSUME TypeOK, eventQueue # <<>>, NEW e \in Players,
           \/ Discard /\ UNCHANGED deferredEvents
           \/ \E type \in PostedTypes : Post(type) /\ UNCHANGED deferredEvents
           \/ \E posted \in {<<>>, <<Posted("ProcessTurn")>>} : LeaveDeferring(posted)
    PROVE  LET held == TurnsIn(eventQueue, e) \cup TurnsIn(deferredEvents, e)
               holds == TurnsIn(eventQueue', e) \cup TurnsIn(deferredEvents', e)
           IN /\ held \subseteq Current.turns \cup holds
              /\ ~(Current.type = "TurnOrders" /\ Current.player = e) => held \subseteq holds
<1>1. /\ eventQueue \in Seq(Events)
      /\ Tail(eventQueue) \in Seq(Events)
      /\ deferredEvents \in Seq(Events)
  BY CurrentTyped, DeferredQueue DEF TypeOK
<1>2. /\ TurnsIn(eventQueue, e) \subseteq Current.turns \cup TurnsIn(Tail(eventQueue), e)
      /\ ~(Current.type = "TurnOrders" /\ Current.player = e) =>
            TurnsIn(eventQueue, e) \subseteq TurnsIn(Tail(eventQueue), e)
  BY <1>1, TurnsInTail DEF Current
<1>3. SUFFICES TurnsIn(Tail(eventQueue), e) \cup TurnsIn(deferredEvents, e)
                  \subseteq TurnsIn(eventQueue', e) \cup TurnsIn(deferredEvents', e)
  BY <1>2
<1>4. CASE Discard /\ UNCHANGED deferredEvents
  BY <1>4 DEF Discard
<1>5. ASSUME NEW type \in PostedTypes, Post(type), UNCHANGED deferredEvents
      PROVE  TurnsIn(Tail(eventQueue), e) \subseteq TurnsIn(eventQueue', e)
  <2>1. EventsOf(eventQueue') = EventsOf(Tail(eventQueue)) \cup {Posted(type)}
    BY <1>1, <1>5, PostedTyped, ElementsOfAppend DEF Post
  <2>. QED BY <2>1, TurnsInMore
<1>6. ASSUME NEW posted \in {<<>>, <<Posted("ProcessTurn")>>}, LeaveDeferring(posted)
      PROVE  /\ TurnsIn(Tail(eventQueue), e) \subseteq TurnsIn(eventQueue', e)
             /\ TurnsIn(deferredEvents, e) \subseteq TurnsIn(eventQueue', e)
  <2>. DEFINE given == deferredEvents \o Tail(eventQueue)
  <2>1. posted \in Seq(Events)
    <3>1. <<>> \in Seq(Events) /\ <<Posted("ProcessTurn")>> \in Seq(Events)
      BY PostedTyped DEF PostedTypes
    <3>. QED BY <3>1
  <2>2. /\ given \in Seq(Events)
        /\ EventsOf(given) = EventsOf(deferredEvents) \cup EventsOf(Tail(eventQueue))
    <3>1. given \in Seq(Events)
      BY <1>1, ConcatProperties
    <3>2. \A s, t \in Seq(Events) : EventsOf(s \o t) = EventsOf(s) \cup EventsOf(t)
      BY ElementsOfConcat
    <3>3. EventsOf(given) = EventsOf(deferredEvents) \cup EventsOf(Tail(eventQueue))
      BY <1>1, <3>2
    <3>. QED BY <3>1, <3>3
  <2>3. eventQueue' = given \o posted
    BY <1>6 DEF LeaveDeferring
  <2>. HIDE DEF given
  <2>4. EventsOf(eventQueue') = EventsOf(given) \cup EventsOf(posted)
    BY <2>1, <2>2, <2>3, ElementsOfConcat
  <2>5. /\ EventsOf(Tail(eventQueue)) \subseteq EventsOf(eventQueue')
        /\ EventsOf(deferredEvents) \subseteq EventsOf(eventQueue')
    BY <2>2, <2>4
  <2>. QED BY <2>5, TurnsInMore
<1>. QED BY <1>4, <1>5, <1>6

LEMMA ReactOrdersKept ==
    ASSUME TypeOK, Server, React, Moderators = {}, Observers = {}, NEW e \in Empires,
           JourneyOf(e), fsm' # "Exited"
    PROVE  OrdersKept(e)
<1>. DEFINE held == TurnsIn(eventQueue, e) \cup TurnsIn(deferredEvents, e)
            holds == TurnsIn(eventQueue', e) \cup TurnsIn(deferredEvents', e)
<1>1. e \in Players /\ eventQueue # <<>> /\ Players = Empires
  BY QueueMoves DEF Players
<1>2. UNCHANGED <<toServer, m_orders>>
  BY DEF React, HandleShutdownMessage, Deferred, TurnOrders, CheckTurnEndConditions, ProcessTurn,
         SaveGameRequest, ClientSaveData, UnconsumedSaveData, DropCheck,
         HandleNonLobbyDisconnection, Server, clientVars
<1>3. SUFFICES (held \cup m_turn_sequence[e].turns) \ executed'[e]
                  \subseteq holds \cup m_turn_sequence'[e].turns
  BY <1>2 DEF OrdersKept, OrdersHeld
<1>. HIDE DEF held, holds
<1>4. ASSUME \/ Discard /\ UNCHANGED deferredEvents
             \/ \E type \in PostedTypes : Post(type) /\ UNCHANGED deferredEvents
             \/ \E posted \in {<<>>, <<Posted("ProcessTurn")>>} : LeaveDeferring(posted)
      PROVE  /\ held \subseteq Current.turns \cup holds
             /\ ~(Current.type = "TurnOrders" /\ Current.player = e) => held \subseteq holds
  BY <1>1, <1>4, QueueOrdersKept DEF held, holds
<1>5. CASE TurnOrders
  <2>1. PICK c \in ConnectionOf(Current) :
            RejectTurnOrders(c) \/ ModeratorEndsTurn(c) \/ StoreTurnOrders(c)
    BY <1>5 DEF TurnOrders
  <2>2. Current.player \in Empires /\ Current \in Events /\ Current.type = "TurnOrders"
    BY <1>1, <1>5, CurrentTyped DEF TurnOrders, Dispatching, ReceivedTypes, DeferredTypes
  <2>3. StoreTurnOrders(c) /\ UNCHANGED deferredEvents
    BY <1>5, <2>1, <2>2 DEF RejectTurnOrders, ModeratorEndsTurn, TurnOrders
  <2>4. Post("CheckTurnEndConditions")
    BY <2>3 DEF StoreTurnOrders
  <2>5. /\ held \subseteq Current.turns \cup holds
        /\ Current.player # e => held \subseteq holds
    BY <1>4, <2>3, <2>4 DEF PostedTypes
  <2>6. CASE Current.player # e
    BY <2>3, <2>5, <2>6 DEF StoreTurnOrders, TypeOK
  <2>7. CASE Current.player = e
    <3>1. m_turn_sequence'[e].turns = Current.turns
      BY <2>3, <2>7 DEF StoreTurnOrders, TypeOK
    <3>2. Current \in TurnOrdersOf(e) /\ Current \in EventsOf(eventQueue)
      BY <1>1, <2>2, <2>7, KindsOfEvents, CurrentQueued
    <3>3. m_turn_sequence[e].turns = {}
      BY <3>2 DEF JourneyOf, OnePlace, OfThisTurn, Read, NoneIn
    <3>. QED BY <2>5, <3>1, <3>3
  <2>. QED BY <2>6, <2>7
<1>6. CASE Deferred
  <2>. DEFINE x == [Current EXCEPT !.dangling = TRUE]
  <2>1. /\ eventQueue' = Tail(eventQueue)
        /\ deferredEvents' = Append(deferredEvents, x)
        /\ UNCHANGED m_turn_sequence
    BY <1>6 DEF Deferred, KeptEvents, Discard
  <2>2. /\ x \in EventsFrom(DeferredTypes, Players)
        /\ x.type = Current.type /\ x.player = Current.player /\ x.turns = Current.turns
    <3>1. Current \in EventsFrom(DeferredTypes, Players)
      BY <1>6, CurrentTyped DEF Deferred, EventsFrom, ReceivedTypes
    <3>. QED BY <3>1 DEF EventsFrom
  <2>. HIDE DEF x
  <2>3. EventsOf(deferredEvents') = EventsOf(deferredEvents) \cup {x}
    BY <2>1, <2>2, ElementsOfAppend DEF TypeOK
  <2>4. /\ TurnsIn(deferredEvents, e) \subseteq TurnsIn(deferredEvents', e)
        /\ Current.type = "TurnOrders" /\ Current.player = e =>
              Current.turns \subseteq TurnsIn(deferredEvents', e)
    BY <2>2, <2>3, TurnsInMore, TurnsInHas
  <2>5. /\ TurnsIn(eventQueue, e) \subseteq Current.turns \cup TurnsIn(eventQueue', e)
        /\ ~(Current.type = "TurnOrders" /\ Current.player = e) =>
              TurnsIn(eventQueue, e) \subseteq TurnsIn(eventQueue', e)
    BY <1>1, <2>1, TurnsInTail DEF Current, TypeOK
  <2>. QED BY <2>1, <2>4, <2>5 DEF held, holds
<1>7. CASE ProcessTurn
  <2>1. /\ executed'[e] = m_turn_sequence[e].turns
        /\ LeaveDeferring(<<>>)
        /\ Current.type # "TurnOrders"
    BY <1>7 DEF ProcessTurn, Dispatching
  <2>2. held \subseteq holds
    BY <1>4, <2>1
  <2>. QED BY <2>1, <2>2
<1>8. ASSUME ~TurnOrders, ~Deferred, ~ProcessTurn
      PROVE  /\ UNCHANGED m_turn_sequence
             /\ Current.type # "TurnOrders"
             /\ \/ Discard /\ UNCHANGED deferredEvents
                \/ \E posted \in {<<>>, <<Posted("ProcessTurn")>>} : LeaveDeferring(posted)
  BY <1>8 DEF React, HandleShutdownMessage, CheckTurnEndConditions, EventsEndingTurn,
              SaveGameRequest, ClientSaveData, UnconsumedSaveData, DropCheck,
              HandleNonLobbyDisconnection, Dispatching
<1>9. CASE ~TurnOrders /\ ~Deferred /\ ~ProcessTurn
  BY <1>4, <1>8, <1>9
<1>. QED BY <1>5, <1>6, <1>7, <1>9

LEMMA ReadOrdersKept ==
    ASSUME TypeOK, Server, NEW p \in Players, ReadFrom(p), NEW e \in Empires
    PROVE  OrdersKept(e)
<1>. DEFINE x == Head(toServer[p])
<1>1. /\ e \in Players
      /\ toServer[p] \in Seq(EventsFrom(ReceivedTypes, {p})) /\ toServer[p] # <<>>
      /\ x.player = p
  BY ChannelTyped, EventRead DEF Players, ReadFrom, TypeOK
<1>2. /\ UNCHANGED <<deferredEvents, m_turn_sequence, m_orders>>
      /\ eventQueue = <<>>
      /\ eventQueue' = <<x>>
      /\ toServer'[p] = Tail(toServer[p])
      /\ p # e => toServer'[e] = toServer[e]
  BY <1>1 DEF ReadFrom, Server, clientVars, TypeOK, ServerChannels
<1>3. /\ TurnsIn(toServer[p], e) \subseteq x.turns \cup TurnsIn(toServer'[p], e)
      /\ ~(x.type = "TurnOrders" /\ p = e) => TurnsIn(toServer[p], e) \subseteq TurnsIn(toServer'[p], e)
  BY <1>1, <1>2, TurnsInTail
<1>4. /\ x \in EventsOf(eventQueue')
      /\ EventsOf(eventQueue) = {}
  BY <1>2 DEF EventsOf
<1>. HIDE DEF x
<1>5. /\ TurnsIn(eventQueue, e) = {}
      /\ x.type = "TurnOrders" /\ p = e => x.turns \subseteq TurnsIn(eventQueue', e)
  BY <1>1, <1>4, TurnsInHas DEF TurnsIn
<1>6. TurnsIn(toServer[e], e) \subseteq TurnsIn(toServer'[e], e) \cup TurnsIn(eventQueue', e)
  BY <1>2, <1>3, <1>5
<1>. QED BY <1>2, <1>5, <1>6 DEF OrdersKept, OrdersHeld

(* With empires only, no moderators, no observers and no end-turn hotkey, no order is    *)
(* lost between the client that issues it and the turn that executes it.               *)
THEOREM NoOrderIsLost ==
    ASSUME Moderators = {}, Observers = {}, HotkeyUsers = {}
    PROVE  Spec => OrdersNotLost
<1>. DEFINE Keeps == \A e \in Empires : clientState'[e] # "Left" /\ fsm' # "Exited" => OrdersKept(e)
<1>1. TypeOK /\ JourneyInv /\ [Next]_vars => [Keeps]_vars
  <2>. SUFFICES ASSUME TypeOK, JourneyInv, Next, NEW e \in Empires,
                       clientState'[e] # "Left", fsm' # "Exited"
                PROVE  OrdersKept(e)
    OBVIOUS
  <2>1. ASSUME NEW p \in Players, ClientNext(p) PROVE OrdersKept(e)
    BY <2>1, ClientOrdersKept
  <2>2. CASE Server /\ React
    BY <2>2, ReactOrdersKept DEF JourneyInv
  <2>3. ASSUME Server, NEW p \in Players, ReadFrom(p) PROVE OrdersKept(e)
    BY <2>3, ReadOrdersKept
  <2>. QED BY <2>1, <2>2, <2>3 DEF Next, Server, ServerNext
<1>2. [Keeps]_vars <=>
        [\A e \in Empires :
            clientState'[e] # "Left" /\ fsm' # "Exited" =>
               OrdersHeld(e) \ executed'[e] \subseteq OrdersHeld(e)']_vars
  BY DEF OrdersKept
<1>3. Spec => [](TypeOK /\ TurnMayEnd /\ JourneyInv)
  BY JourneyAlways
<1>. HIDE DEF Keeps
<1>. QED BY <1>1, <1>2, <1>3, PTL DEF Spec, OrdersNotLost
===============================================================================
