--------------------------- MODULE GameSetupProofs ---------------------------
(***************************************************************************)
(* Proofs about GameSetup: for any clients, AIs and bounds, what a run       *)
(* checks of the lobby and the joiners' states holds always.                 *)
(***************************************************************************)
EXTENDS GameSetup, IterationProofs, SequenceTheorems

-----------------------------------------------------------------------------
(* What the variables hold. `names' are the names of AIs given so far.       *)

States == {"Idle", "MPLobby", "Joiners", "PlayingGame", "Exited"}
Waiting == {"WaitingForMPHostAck", "WaitingForMPJoinAck", "WaitingForSPHostAck"}
Players == [id : Int, type : ClientTypes \cup {"Invalid"}]

(* Lists of players as clients and the server send them: the entry of an AI   *)
(* has a name given to it or none yet, and no id; a human's has an id.        *)
GoodRows(l, names) ==
    /\ \A i \in DOMAIN l : /\ l[i].type = "AI" => /\ l[i].id = NoPlayer
                                                  /\ l[i].name \in names \cup {Unnamed}
                           /\ l[i].type \in HumanTypes => l[i].id # NoPlayer
    /\ \A i, j \in DOMAIN l : l[i].type = "AI" /\ l[j].type = "AI" /\ l[i].name = l[j].name
                                => i = j
Rows(names) == {l \in Seq(Entries) : GoodRows(l, names)}

(* Lists the lobby keeps: nobody is to be dropped, everybody has a name.      *)
Listing(l) ==
    \A i \in DOMAIN l : /\ l[i].type # "Invalid"
                        /\ l[i].name # Unnamed
                        /\ l[i].type = "AI" => l[i].name \in AIs

Updates(names) == [type : {"LobbyUpdate"}, players : Rows(names), galaxy : {0, 1}]
ServerMessages(names) ==
    Updates(names)
    \cup [type : {"HostMPAck", "HostSPAck", "JoinAck", "HostID"}, id : Int]
    \cup [type : {"Error", "Closed", "GameStart", "EndGame"}]
ClientMessages(names) ==
    Updates(names)
    \cup [type : {"HostSP"}, ais : SUBSET AIs]
    \cup [type : {"HostMP", "Join", "Start", "Closed"}]

Servers(names) ==
    [fsm : States, single : BOOLEAN, connected : SUBSET Endpoints,
     player : [Endpoints -> Players], host : Int, lobby : Seq(Entries), galaxy : {0, 1},
     begun : BOOLEAN, down : [Clients -> Seq(ServerMessages(names))]]

Typed ==
    /\ Server \in Servers(given)
    /\ given \in SUBSET AIs /\ processes \in SUBSET AIs /\ expectedAIs \in SUBSET AIs
    /\ joined \in SUBSET AIs
    /\ expected \in Nat
    /\ up \in [Endpoints -> Seq(ClientMessages(given))]
    /\ client \in [Clients -> Waiting \cup {"IntroMenu", "MPLobby", "PlayingGame"}]
    /\ id \in [Clients -> Int] /\ hostId \in [Clients -> Int]
    /\ copy \in [Clients -> [players : Rows(given), galaxy : {0, 1}]]

-----------------------------------------------------------------------------
(* Who is connected under which id.                                          *)
Identified(s) ==
    /\ \A e \in Endpoints : s.player[e].id # NoPlayer =>
          /\ s.player[e].id >= 1
          /\ e \in s.connected
          /\ IF e \in AIs THEN s.player[e].type = "AI" ELSE s.player[e].type \in HumanTypes
    /\ \A e \in Endpoints : s.player[e].id = NoPlayer => s.player[e].type = "Invalid"
    /\ \A e, f \in Endpoints :
          s.player[e].id # NoPlayer /\ s.player[e].id = s.player[f].id => e = f

(* Who asks to join or to host does so with the first message.               *)
AskFirst ==
    \A e \in Endpoints :
        /\ e \notin connected => up[e] = <<>>
        /\ \A i \in DOMAIN up[e] : up[e][i].type \in {"HostMP", "HostSP", "Join"}
                                     => i = 1 /\ player[e].id = NoPlayer

(* AI processes come after the lobby.                                         *)
ProcessesStarted ==
    /\ fsm \in {"Idle", "MPLobby"} => processes = {}
    /\ joined \subseteq processes
    /\ connected \cap AIs \subseteq joined

NamesLeft == Cardinality(OnTheirWay) <= Cardinality(AIs \ given)

-----------------------------------------------------------------------------
(* The lobby, also while connections are dropped from it: those in `drops'    *)
(* need not be listed any more.                                               *)
HasHost(s) == \E e \in Established(s) : s.player[e].id = s.host
Listed(s, drops) ==
    \A e \in Established(s) \ drops :
        \E i \in DOMAIN s.lobby : s.lobby[i].id = s.player[e].id /\ s.lobby[i].type # "Invalid"

(* What a client is to show when it has received all that is in `news'.        *)
Of(news, types) == {i \in DOMAIN news : news[i].type \in types}
Lists(news) == Of(news, {"LobbyUpdate"})
Hosts(news) == Of(news, {"HostID", "HostMPAck", "HostSPAck"})
Acks(news) == Of(news, {"HostMPAck", "HostSPAck", "JoinAck"})
IsLast(k, S) == k \in S /\ \A i \in S : i <= k

(* It knows the host, and has the answer to its own question before the rest.   *)
KnowsHost(news, state, own, h) ==
    /\ \A k \in Hosts(news) : IsLast(k, Hosts(news)) => news[k].id = h
    /\ Hosts(news) = {} => state = "MPLobby" /\ own = h
    /\ state \in Waiting =>
          \E k \in Acks(news) : /\ \A i \in Lists(news) : i > k
                                /\ \E i \in Hosts(news) : i >= k
HostKnown(s) ==
    \A c \in Established(s) \cap Clients : client[c] \in Waiting \cup {"MPLobby"} =>
        KnowsHost(s.down[c], client[c], hostId[c], s.host)

(* Its last list is the lobby's, or one it has sent and is answered.             *)
SentLast(c) == \E k \in Lists(up[c]) : /\ IsLast(k, Lists(up[c]))
                                       /\ up[c][k].players = copy[c].players
KnowsList(news, state, own, l) ==
    /\ \A k \in Lists(news) : IsLast(k, Lists(news)) => news[k].players = l
    /\ Lists(news) = {} => state = "MPLobby" /\ own
ListKnown(s) ==
    \A c \in Established(s) \cap Clients : client[c] \in Waiting \cup {"MPLobby"} =>
        KnowsList(s.down[c], client[c], copy[c].players = s.lobby \/ SentLast(c), s.lobby)

(* Strangers are sent no lists.                                                   *)
Strangers(s) == \A c \in Clients \cap s.connected : s.player[c].id = NoPlayer => Lists(s.down[c]) = {}

LobbyOpen(s, drops, names) ==
    /\ s.connected \subseteq Clients
    /\ s.lobby \in Rows(names)
    /\ HasHost(s)
    /\ Listed(s, drops)
    /\ HostKnown(s)

(* Those that join are counted against the entries of the list.                    *)
JoinersCounted ==
    /\ processes = AINames(lobby)
    /\ expected = Len(lobby)
    /\ Listing(lobby)
    /\ \A i, j \in DOMAIN lobby :
          lobby[i].type = "AI" /\ lobby[j].type = "AI" /\ lobby[i].name = lobby[j].name => i = j
    /\ Cardinality(expectedAIs) + Cardinality(Established(Server)) <= expected
    /\ Cardinality(Established(Server)) < expected

(* An AI that has connected is about to join.                                       *)
AIsAsk ==
    \A a \in connected \cap AIs :
        player[a].id = NoPlayer => up[a] # <<>> /\ Head(up[a]).type = "Join"

CommonInv ==
    /\ Typed
    /\ Identified(Server)
    /\ AskFirst
    /\ ProcessesStarted
    /\ NamesLeft
    /\ Strangers(Server)
    /\ fsm = "Idle" => Established(Server) = {}

OpenLobby == LobbyOpen(Server, {}, given) /\ Listing(lobby) /\ ListKnown(Server)

SetupInv ==
    /\ CommonInv
    /\ fsm = "MPLobby" => OpenLobby
    /\ fsm = "Joiners" => JoinersCounted /\ AIsAsk

-----------------------------------------------------------------------------
(* The connections.                                                              *)

LEMMA EndpointsFinite == IsFiniteSet(Endpoints) /\ Clients \cap AIs = {}
BY EndpointsAssumption, FS_Union DEF Endpoints

LEMMA EstablishedFinite ==
    ASSUME NEW s, s.connected \in SUBSET Endpoints
    PROVE  /\ Established(s) \in SUBSET Endpoints
           /\ IsFiniteSet(Established(s))
           /\ NumEstablishedPlayers(s) \in Nat
<1>1. Established(s) \in SUBSET Endpoints
  BY DEF Established
<1>2. IsFiniteSet(Established(s))
  BY <1>1, EndpointsFinite, FS_Subset
<1>. QED BY <1>1, <1>2, FS_CardinalityType DEF NumEstablishedPlayers

(* An order of the connections has every human client that is connected.          *)
Orderly(order, s) ==
    /\ order \in Seq(Clients)
    /\ \A c \in s.connected \cap Clients : \E i \in DOMAIN order : order[i] = c

LEMMA OrdersOrderly ==
    ASSUME NEW order \in Orders, connected \in SUBSET Endpoints
    PROVE  Orderly(order, Server)
<1>. DEFINE S == connected \cap Clients
            n == Cardinality(S)
<1>1. IsFiniteSet(S) /\ n \in Nat
  <2>1. IsFiniteSet(S)
    BY EndpointsAssumption, FS_Subset
  <2>. QED BY <2>1, FS_CardinalityType
<1>2. order \in [1..n -> S] /\ \A i, j \in 1..n : i # j => order[i] # order[j]
  BY DEF Orders, SetToSeqs
<1>. HIDE DEF n
<1>3. order \in Injection(1..n, S)
  BY <1>2 DEF Injection, IsInjective
<1>4. IsFiniteSet(1..n) /\ Cardinality(1..n) = n
  BY <1>1, FS_Interval
<1>5. order \in Surjection(1..n, S)
  <2>. HIDE DEF S
  <2>1. Cardinality(1..n) = Cardinality(S) <=> order \in Surjection(1..n, S)
    BY <1>1, <1>3, FS_Injection
  <2>. QED BY <1>4, <2>1 DEF n
<1>6. \A c \in S : \E i \in 1..n : order[i] = c
  BY <1>5 DEF Surjection
<1>7. order \in Seq(Clients)
  BY <1>1, <1>2
<1>. QED BY <1>2, <1>6, <1>7 DEF Orderly, Server

-----------------------------------------------------------------------------
(* Lists of players.                                                               *)

(* r is l without some of its entries.                                             *)
PartOf(r, l) ==
    /\ r \in Seq(Entries)
    /\ \E f \in [DOMAIN r -> DOMAIN l] :
          /\ \A i, j \in DOMAIN r : f[i] = f[j] => i = j
          /\ \A i \in DOMAIN r : r[i] = l[f[i]]

LEMMA PartOfItself ==
    ASSUME NEW l \in Seq(Entries)
    PROVE  PartOf(l, l)
<1>1. [i \in DOMAIN l |-> i] \in [DOMAIN l -> DOMAIN l]
  OBVIOUS
<1>2. \A i, j \in DOMAIN l : [k \in DOMAIN l |-> k][i] = [k \in DOMAIN l |-> k][j] => i = j
  OBVIOUS
<1>3. \A i \in DOMAIN l : l[i] = l[[k \in DOMAIN l |-> k][i]]
  OBVIOUS
<1>. QED BY <1>1, <1>2, <1>3 DEF PartOf

LEMMA PartOfPart ==
    ASSUME NEW k, NEW r, NEW l, PartOf(k, r), PartOf(r, l)
    PROVE  PartOf(k, l)
<1>1. PICK f \in [DOMAIN k -> DOMAIN r] :
          /\ \A i, j \in DOMAIN k : f[i] = f[j] => i = j
          /\ \A i \in DOMAIN k : k[i] = r[f[i]]
  BY DEF PartOf
<1>2. PICK g \in [DOMAIN r -> DOMAIN l] :
          /\ \A i, j \in DOMAIN r : g[i] = g[j] => i = j
          /\ \A i \in DOMAIN r : r[i] = l[g[i]]
  BY DEF PartOf
<1>. DEFINE h == [i \in DOMAIN k |-> g[f[i]]]
<1>3. h \in [DOMAIN k -> DOMAIN l]
  BY <1>1, <1>2
<1>4. \A i, j \in DOMAIN k : h[i] = h[j] => i = j
  BY <1>1, <1>2
<1>5. \A i \in DOMAIN k : k[i] = l[h[i]]
  BY <1>1, <1>2
<1>6. k \in Seq(Entries)
  BY DEF PartOf
<1>. HIDE DEF h
<1>. QED BY <1>3, <1>4, <1>5, <1>6 DEF PartOf

LEMMA PartOfGood ==
    ASSUME NEW names, NEW l, NEW r, GoodRows(l, names), PartOf(r, l)
    PROVE  r \in Rows(names)
<1>1. PICK f \in [DOMAIN r -> DOMAIN l] :
          /\ \A i, j \in DOMAIN r : f[i] = f[j] => i = j
          /\ \A i \in DOMAIN r : r[i] = l[f[i]]
  BY DEF PartOf
<1>2. GoodRows(r, names)
  <2>1. ASSUME NEW i \in DOMAIN r
        PROVE  /\ r[i].type = "AI" => r[i].id = NoPlayer /\ r[i].name \in names \cup {Unnamed}
               /\ r[i].type \in HumanTypes => r[i].id # NoPlayer
    BY <1>1 DEF GoodRows
  <2>2. ASSUME NEW i \in DOMAIN r, NEW j \in DOMAIN r,
               r[i].type = "AI", r[j].type = "AI", r[i].name = r[j].name
        PROVE  i = j
    <3>1. f[i] = f[j]
      BY <1>1, <2>2 DEF GoodRows
    <3>. QED BY <1>1, <3>1
  <2>. QED BY <2>1, <2>2 DEF GoodRows
<1>3. r \in Seq(Entries)
  BY DEF PartOf
<1>. QED BY <1>2, <1>3 DEF Rows

(* The entries of other ids are kept.                                              *)
OthersKept(r, l, pid) ==
    \A i \in DOMAIN l : l[i].id # pid => \E k \in DOMAIN r : r[k] = l[i]

LEMMA RemoveEntryPart ==
    ASSUME NEW l \in Seq(Entries), NEW pid
    PROVE  /\ PartOf(RemoveEntry(l, pid), l)
           /\ OthersKept(RemoveEntry(l, pid), l, pid)
<1>. DEFINE P == PlacesOf(l, pid)
<1>1. CASE P = {}
  <2>1. RemoveEntry(l, pid) = l
    BY <1>1 DEF RemoveEntry
  <2>. QED BY <2>1, PartOfItself DEF OthersKept
<1>2. CASE P # {}
  <2>1. P \in SUBSET Nat
    BY DEF PlacesOf
  <2>. DEFINE m == Min(P)
  <2>2. m \in P
    <3>. HIDE DEF P
    <3>. QED BY <1>2, <2>1, SmallestOf
  <2>3. m \in 1..Len(l) /\ l[m].id = pid
    BY <2>2 DEF PlacesOf
  <2>. DEFINE r == RemoveEntry(l, pid)
              first == SubSeq(l, 1, m - 1)
              rest == SubSeq(l, m + 1, Len(l))
  <2>4. r = first \o rest
    BY <1>2 DEF RemoveEntry, RemoveAt
  <2>. HIDE DEF m, P
  <2>5. /\ first \in Seq(Entries) /\ Len(first) = m - 1
        /\ \A i \in 1..m - 1 : first[i] = l[i]
    BY <2>3
  <2>6. /\ rest \in Seq(Entries) /\ Len(rest) = Len(l) - m
        /\ \A i \in 1..Len(l) - m : rest[i] = l[m + i]
    BY <2>3
  <2>. HIDE DEF r, first, rest
  <2>7. /\ r \in Seq(Entries) /\ Len(r) = Len(l) - 1
        /\ \A i \in 1..Len(r) : r[i] = IF i < m THEN l[i] ELSE l[i + 1]
    <3>0. r \in Seq(Entries) /\ Len(r) = Len(first) + Len(rest)
      BY <2>4, <2>5, <2>6, ConcatProperties
    <3>1. r \in Seq(Entries) /\ Len(r) = Len(l) - 1
      BY <2>3, <2>5, <2>6, <3>0
    <3>2. ASSUME NEW i \in 1..Len(r) PROVE r[i] = IF i < m THEN l[i] ELSE l[i + 1]
      <4>1. r[i] = IF i <= Len(first) THEN first[i] ELSE rest[i - Len(first)]
        BY <2>3, <2>4, <2>5, <2>6, <3>1, ConcatProperties
      <4>2. CASE i < m
        BY <2>3, <2>5, <4>1, <4>2
      <4>3. CASE ~ (i < m)
        <5>1. i - (m - 1) \in 1..Len(l) - m /\ m + (i - (m - 1)) = i + 1 /\ ~ (i <= m - 1)
          BY <2>3, <3>1, <4>3
        <5>. QED BY <2>5, <2>6, <4>1, <4>3, <5>1
      <4>. QED BY <4>2, <4>3
    <3>. QED BY <3>1, <3>2
  <2>8. DOMAIN l = 1..Len(l) /\ DOMAIN r = 1..Len(r) /\ Len(l) \in Nat
    BY <2>7
  <2>9. PartOf(r, l)
    <3>. DEFINE f == [i \in DOMAIN r |-> IF i < m THEN i ELSE i + 1]
    <3>1. f \in [DOMAIN r -> DOMAIN l]
      BY <2>3, <2>7, <2>8
    <3>2. \A i, j \in DOMAIN r : f[i] = f[j] => i = j
      BY <2>3, <2>8
    <3>3. \A i \in DOMAIN r : r[i] = l[f[i]]
      BY <2>7, <2>8
    <3>. HIDE DEF f
    <3>. QED BY <2>7, <3>1, <3>2, <3>3 DEF PartOf
  <2>10. ASSUME NEW i \in DOMAIN l, l[i].id # pid
         PROVE  \E k \in DOMAIN r : r[k] = l[i]
    <3>1. CASE i < m
      <4>1. i \in DOMAIN r /\ r[i] = l[i]
        BY <2>3, <2>7, <2>8, <3>1
      <4>. QED BY <4>1
    <3>2. CASE ~ (i < m)
      <4>1. i # m
        BY <2>3, <2>10
      <4>2. i - 1 \in DOMAIN r /\ ~ (i - 1 < m) /\ (i - 1) + 1 = i
        BY <2>3, <2>7, <2>8, <3>2, <4>1
      <4>3. r[i - 1] = l[i]
        BY <2>7, <2>8, <4>2
      <4>. QED BY <4>2, <4>3
    <3>. QED BY <3>1, <3>2
  <2>11. OthersKept(r, l, pid)
    BY <2>10 DEF OthersKept
  <2>. QED BY <2>9, <2>11 DEF r
<1>. QED BY <1>1, <1>2

(* The entries that stay are those of the first n that do not ask to be dropped.   *)
OccupiedUpto(r, l, n) ==
    /\ r \in Seq(Entries)
    /\ \E f \in [DOMAIN r -> 1..n] :
          /\ \A i, j \in DOMAIN r : f[i] = f[j] => i = j
          /\ \A i \in DOMAIN r : r[i] = l[f[i]]
    /\ \A i \in DOMAIN r : r[i].type # "Invalid"
    /\ \A j \in 1..n : l[j].type # "Invalid" => \E i \in DOMAIN r : r[i] = l[j]
    /\ (\A j \in 1..n : l[j].type # "Invalid") => Len(r) = n /\ \A j \in 1..n : r[j] = l[j]

LEMMA OccupiedStep ==
    ASSUME NEW l \in Seq(Entries), NEW k \in 0..Len(l) - 1, NEW r, OccupiedUpto(r, l, k)
    PROVE  OccupiedUpto(IF l[k + 1].type = "Invalid" THEN r ELSE Append(r, l[k + 1]), l, k + 1)
<1>0. k + 1 \in 1..Len(l) /\ l[k + 1] \in Entries /\ k \in Nat
      /\ (\A j \in 1..k + 1 : j \in 1..k \/ j = k + 1) /\ 1..k \subseteq 1..k + 1
  OBVIOUS
<1>1. PICK f \in [DOMAIN r -> 1..k] :
          /\ \A i, j \in DOMAIN r : f[i] = f[j] => i = j
          /\ \A i \in DOMAIN r : r[i] = l[f[i]]
  BY DEF OccupiedUpto
<1>2. r \in Seq(Entries)
  BY DEF OccupiedUpto
<1>3. CASE l[k + 1].type = "Invalid"
  <2>1. f \in [DOMAIN r -> 1..k + 1]
    BY <1>0
  <2>2. \A j \in 1..k + 1 : l[j].type # "Invalid" => \E i \in DOMAIN r : r[i] = l[j]
    BY <1>0, <1>3 DEF OccupiedUpto
  <2>3. ~ (\A j \in 1..k + 1 : l[j].type # "Invalid")
    BY <1>0, <1>3
  <2>4. \A i \in DOMAIN r : r[i].type # "Invalid"
    BY DEF OccupiedUpto
  <2>5. \E g \in [DOMAIN r -> 1..k + 1] :
           /\ \A i, j \in DOMAIN r : g[i] = g[j] => i = j
           /\ \A i \in DOMAIN r : r[i] = l[g[i]]
    BY <1>1, <2>1
  <2>6. OccupiedUpto(r, l, k + 1)
    BY <1>2, <2>2, <2>3, <2>4, <2>5 DEF OccupiedUpto
  <2>. QED BY <1>3, <2>6
<1>4. CASE l[k + 1].type # "Invalid"
  <2>. DEFINE q == Append(r, l[k + 1])
              g == [i \in DOMAIN q |-> IF i \in DOMAIN r THEN f[i] ELSE k + 1]
  <2>1. /\ q \in Seq(Entries) /\ Len(q) = Len(r) + 1 /\ DOMAIN q = 1..Len(r) + 1
        /\ DOMAIN r = 1..Len(r) /\ Len(r) \in Nat
        /\ (\A i \in 1..Len(r) : q[i] = r[i]) /\ q[Len(r) + 1] = l[k + 1]
    BY <1>0, <1>2
  <2>. HIDE DEF q
  <2>2. \A i \in DOMAIN q : i \in DOMAIN r \/ (i = Len(r) + 1 /\ i \notin DOMAIN r)
    BY <2>1
  <2>3. \A i \in DOMAIN r : i \in DOMAIN q /\ f[i] \in 1..k /\ f[i] # k + 1 /\ q[i] = r[i]
    BY <1>0, <2>1
  <2>4. g \in [DOMAIN q -> 1..k + 1]
    BY <1>0, <2>2, <2>3
  <2>5. \A i \in DOMAIN q : g[i] = IF i \in DOMAIN r THEN f[i] ELSE k + 1
    OBVIOUS
  <2>. HIDE DEF g
  <2>6. \A i, j \in DOMAIN q : g[i] = g[j] => i = j
    BY <1>1, <2>2, <2>3, <2>5
  <2>7. \A i \in DOMAIN q : q[i] = l[g[i]]
    BY <1>1, <2>1, <2>2, <2>3, <2>5
  <2>8. \A i \in DOMAIN q : q[i].type # "Invalid"
    <3>1. \A i \in DOMAIN r : r[i].type # "Invalid"
      BY DEF OccupiedUpto
    <3>. QED BY <1>4, <2>1, <2>2, <2>3, <3>1
  <2>9. ASSUME NEW j \in 1..k + 1, l[j].type # "Invalid"
        PROVE  \E i \in DOMAIN q : q[i] = l[j]
    <3>1. CASE j = k + 1
      <4>1. Len(r) + 1 \in DOMAIN q
        BY <2>1
      <4>. QED BY <2>1, <3>1, <4>1
    <3>2. CASE j \in 1..k
      <4>1. PICK i \in DOMAIN r : r[i] = l[j]
        BY <2>9, <3>2 DEF OccupiedUpto
      <4>. QED BY <2>3, <4>1
    <3>. QED BY <1>0, <3>1, <3>2
  <2>10. ASSUME \A j \in 1..k + 1 : l[j].type # "Invalid"
         PROVE  Len(q) = k + 1 /\ \A j \in 1..k + 1 : q[j] = l[j]
    <3>1. Len(r) = k /\ \A j \in 1..k : r[j] = l[j]
      BY <1>0, <2>10 DEF OccupiedUpto
    <3>. QED BY <1>0, <2>1, <3>1
  <2>11. OccupiedUpto(q, l, k + 1)
    BY <2>1, <2>4, <2>6, <2>7, <2>8, <2>9, <2>10 DEF OccupiedUpto
  <2>. QED BY <1>4, <2>11 DEF q
<1>. QED BY <1>3, <1>4

LEMMA OccupiedPart ==
    ASSUME NEW l \in Seq(Entries)
    PROVE  /\ PartOf(Occupied(l), l)
           /\ \A i \in DOMAIN Occupied(l) : Occupied(l)[i].type # "Invalid"
           /\ \A j \in DOMAIN l : l[j].type # "Invalid" =>
                 \E i \in DOMAIN Occupied(l) : Occupied(l)[i] = l[j]
           /\ (\A j \in DOMAIN l : l[j].type # "Invalid") => Occupied(l) = l
<1>. DEFINE n == Len(l)
            S == Seq(Entries)
            step == [x \in (1..n) \X S |->
                       IF l[x[1]].type = "Invalid" THEN x[2] ELSE Append(x[2], l[x[1]])]
            Body(f) == [i \in 0..n |-> IF i = 0 THEN <<>>
                                       ELSE IF l[i].type = "Invalid" THEN f[i - 1]
                                       ELSE Append(f[i - 1], l[i])]
<1>1. n \in Nat /\ \A i \in 1..n : l[i] \in Entries
  OBVIOUS
<1>2. <<>> \in S /\ step \in [(1..n) \X S -> S]
  BY <1>1
<1>3. PICK g : Iterates(g, n, S, <<>>, step)
  <2>. HIDE DEF step, n, S
  <2>. QED BY <1>1, <1>2, IterationExists
<1>4. /\ g = [i \in 0..n |-> g[i]] /\ g[0] = <<>>
      /\ \A i \in 1..n : g[i] = IF l[i].type = "Invalid" THEN g[i - 1]
                                ELSE Append(g[i - 1], l[i])
  <2>1. /\ g = [i \in 0..n |-> g[i]] /\ g[0] = <<>>
        /\ \A i \in 1..n : g[i - 1] \in S /\ g[i] = step[<<i, g[i - 1]>>]
    <3>. HIDE DEF step, n, S
    <3>. QED BY <1>1, <1>3 DEF Iterates
  <2>. QED BY <2>1
<1>5. \E f : f = Body(f)
  <2>. HIDE DEF step, n, S
  <2>1. \A i \in 0..n : i = 0 \/ i \in 1..n
    BY <1>1
  <2>2. \A i \in 0..n : g[i] = IF i = 0 THEN <<>>
                               ELSE IF l[i].type = "Invalid" THEN g[i - 1]
                               ELSE Append(g[i - 1], l[i])
    BY <2>1, <1>4
  <2>3. g = Body(g)
    BY <1>4, <2>2
  <2>. HIDE DEF Body
  <2>. QED BY <2>3
<1>. DEFINE h == CHOOSE f : f = Body(f)
<1>6. h = Body(h)
  <2>. HIDE DEF Body
  <2>. QED BY <1>5
<1>7. Occupied(l) = h[n]
  BY DEF Occupied
<1>. HIDE DEF h
<1>8. /\ h[0] = <<>>
      /\ \A i \in 1..n : h[i] = IF l[i].type = "Invalid" THEN h[i - 1]
                                ELSE Append(h[i - 1], l[i])
  <2>. HIDE DEF step, n, S
  <2>1. \A i \in 0..n : h[i] = IF i = 0 THEN <<>>
                               ELSE IF l[i].type = "Invalid" THEN h[i - 1]
                               ELSE Append(h[i - 1], l[i])
    BY <1>6
  <2>2. 0 \in 0..n /\ \A i \in 1..n : i \in 0..n /\ i # 0
    BY <1>1
  <2>. QED BY <2>1, <2>2
<1>. HIDE DEF step, Body, S
<1>. DEFINE T == {k \in 0..n : OccupiedUpto(h[k], l, k)}
<1>9. 0 \in T
  <2>1. OccupiedUpto(<<>>, l, 0)
    <3>. DEFINE f == [i \in DOMAIN <<>> |-> 0]
    <3>1. f \in [DOMAIN <<>> -> 1..0] /\ (\A i, j \in DOMAIN <<>> : f[i] = f[j] => i = j)
          /\ (\A i \in DOMAIN <<>> : <<>>[i] = l[f[i]])
      OBVIOUS
    <3>2. <<>> \in Seq(Entries) /\ DOMAIN <<>> = {} /\ Len(<<>>) = 0 /\ 1..0 = {}
      OBVIOUS
    <3>. HIDE DEF f
    <3>3. \E z \in [DOMAIN <<>> -> 1..0] :
             /\ \A i, j \in DOMAIN <<>> : z[i] = z[j] => i = j
             /\ \A i \in DOMAIN <<>> : <<>>[i] = l[z[i]]
      BY <3>1
    <3>. QED BY <3>2, <3>3 DEF OccupiedUpto
  <2>. QED BY <1>8, <2>1
<1>10. ASSUME NEW k \in 0..n - 1, k \in T PROVE k + 1 \in T
  <2>1. k + 1 \in 1..n /\ (k + 1) - 1 = k /\ k + 1 \in 0..n
    OBVIOUS
  <2>2. h[k + 1] = IF l[k + 1].type = "Invalid" THEN h[k] ELSE Append(h[k], l[k + 1])
    BY <1>8, <2>1
  <2>3. OccupiedUpto(h[k], l, k)
    BY <1>10
  <2>4. OccupiedUpto(h[k + 1], l, k + 1)
    BY <2>2, <2>3, OccupiedStep
  <2>. QED BY <2>1, <2>4
<1>11. n \in T
  <2>. HIDE DEF T, n
  <2>1. 0..n \subseteq T
    BY <1>1, <1>9, <1>10, NatSetInduction
  <2>. QED BY <1>1, <2>1
<1>12. OccupiedUpto(Occupied(l), l, Len(l))
  BY <1>7, <1>11
<1>13. DOMAIN l = 1..Len(l)
  OBVIOUS
<1>. HIDE DEF T, n
<1>14. PartOf(Occupied(l), l)
  BY <1>12, <1>13 DEF OccupiedUpto, PartOf
<1>15. ASSUME \A j \in DOMAIN l : l[j].type # "Invalid" PROVE Occupied(l) = l
  <2>1. Occupied(l) \in Seq(Entries) /\ Len(Occupied(l)) = Len(l)
        /\ \A j \in 1..Len(l) : Occupied(l)[j] = l[j]
    BY <1>12, <1>13, <1>15 DEF OccupiedUpto
  <2>. QED BY <2>1, SeqEqual
<1>. QED BY <1>12, <1>13, <1>14, <1>15 DEF OccupiedUpto

(* Erasing takes entries of those to be dropped, and no others.                      *)
ErasedFrom(r, l, drops) ==
    /\ PartOf(r, l)
    /\ \A j \in DOMAIN l : (\A c \in drops : player[c].id # l[j].id) =>
          \E i \in DOMAIN r : r[i] = l[j]
    /\ drops = {} => r = l

LEMMA ErasedStep ==
    ASSUME NEW l, NEW r, NEW drops, ErasedFrom(r, l, drops), NEW c
    PROVE  ErasedFrom(IF c \in drops THEN RemoveEntry(r, player[c].id) ELSE r, l, drops)
<1>1. CASE c \notin drops
  BY <1>1
<1>2. CASE c \in drops
  <2>. DEFINE q == RemoveEntry(r, player[c].id)
  <2>1. r \in Seq(Entries) /\ PartOf(r, l)
    BY DEF ErasedFrom, PartOf
  <2>2. PartOf(q, r) /\ OthersKept(q, r, player[c].id)
    BY <2>1, RemoveEntryPart
  <2>. HIDE DEF q
  <2>3. PartOf(q, l)
    BY <2>1, <2>2, PartOfPart
  <2>4. ASSUME NEW j \in DOMAIN l, \A d \in drops : player[d].id # l[j].id
        PROVE  \E i \in DOMAIN q : q[i] = l[j]
    <3>1. PICK i \in DOMAIN r : r[i] = l[j]
      BY <2>4 DEF ErasedFrom
    <3>2. r[i].id # player[c].id
      BY <1>2, <2>4, <3>1
    <3>. QED BY <2>2, <3>1, <3>2 DEF OthersKept
  <2>5. drops # {}
    BY <1>2
  <2>6. ErasedFrom(q, l, drops)
    BY <2>3, <2>4, <2>5 DEF ErasedFrom
  <2>. QED BY <1>2, <2>6 DEF q
<1>. QED BY <1>1, <1>2

LEMMA ErasedPart ==
    ASSUME NEW l \in Seq(Entries), NEW drops, NEW order \in Seq(Clients)
    PROVE  ErasedFrom(Erased(l, drops, order), l, drops)
<1>. DEFINE n == Len(order)
            S == Seq(Entries)
            step == [x \in (1..n) \X S |->
                       IF order[x[1]] \in drops THEN RemoveEntry(x[2], player[order[x[1]]].id)
                                                ELSE x[2]]
            Body(f) == [i \in 0..n |-> IF i = 0 THEN l
                                       ELSE IF order[i] \in drops
                                       THEN RemoveEntry(f[i - 1], player[order[i]].id)
                                       ELSE f[i - 1]]
<1>1. n \in Nat
  OBVIOUS
<1>2. l \in S /\ step \in [(1..n) \X S -> S]
  <2>1. \A r \in S : \A c : RemoveEntry(r, player[c].id) \in S
    BY RemoveEntryPart DEF PartOf
  <2>2. \A x \in (1..n) \X S : x[2] \in S
    OBVIOUS
  <2>. HIDE DEF S, n
  <2>3. \A x \in (1..n) \X S :
          (IF order[x[1]] \in drops THEN RemoveEntry(x[2], player[order[x[1]]].id)
                                    ELSE x[2]) \in S
    BY <2>1, <2>2
  <2>4. step \in [(1..n) \X S -> S]
    BY <2>3
  <2>. QED BY <2>4 DEF S
<1>3. PICK g : Iterates(g, n, S, l, step)
  <2>. HIDE DEF step, n, S
  <2>. QED BY <1>1, <1>2, IterationExists
<1>4. /\ g = [i \in 0..n |-> g[i]] /\ g[0] = l
      /\ \A i \in 1..n : g[i] = IF order[i] \in drops
                                THEN RemoveEntry(g[i - 1], player[order[i]].id)
                                ELSE g[i - 1]
  <2>1. /\ g = [i \in 0..n |-> g[i]] /\ g[0] = l
        /\ \A i \in 1..n : g[i - 1] \in S /\ g[i] = step[<<i, g[i - 1]>>]
    <3>. HIDE DEF step, n, S
    <3>. QED BY <1>1, <1>3 DEF Iterates
  <2>. HIDE DEF S, n
  <2>. QED BY <2>1
<1>5. \E f : f = Body(f)
  <2>. HIDE DEF step, n, S
  <2>1. \A i \in 0..n : i = 0 \/ i \in 1..n
    BY <1>1
  <2>2. \A i \in 0..n : g[i] = IF i = 0 THEN l
                               ELSE IF order[i] \in drops
                               THEN RemoveEntry(g[i - 1], player[order[i]].id)
                               ELSE g[i - 1]
    BY <2>1, <1>4
  <2>3. g = Body(g)
    BY <1>4, <2>2
  <2>. HIDE DEF Body
  <2>. QED BY <2>3
<1>. DEFINE h == CHOOSE f : f = Body(f)
<1>6. h = Body(h)
  <2>. HIDE DEF Body
  <2>. QED BY <1>5
<1>7. Erased(l, drops, order) = h[n]
  BY DEF Erased
<1>. HIDE DEF h
<1>8. /\ h[0] = l
      /\ \A i \in 1..n : h[i] = IF order[i] \in drops
                                THEN RemoveEntry(h[i - 1], player[order[i]].id)
                                ELSE h[i - 1]
  <2>. HIDE DEF step, n, S
  <2>1. \A i \in 0..n : h[i] = IF i = 0 THEN l
                               ELSE IF order[i] \in drops
                               THEN RemoveEntry(h[i - 1], player[order[i]].id)
                               ELSE h[i - 1]
    BY <1>6
  <2>2. 0 \in 0..n /\ \A i \in 1..n : i \in 0..n /\ i # 0
    BY <1>1
  <2>. QED BY <2>1, <2>2
<1>. HIDE DEF step, Body, S
<1>. DEFINE T == {k \in 0..n : ErasedFrom(h[k], l, drops)}
<1>9. 0 \in T
  <2>1. ErasedFrom(l, l, drops)
    BY PartOfItself DEF ErasedFrom
  <2>. QED BY <1>8, <2>1
<1>10. ASSUME NEW k \in 0..n - 1, k \in T PROVE k + 1 \in T
  <2>1. k + 1 \in 1..n /\ (k + 1) - 1 = k /\ k + 1 \in 0..n
    OBVIOUS
  <2>2. h[k + 1] = IF order[k + 1] \in drops
                   THEN RemoveEntry(h[k], player[order[k + 1]].id) ELSE h[k]
    BY <1>8, <2>1
  <2>3. ErasedFrom(h[k], l, drops)
    BY <1>10
  <2>4. ErasedFrom(h[k + 1], l, drops)
    BY <2>2, <2>3, ErasedStep
  <2>. QED BY <2>1, <2>4
<1>11. n \in T
  <2>. HIDE DEF T, n
  <2>1. 0..n \subseteq T
    BY <1>1, <1>9, <1>10, NatSetInduction
  <2>. QED BY <1>1, <2>1
<1>. QED BY <1>7, <1>11

(* Naming gives the new name to those without one, and they are of one list.          *)
LEMMA NamesGiven ==
    ASSUME NEW names \in SUBSET AIs, NEW l \in Rows(names), NEW a,
           \A i \in DOMAIN l : l[i].type # "Invalid",
           (\E i \in DOMAIN l : l[i].name = Unnamed) => a \in AIs \ names
    PROVE  /\ WithNames(l, a) \in Seq(Entries)
           /\ DOMAIN WithNames(l, a) = DOMAIN l
           /\ \A i \in DOMAIN l : /\ WithNames(l, a)[i].id = l[i].id
                                  /\ WithNames(l, a)[i].type = l[i].type
                                  /\ WithNames(l, a)[i].name =
                                        IF l[i].name = Unnamed THEN a ELSE l[i].name
<1>1. l \in Seq(Entries)
  BY DEF Rows
<1>2. \A i \in DOMAIN l : l[i] \in Entries
  BY <1>1
<1>. DEFINE q == WithNames(l, a)
            new(i) == [l[i] EXCEPT !.name = IF @ = Unnamed THEN a ELSE @]
<1>3. q = [i \in DOMAIN l |-> new(i)]
  BY DEF WithNames
<1>4. ASSUME NEW i \in DOMAIN l
      PROVE  /\ new(i) \in Entries /\ new(i).id = l[i].id /\ new(i).type = l[i].type
             /\ new(i).name = IF l[i].name = Unnamed THEN a ELSE l[i].name
  <2>1. l[i] \in Entries
    BY <1>2
  <2>2. (IF l[i].name = Unnamed THEN a ELSE l[i].name) \in Endpoints \cup {Unnamed}
    BY <2>1 DEF Entries, Endpoints
  <2>. QED BY <2>1, <2>2 DEF Entries
<1>. HIDE DEF new
<1>5. \A i \in DOMAIN l : q[i] = new(i)
  BY <1>3
<1>6. q \in Seq(Entries) /\ DOMAIN q = DOMAIN l
  BY <1>1, <1>3, <1>4
<1>. QED BY <1>4, <1>5, <1>6

LEMMA NamedRows ==
    ASSUME NEW names \in SUBSET AIs, NEW l \in Rows(names), NEW a,
           \A i \in DOMAIN l : l[i].type # "Invalid",
           (\E i \in DOMAIN l : l[i].name = Unnamed) => a \in AIs \ names
    PROVE  /\ AINames(WithNames(l, a)) \subseteq names \cup (AIs \cap {a})
           /\ AINames(WithNames(l, a)) \subseteq AIs
           /\ ~ HasUnnamed(l) => AINames(WithNames(l, a)) \subseteq names
           /\ WithNames(l, a) \in Rows(names \cup AINames(WithNames(l, a)))
           /\ Listing(WithNames(l, a))
           /\ ~ HasUnnamed(l) => WithNames(l, a) = l
<1>. DEFINE q == WithNames(l, a)
<1>1. /\ q \in Seq(Entries) /\ DOMAIN q = DOMAIN l
      /\ \A i \in DOMAIN l : /\ q[i].id = l[i].id /\ q[i].type = l[i].type
                             /\ q[i].name = IF l[i].name = Unnamed THEN a ELSE l[i].name
  BY NamesGiven
<1>2. \A i \in DOMAIN l : l[i].type = "AI" =>
          /\ l[i].id = NoPlayer
          /\ l[i].name \in names \cup {Unnamed}
          /\ \A j \in DOMAIN l : l[j].type = "AI" /\ l[i].name = l[j].name => i = j
  BY DEF Rows, GoodRows
<1>3. q = [i \in DOMAIN l |-> [l[i] EXCEPT !.name = IF @ = Unnamed THEN a ELSE @]]
  BY DEF WithNames
<1>. HIDE DEF q
<1>4. \A i \in DOMAIN q : q[i].type = "AI" => q[i].name \in AINames(q)
  BY DEF AINames
<1>5. AINames(q) \subseteq names \cup (AIs \cap {a})
  BY <1>1, <1>2 DEF AINames
<1>6. (\A i \in DOMAIN l : l[i].name # Unnamed) => AINames(q) \subseteq names
  BY <1>1, <1>2 DEF AINames
<1>7. GoodRows(q, names \cup AINames(q))
  <2>1. \A i \in DOMAIN q : /\ q[i].type = "AI" => /\ q[i].id = NoPlayer
                                                   /\ q[i].name \in names \cup AINames(q)
                            /\ q[i].type \in HumanTypes => q[i].id # NoPlayer
    BY <1>1, <1>2, <1>4 DEF Rows, GoodRows
  <2>2. ASSUME NEW i \in DOMAIN q, NEW j \in DOMAIN q,
               q[i].type = "AI", q[j].type = "AI", q[i].name = q[j].name
        PROVE  i = j
    <3>1. l[i].name \in names \cup {Unnamed} /\ l[j].name \in names \cup {Unnamed}
      BY <1>1, <1>2, <2>2
    <3>2. l[i].name = l[j].name
      BY <1>1, <2>2, <3>1
    <3>. QED BY <1>1, <1>2, <2>2, <3>2
  <2>. QED BY <2>1, <2>2 DEF GoodRows
<1>8. Listing(q)
  <2>1. ASSUME NEW i \in DOMAIN q, q[i].type = "AI" PROVE q[i].name \in AIs
    BY <1>1, <1>2, <2>1
  <2>2. ASSUME NEW i \in DOMAIN q PROVE q[i].name # Unnamed
    <3>1. CASE l[i].name = Unnamed
      <4>1. q[i].name = a /\ a \in AIs
        BY <1>1, <3>1
      <4>. QED BY <4>1, EndpointsAssumption
    <3>2. CASE l[i].name # Unnamed
      BY <1>1, <3>2
    <3>. QED BY <3>1, <3>2
  <2>. QED BY <1>1, <2>1, <2>2 DEF Listing
<1>9. ASSUME \A i \in DOMAIN l : l[i].name # Unnamed PROVE q = l
  <2>0. l \in Seq(Entries)
    BY DEF Rows
  <2>1. \A i \in DOMAIN l : q[i] = l[i]
    <3>1. ASSUME NEW i \in DOMAIN l PROVE q[i] = l[i]
      <4>1. l[i] \in Entries
        BY <2>0
      <4>2. q[i] = [l[i] EXCEPT !.name = l[i].name]
        BY <1>3, <1>9
      <4>. QED BY <4>1, <4>2 DEF Entries
    <3>. QED BY <3>1
  <2>. QED BY <1>1, <2>0, <2>1, SeqEqual
<1>10. AINames(q) \subseteq AIs
  BY <1>8 DEF AINames, Listing
<1>11. /\ ~ HasUnnamed(l) => AINames(q) \subseteq names
       /\ ~ HasUnnamed(l) => q = l
  BY <1>6, <1>9 DEF HasUnnamed
<1>. QED BY <1>1, <1>5, <1>7, <1>8, <1>10, <1>11 DEF q, Rows

-----------------------------------------------------------------------------
(* What the server's handlers leave: first the values and who is connected.           *)

Rosters(names) == {s \in Servers(names) : s.fsm = "MPLobby" => s.lobby \in Rows(names)}

LEMMA MessagesTyped ==
    ASSUME NEW names, NEW n \in Int, NEW l \in Rows(names), NEW g \in {0, 1}
    PROVE  /\ [type |-> "Closed"] \in ServerMessages(names)
           /\ [type |-> "Error"] \in ServerMessages(names)
           /\ [type |-> "EndGame"] \in ServerMessages(names)
           /\ [type |-> "GameStart"] \in ServerMessages(names)
           /\ [type |-> "HostID", id |-> n] \in ServerMessages(names)
           /\ [type |-> "JoinAck", id |-> n] \in ServerMessages(names)
           /\ [type |-> "HostMPAck", id |-> n] \in ServerMessages(names)
           /\ [type |-> "HostSPAck", id |-> n] \in ServerMessages(names)
           /\ LobbyData(l, g) \in ServerMessages(names)
BY DEF ServerMessages, LobbyData, Updates

LEMMA Sent ==
    ASSUME NEW names, NEW s \in Servers(names), NEW m \in ServerMessages(names), NEW R
    PROVE  /\ SendTo(s, R, m) \in Servers(names)
           /\ SendTo(s, R, m).fsm = s.fsm
           /\ SendTo(s, R, m).connected = s.connected
           /\ SendTo(s, R, m).player = s.player
           /\ SendTo(s, R, m).host = s.host
           /\ SendTo(s, R, m).lobby = s.lobby
           /\ SendTo(s, R, m).galaxy = s.galaxy
           /\ \A c \in Clients : SendTo(s, R, m).down[c] =
                 IF c \in R THEN Append(s.down[c], m) ELSE s.down[c]
<1>. DEFINE M == ServerMessages(names)
            d == [c \in Clients |-> IF c \in R THEN Append(s.down[c], m) ELSE s.down[c]]
<1>1. s.down \in [Clients -> Seq(M)]
  BY DEF Servers
<1>2. SendTo(s, R, m) = [s EXCEPT !.down = d]
  BY DEF SendTo
<1>. HIDE DEF M
<1>3. d \in [Clients -> Seq(M)]
  <2>1. \A c \in Clients : Append(s.down[c], m) \in Seq(M) /\ s.down[c] \in Seq(M)
    BY <1>1 DEF M
  <2>. QED BY <2>1
<1>4. \A c \in Clients : d[c] = IF c \in R THEN Append(s.down[c], m) ELSE s.down[c]
  OBVIOUS
<1>. HIDE DEF d
<1>5. SendTo(s, R, m) \in Servers(names)
  BY <1>2, <1>3 DEF Servers, M
<1>6. SendTo(s, R, m).down = d
  BY <1>2 DEF Servers
<1>. QED BY <1>2, <1>4, <1>5, <1>6 DEF Servers

LEMMA Dropped ==
    ASSUME NEW names, NEW s \in Rosters(names), NEW e \in Endpoints
    PROVE  /\ Without(s, e) \in Rosters(names)
           /\ Without(s, e).fsm = s.fsm
           /\ Without(s, e).connected = s.connected \ {e}
           /\ Without(s, e).player = [s.player EXCEPT ![e] = Nobody]
           /\ Without(s, e).host = s.host
           /\ Without(s, e).lobby = s.lobby
           /\ Without(s, e).galaxy = s.galaxy
           /\ Without(s, e).down = s.down
<1>1. Nobody \in Players
  BY DEF Nobody, Players, NoPlayer
<1>2. s \in Servers(names) /\ (s.fsm = "MPLobby" => s.lobby \in Rows(names))
  BY DEF Rosters
<1>. DEFINE p == [s.player EXCEPT ![e] = Nobody]
            n == s.connected \ {e}
<1>3. p \in [Endpoints -> Players] /\ n \in SUBSET Endpoints
  BY <1>1, <1>2 DEF Servers
<1>4. Without(s, e) = [s EXCEPT !.connected = n, !.player = p]
  BY <1>2 DEF Without, Servers
<1>. HIDE DEF p, n
<1>5. Without(s, e) \in Servers(names)
  BY <1>2, <1>3, <1>4 DEF Servers
<1>6. /\ Without(s, e).fsm = s.fsm
      /\ Without(s, e).connected = n
      /\ Without(s, e).player = p
      /\ Without(s, e).host = s.host
      /\ Without(s, e).lobby = s.lobby
      /\ Without(s, e).galaxy = s.galaxy
      /\ Without(s, e).down = s.down
  BY <1>2, <1>4 DEF Servers
<1>. QED BY <1>2, <1>5, <1>6 DEF Rosters, p, n

LEMMA HostSelected ==
    ASSUME NEW names, NEW s \in Servers(names), NEW order \in Seq(Clients)
    PROVE  /\ SelectNewHost(s, order) \in Servers(names)
           /\ SelectNewHost(s, order).fsm = s.fsm
           /\ SelectNewHost(s, order).connected = s.connected
           /\ SelectNewHost(s, order).player = s.player
           /\ SelectNewHost(s, order).lobby = s.lobby
           /\ SelectNewHost(s, order).galaxy = s.galaxy
           /\ \A c \in Clients : SelectNewHost(s, order).down[c] =
                 IF c \in s.connected /\ s.player[c].id # s.host
                 THEN Append(s.down[c], [type |-> "HostID", id |-> SelectNewHost(s, order).host])
                 ELSE s.down[c]
           /\ (\E i \in DOMAIN order : order[i] \in Established(s)
                                       /\ s.player[order[i]].type \in HumanTypes) =>
                 \E c \in Established(s) : s.player[c].id = SelectNewHost(s, order).host
<1>. DEFINE humans == {i \in DOMAIN order : /\ order[i] \in Established(s)
                                            /\ s.player[order[i]].type \in HumanTypes}
            newHost == IF humans = {} THEN NoPlayer ELSE s.player[order[Max(humans)]].id
            R == {e \in s.connected : s.player[e].id # s.host}
            h == [s EXCEPT !.host = newHost]
            m == [type |-> "HostID", id |-> newHost]
<1>1. humans # {} => Max(humans) \in humans
  <2>1. humans \in SUBSET (0..Len(order)) /\ Len(order) \in Nat
    OBVIOUS
  <2>. HIDE DEF humans
  <2>. QED BY <2>1, GreatestNat
<1>2. humans # {} => order[Max(humans)] \in Established(s) /\ order[Max(humans)] \in Endpoints
  <2>. HIDE DEF Max
  <2>1. \A i \in humans : order[i] \in Established(s) /\ order[i] \in Clients
    OBVIOUS
  <2>. HIDE DEF humans
  <2>. QED BY <1>1, <2>1 DEF Endpoints
<1>3. s.player \in [Endpoints -> Players]
  BY DEF Servers
<1>4. newHost \in Int
  <2>. HIDE DEF humans
  <2>. QED BY <1>2, <1>3 DEF Players, NoPlayer
<1>5. humans # {} => \E c \in Established(s) : s.player[c].id = newHost
  <2>. HIDE DEF humans
  <2>. QED BY <1>2
<1>6. SelectNewHost(s, order) = SendTo(h, R, m)
  BY DEF SelectNewHost
<1>. HIDE DEF newHost, humans
<1>7. /\ h \in Servers(names) /\ h.fsm = s.fsm /\ h.connected = s.connected /\ h.player = s.player
      /\ h.lobby = s.lobby /\ h.galaxy = s.galaxy /\ h.down = s.down /\ h.host = newHost
  BY <1>4 DEF Servers
<1>8. m \in ServerMessages(names)
  BY <1>4, MessagesTyped DEF ServerMessages
<1>. HIDE DEF h
<1>9. /\ SendTo(h, R, m) \in Servers(names)
      /\ SendTo(h, R, m).fsm = s.fsm
      /\ SendTo(h, R, m).connected = s.connected
      /\ SendTo(h, R, m).player = s.player
      /\ SendTo(h, R, m).host = newHost
      /\ SendTo(h, R, m).lobby = s.lobby
      /\ SendTo(h, R, m).galaxy = s.galaxy
      /\ \A c \in Clients : SendTo(h, R, m).down[c] =
            IF c \in R THEN Append(s.down[c], m) ELSE s.down[c]
  <2>. HIDE DEF R, m
  <2>. QED BY <1>7, <1>8, Sent
<1>10. (\E i \in DOMAIN order : order[i] \in Established(s)
                                /\ s.player[order[i]].type \in HumanTypes) => humans # {}
  BY DEF humans
<1>11. \A c \in Clients : c \in R <=> c \in s.connected /\ s.player[c].id # s.host
  OBVIOUS
<1>. HIDE DEF R
<1>. QED BY <1>5, <1>6, <1>9, <1>10, <1>11

-----------------------------------------------------------------------------
(* What one more message does to what a client knows.                                 *)

LEMMA OfAppend ==
    ASSUME NEW M, NEW D \in Seq(M), NEW m \in M, NEW types
    PROVE  /\ Of(Append(D, m), types) =
                 Of(D, types) \cup (IF m.type \in types THEN {Len(D) + 1} ELSE {})
           /\ Len(D) \in Nat
           /\ \A k \in Of(D, types) : k \in 1..Len(D) /\ Append(D, m)[k] = D[k]
           /\ Append(D, m)[Len(D) + 1] = m
<1>1. /\ Append(D, m) \in Seq(M) /\ DOMAIN Append(D, m) = 1..Len(D) + 1 /\ Len(D) \in Nat
      /\ DOMAIN D = 1..Len(D)
      /\ \A k \in 1..Len(D) : Append(D, m)[k] = D[k]
      /\ Append(D, m)[Len(D) + 1] = m
  OBVIOUS
<1>2. /\ \A k \in 1..Len(D) + 1 : k \in 1..Len(D) \/ k = Len(D) + 1
      /\ \A k \in 1..Len(D) : k \in 1..Len(D) + 1
      /\ Len(D) + 1 \in 1..Len(D) + 1
  BY <1>1
<1>3. \A k \in 1..Len(D) : k # Len(D) + 1
  BY <1>1
<1>4. ASSUME NEW k
      PROVE  k \in Of(Append(D, m), types) <=>
                k \in Of(D, types) \/ (m.type \in types /\ k = Len(D) + 1)
  BY <1>1, <1>2, <1>3 DEF Of
<1>5. Of(D, types) \subseteq 1..Len(D)
  BY <1>1 DEF Of
<1>6. Of(Append(D, m), types) = Of(D, types) \cup (IF m.type \in types THEN {Len(D) + 1} ELSE {})
  <2>1. CASE m.type \in types
    BY <1>4, <2>1
  <2>2. CASE m.type \notin types
    BY <1>4, <2>2
  <2>. QED BY <2>1, <2>2
<1>. QED BY <1>1, <1>5, <1>6

HostNews == {"HostID", "HostMPAck", "HostSPAck"}
AckNews == {"HostMPAck", "HostSPAck", "JoinAck"}

LEMMA OtherNews ==
    ASSUME NEW M, NEW D \in Seq(M), NEW m \in M, m.type \notin HostNews \cup AckNews,
           NEW state, NEW own, NEW h, KnowsHost(D, state, own, h)
    PROVE  KnowsHost(Append(D, m), state, own, h)
<1>. DEFINE E == Append(D, m)
<1>01. Of(E, {"HostID", "HostMPAck", "HostSPAck"}) = Of(D, {"HostID", "HostMPAck", "HostSPAck"}) \cup (IF m.type \in {"HostID", "HostMPAck", "HostSPAck"} THEN {Len(D) + 1} ELSE {})
  BY OfAppend
<1>02. Of(E, {"HostMPAck", "HostSPAck", "JoinAck"}) = Of(D, {"HostMPAck", "HostSPAck", "JoinAck"}) \cup (IF m.type \in {"HostMPAck", "HostSPAck", "JoinAck"} THEN {Len(D) + 1} ELSE {})
  BY OfAppend
<1>1. Hosts(E) = Hosts(D) /\ Acks(E) = Acks(D)
  <2>. HIDE DEF E
  <2>. QED BY <1>01, <1>02 DEF Hosts, Acks, HostNews, AckNews
<1>2. /\ Len(D) \in Nat /\ \A k \in Hosts(D) : E[k] = D[k]
      /\ \A k \in Acks(D) : k \in 1..Len(D)
  BY OfAppend DEF Hosts, Acks
<1>3. \A k \in Lists(E) : k \in Lists(D) \/ k = Len(D) + 1
  BY OfAppend DEF Lists
<1>. HIDE DEF E
<1>4. \A k \in Acks(D) : (\A i \in Lists(D) : i > k) => \A i \in Lists(E) : i > k
  BY <1>2, <1>3
<1>. QED BY <1>1, <1>2, <1>4 DEF KnowsHost, E

LEMMA NewHost ==
    ASSUME NEW M, NEW D \in Seq(M), NEW m \in M, m.type = "HostID",
           NEW state, NEW own, NEW h, KnowsHost(D, state, own, h)
    PROVE  KnowsHost(Append(D, m), state, own, m.id)
<1>. DEFINE E == Append(D, m)
            n == Len(D) + 1
<1>01. Of(E, {"HostID", "HostMPAck", "HostSPAck"}) = Of(D, {"HostID", "HostMPAck", "HostSPAck"}) \cup (IF m.type \in {"HostID", "HostMPAck", "HostSPAck"} THEN {Len(D) + 1} ELSE {})
  BY OfAppend
<1>02. Of(E, {"HostMPAck", "HostSPAck", "JoinAck"}) = Of(D, {"HostMPAck", "HostSPAck", "JoinAck"}) \cup (IF m.type \in {"HostMPAck", "HostSPAck", "JoinAck"} THEN {Len(D) + 1} ELSE {})
  BY OfAppend
<1>03. Of(E, {"LobbyUpdate"}) = Of(D, {"LobbyUpdate"}) \cup (IF m.type \in {"LobbyUpdate"} THEN {Len(D) + 1} ELSE {})
  BY OfAppend
<1>1. Hosts(E) = Hosts(D) \cup {n} /\ Acks(E) = Acks(D) /\ Lists(E) = Lists(D)
  <2>. HIDE DEF E
  <2>. QED BY <1>01, <1>02, <1>03 DEF Hosts, Acks, Lists
<1>2. /\ Len(D) \in Nat /\ \A k \in Hosts(D) : k \in 1..Len(D)
      /\ E[n] = m
  BY OfAppend DEF Hosts
<1>3. \A k \in Hosts(E) : IsLast(k, Hosts(E)) => k = n
  BY <1>1, <1>2 DEF IsLast
<1>. HIDE DEF E, n
<1>4. \A k \in Hosts(E) : IsLast(k, Hosts(E)) => E[k].id = m.id
  BY <1>2, <1>3
<1>5. Hosts(E) # {}
  BY <1>1
<1>6. state \in Waiting => \E k \in Acks(E) : /\ \A i \in Lists(E) : i > k
                                              /\ \E i \in Hosts(E) : i >= k
  BY <1>1 DEF KnowsHost
<1>7. KnowsHost(E, state, own, m.id)
  BY <1>4, <1>5, <1>6 DEF KnowsHost
<1>. QED BY <1>7 DEF E

LEMMA OtherList ==
    ASSUME NEW M, NEW D \in Seq(M), NEW m \in M, m.type # "LobbyUpdate"
    PROVE  /\ Lists(Append(D, m)) = Lists(D)
           /\ \A state, own, l : KnowsList(D, state, own, l) => KnowsList(Append(D, m), state, own, l)
<1>. DEFINE types == {"LobbyUpdate"}
<1>0. /\ Of(Append(D, m), types) = Of(D, types) \cup (IF m.type \in types THEN {Len(D) + 1} ELSE {})
      /\ \A k \in Of(D, types) : Append(D, m)[k] = D[k]
  <2>. HIDE DEF types
  <2>. QED BY OfAppend
<1>1. Lists(Append(D, m)) = Lists(D) /\ \A k \in Lists(D) : Append(D, m)[k] = D[k]
  BY <1>0 DEF Lists
<1>. QED BY <1>1 DEF KnowsList

LEMMA NewList ==
    ASSUME NEW M, NEW D \in Seq(M), NEW m \in M, m.type = "LobbyUpdate", NEW state, NEW own
    PROVE  KnowsList(Append(D, m), state, own, m.players)
<1>. DEFINE E == Append(D, m)
            n == Len(D) + 1
<1>1. Lists(E) = Lists(D) \cup {n} /\ Len(D) \in Nat /\ E[n] = m
      /\ \A k \in Lists(D) : k \in 1..Len(D)
  BY OfAppend DEF Lists
<1>2. \A k \in Lists(E) : IsLast(k, Lists(E)) => k = n
  BY <1>1 DEF IsLast
<1>3. Lists(E) # {}
  BY <1>1
<1>. HIDE DEF E, n
<1>4. KnowsList(E, state, own, m.players)
  BY <1>1, <1>2, <1>3 DEF KnowsList
<1>. QED BY <1>4 DEF E

-----------------------------------------------------------------------------
(* A connection is gone: e is nobody, and only the end of the server may follow.       *)
Left(t, s, e, names) ==
    /\ t \in Rosters(names)
    /\ t.connected = s.connected \ {e}
    /\ t.player = [s.player EXCEPT ![e] = Nobody]
    /\ t.fsm \in {s.fsm, "Exited"}
    /\ PartOf(t.lobby, s.lobby)
    /\ s.fsm # "MPLobby" => t.lobby = s.lobby
    /\ t.galaxy = s.galaxy
    /\ Strangers(s) => Strangers(t)

LEMMA RosterRows ==
    ASSUME NEW names, NEW s \in Rosters(names)
    PROVE  /\ s \in Servers(names)
           /\ s.fsm = "MPLobby" => s.lobby \in Rows(names)
           /\ s.lobby \in Seq(Entries)
           /\ s.galaxy \in {0, 1}
           /\ s.host \in Int
           /\ s.connected \in SUBSET Endpoints
           /\ s.player \in [Endpoints -> Players]
           /\ \A c \in Clients : s.down[c] \in Seq(ServerMessages(names))
BY DEF Rosters, Servers

(* A host chosen is told to all, strangers included, and nothing of lists.              *)
LEMMA SelectedRoster ==
    ASSUME NEW names, NEW s \in Rosters(names), NEW order \in Seq(Clients)
    PROVE  /\ SelectNewHost(s, order) \in Rosters(names)
           /\ Strangers(s) => Strangers(SelectNewHost(s, order))
<1>. DEFINE t == SelectNewHost(s, order)
            m == [type |-> "HostID", id |-> t.host]
<1>1. /\ t \in Servers(names) /\ t.fsm = s.fsm /\ t.connected = s.connected
      /\ t.player = s.player /\ t.lobby = s.lobby
      /\ \A c \in Clients : t.down[c] = IF c \in s.connected /\ s.player[c].id # s.host
                                        THEN Append(s.down[c], m) ELSE s.down[c]
  BY RosterRows, HostSelected
<1>2. t.host \in Int /\ m \in ServerMessages(names) /\ m.type # "LobbyUpdate"
  <2>1. t.host \in Int
    BY <1>1 DEF Servers
  <2>. QED BY <2>1, MessagesTyped DEF ServerMessages
<1>. HIDE DEF t, m
<1>3. \A c \in Clients : Lists(t.down[c]) = Lists(s.down[c])
  <2>. SUFFICES ASSUME NEW c \in Clients PROVE Lists(t.down[c]) = Lists(s.down[c])
    OBVIOUS
  <2>1. s.down[c] \in Seq(ServerMessages(names))
    BY RosterRows
  <2>2. Lists(Append(s.down[c], m)) = Lists(s.down[c])
    BY <1>2, <2>1, OtherList
  <2>. QED BY <1>1, <2>2
<1>4. t \in Rosters(names)
  BY <1>1, RosterRows DEF Rosters
<1>5. Strangers(s) => Strangers(t)
  BY <1>1, <1>3 DEF Strangers
<1>. QED BY <1>4, <1>5 DEF t

LEMMA SentRoster ==
    ASSUME NEW names, NEW s \in Rosters(names), NEW m \in ServerMessages(names), NEW R,
           m.type # "LobbyUpdate" \/ \A c \in R : s.player[c].id # NoPlayer
    PROVE  /\ SendTo(s, R, m) \in Rosters(names)
           /\ Strangers(s) => Strangers(SendTo(s, R, m))
<1>. DEFINE t == SendTo(s, R, m)
<1>1. /\ t \in Servers(names) /\ t.fsm = s.fsm /\ t.connected = s.connected
      /\ t.player = s.player /\ t.lobby = s.lobby
      /\ \A c \in Clients : t.down[c] = IF c \in R THEN Append(s.down[c], m) ELSE s.down[c]
  BY RosterRows, Sent
<1>. HIDE DEF t
<1>2. ASSUME NEW c \in Clients, s.player[c].id = NoPlayer
      PROVE  Lists(t.down[c]) = Lists(s.down[c])
  <2>1. s.down[c] \in Seq(ServerMessages(names))
    BY RosterRows
  <2>2. CASE m.type # "LobbyUpdate"
    <3>1. Lists(Append(s.down[c], m)) = Lists(s.down[c])
      BY <2>1, <2>2, OtherList
    <3>. QED BY <1>1, <3>1
  <2>3. CASE c \notin R
    BY <1>1, <2>3
  <2>. QED BY <1>2, <2>2, <2>3
<1>3. t \in Rosters(names)
  BY <1>1, RosterRows DEF Rosters
<1>4. Strangers(s) => Strangers(t)
  BY <1>1, <1>2 DEF Strangers
<1>. QED BY <1>3, <1>4 DEF t

LEMMA DroppedRoster ==
    ASSUME NEW names, NEW s \in Rosters(names), NEW e \in Endpoints
    PROVE  /\ Left(Without(s, e), s, e, names)
           /\ Without(s, e) \in Rosters(names)
           /\ Without(s, e).fsm = s.fsm
           /\ Without(s, e).lobby = s.lobby
           /\ Without(s, e).host = s.host
<1>. DEFINE t == Without(s, e)
<1>1. /\ t \in Rosters(names)
      /\ t.fsm = s.fsm
      /\ t.connected = s.connected \ {e}
      /\ t.player = [s.player EXCEPT ![e] = Nobody]
      /\ t.lobby = s.lobby
      /\ t.galaxy = s.galaxy
      /\ t.down = s.down
      /\ t.host = s.host
  BY Dropped
<1>2. s.lobby \in Seq(Entries) /\ s.player \in [Endpoints -> Players] /\ Clients \subseteq Endpoints
  BY RosterRows DEF Endpoints
<1>. HIDE DEF t
<1>3. Strangers(s) => Strangers(t)
  BY <1>1, <1>2 DEF Strangers
<1>. QED BY <1>1, <1>2, <1>3, PartOfItself DEF Left, t

LEMMA LobbyLeft ==
    ASSUME NEW names, NEW s \in Rosters(names), s.fsm = "MPLobby",
           NEW e \in Endpoints, NEW order \in Seq(Clients)
    PROVE  Left(LobbyDisconnection(s, e, order), s, e, names)
<1>. DEFINE left == Without(s, e)
            hosted == IF PlayerIsHost(s, e) THEN SelectNewHost(left, order) ELSE left
            rest == RemoveEntry(s.lobby, s.player[e].id)
            shorter == [hosted EXCEPT !.lobby = rest]
            told == SendTo(shorter, Established(left), LobbyData(rest, s.galaxy))
            t == LobbyDisconnection(s, e, order)
<1>0. t = IF NoHumansLeft(left) THEN [left EXCEPT !.fsm = "Exited"]
          ELSE IF rest = s.lobby THEN hosted ELSE told
  BY DEF LobbyDisconnection
<1>1. /\ Left(left, s, e, names) /\ left.host = s.host
      /\ left \in Rosters(names) /\ left.fsm = s.fsm /\ left.lobby = s.lobby
  BY DroppedRoster
<1>2. PartOf(rest, s.lobby) /\ rest \in Rows(names) /\ rest \in Seq(Entries)
  <2>1. s.lobby \in Seq(Entries) /\ GoodRows(s.lobby, names)
    BY RosterRows DEF Rows
  <2>2. PartOf(rest, s.lobby)
    BY <2>1, RemoveEntryPart
  <2>. HIDE DEF rest
  <2>3. rest \in Rows(names)
    BY <2>1, <2>2, PartOfGood
  <2>. QED BY <2>2, <2>3 DEF Rows
<1>. HIDE DEF left, rest
<1>3. /\ hosted \in Rosters(names) /\ hosted.fsm = s.fsm /\ hosted.lobby = s.lobby
      /\ hosted.connected = left.connected /\ hosted.player = left.player
      /\ hosted.galaxy = left.galaxy
      /\ Strangers(left) => Strangers(hosted)
  <2>1. /\ SelectNewHost(left, order) \in Rosters(names)
        /\ Strangers(left) => Strangers(SelectNewHost(left, order))
    BY <1>1, SelectedRoster
  <2>2. /\ SelectNewHost(left, order).fsm = left.fsm
        /\ SelectNewHost(left, order).connected = left.connected
        /\ SelectNewHost(left, order).player = left.player
        /\ SelectNewHost(left, order).lobby = left.lobby
        /\ SelectNewHost(left, order).galaxy = left.galaxy
    <3>1. left \in Servers(names)
      BY <1>1, RosterRows
    <3>. QED BY <3>1, HostSelected
  <2>. QED BY <1>1, <2>1, <2>2
<1>. HIDE DEF hosted
<1>4. Left(hosted, s, e, names)
  BY <1>1, <1>3 DEF Left
<1>5. Left([left EXCEPT !.fsm = "Exited"], s, e, names)
  <2>. DEFINE x == [left EXCEPT !.fsm = "Exited"]
  <2>1. left \in Servers(names)
    BY <1>1, RosterRows
  <2>2. /\ x \in Servers(names) /\ x.fsm = "Exited" /\ x.connected = left.connected
        /\ x.player = left.player /\ x.lobby = left.lobby /\ x.galaxy = left.galaxy
        /\ x.down = left.down
    BY <2>1 DEF Servers, States
  <2>. HIDE DEF x
  <2>3. Strangers(left) => Strangers(x)
    BY <2>2 DEF Strangers
  <2>4. x \in Rosters(names)
    BY <2>2 DEF Rosters
  <2>5. Left(x, s, e, names)
    BY <1>1, <2>2, <2>3, <2>4 DEF Left
  <2>. QED BY <2>5 DEF x
<1>6. /\ shorter \in Rosters(names) /\ shorter.fsm = s.fsm /\ shorter.lobby = rest
      /\ shorter.connected = hosted.connected /\ shorter.player = hosted.player
      /\ shorter.galaxy = hosted.galaxy /\ shorter.down = hosted.down
  <2>1. hosted \in Servers(names)
    BY <1>3, RosterRows
  <2>2. /\ shorter \in Servers(names) /\ shorter.fsm = s.fsm /\ shorter.lobby = rest
        /\ shorter.connected = hosted.connected /\ shorter.player = hosted.player
        /\ shorter.galaxy = hosted.galaxy /\ shorter.down = hosted.down
    BY <1>2, <1>3, <2>1 DEF Servers
  <2>. QED BY <1>2, <2>2 DEF Rosters
<1>. HIDE DEF shorter
<1>7. Left(told, s, e, names)
  <2>. DEFINE m == LobbyData(rest, s.galaxy)
  <2>1. m \in ServerMessages(names)
    BY <1>2, RosterRows, MessagesTyped
  <2>2. \A c \in Established(left) : shorter.player[c].id # NoPlayer
    BY <1>3, <1>6 DEF Established
  <2>. HIDE DEF m
  <2>. DEFINE x == SendTo(shorter, Established(left), m)
  <2>3. /\ x \in Rosters(names)
        /\ Strangers(shorter) => Strangers(x)
    BY <1>6, <2>1, <2>2, SentRoster
  <2>4. /\ x.fsm = shorter.fsm /\ x.connected = shorter.connected /\ x.player = shorter.player
        /\ x.lobby = shorter.lobby /\ x.galaxy = shorter.galaxy
    BY <1>6, <2>1, RosterRows, Sent
  <2>. HIDE DEF x
  <2>5. Strangers(hosted) => Strangers(shorter)
    BY <1>6 DEF Strangers
  <2>6. Left(x, s, e, names)
    BY <1>2, <1>4, <1>6, <2>3, <2>4, <2>5 DEF Left
  <2>. QED BY <2>6 DEF x, m
<1>. HIDE DEF told, t
<1>8. Left(t, s, e, names)
  BY <1>0, <1>4, <1>5, <1>7
<1>. QED BY <1>8 DEF t

LEMMA NonLobbyLeft ==
    ASSUME NEW names, NEW s \in Rosters(names), s.fsm # "MPLobby",
           NEW e \in Endpoints, NEW order \in Seq(Clients)
    PROVE  Left(NonLobbyDisconnection(s, e, order), s, e, names)
<1>. DEFINE left == Without(s, e)
            type == s.player[e].type
            end == SendTo(left, Established(left), [type |-> "EndGame"])
            told == IF type = "Observer"
                    THEN IF PlayerIsHost(s, e) THEN SelectNewHost(left, order) ELSE left
                    ELSE IF type = "Invalid" THEN left
                    ELSE end
            t == NonLobbyDisconnection(s, e, order)
<1>0. t = IF NoHumansLeft(left) THEN [told EXCEPT !.fsm = "Exited"] ELSE told
  BY DEF NonLobbyDisconnection
<1>1. /\ Left(left, s, e, names)
      /\ left \in Rosters(names) /\ left.fsm = s.fsm /\ left.lobby = s.lobby
  BY DroppedRoster
<1>. HIDE DEF left
<1>2. Left(SelectNewHost(left, order), s, e, names)
  <2>1. /\ SelectNewHost(left, order) \in Rosters(names)
        /\ Strangers(left) => Strangers(SelectNewHost(left, order))
    BY <1>1, SelectedRoster
  <2>2. /\ SelectNewHost(left, order).fsm = left.fsm
        /\ SelectNewHost(left, order).connected = left.connected
        /\ SelectNewHost(left, order).player = left.player
        /\ SelectNewHost(left, order).lobby = left.lobby
        /\ SelectNewHost(left, order).galaxy = left.galaxy
    <3>1. left \in Servers(names)
      BY <1>1, RosterRows
    <3>. QED BY <3>1, HostSelected
  <2>. QED BY <1>1, <2>1, <2>2 DEF Left
<1>3. Left(end, s, e, names)
  <2>. DEFINE m == [type |-> "EndGame"]
  <2>1. m \in ServerMessages(names) /\ m.type # "LobbyUpdate"
    BY DEF ServerMessages
  <2>. HIDE DEF m
  <2>. DEFINE x == SendTo(left, Established(left), m)
  <2>2. /\ x \in Rosters(names)
        /\ Strangers(left) => Strangers(x)
    BY <1>1, <2>1, SentRoster
  <2>3. /\ x.fsm = left.fsm /\ x.connected = left.connected /\ x.player = left.player
        /\ x.lobby = left.lobby /\ x.galaxy = left.galaxy
    BY <1>1, <2>1, RosterRows, Sent
  <2>. HIDE DEF x
  <2>4. Left(x, s, e, names)
    BY <1>1, <2>2, <2>3 DEF Left
  <2>. QED BY <2>4 DEF x, m
<1>. HIDE DEF end, type
<1>4. Left(told, s, e, names)
  BY <1>1, <1>2, <1>3
<1>. HIDE DEF told
<1>5. Left([told EXCEPT !.fsm = "Exited"], s, e, names)
  <2>. DEFINE x == [told EXCEPT !.fsm = "Exited"]
  <2>1. told \in Rosters(names) /\ told \in Servers(names)
    BY <1>4, RosterRows DEF Left
  <2>2. /\ x \in Servers(names) /\ x.fsm = "Exited" /\ x.connected = told.connected
        /\ x.player = told.player /\ x.lobby = told.lobby /\ x.galaxy = told.galaxy
        /\ x.down = told.down
    BY <2>1 DEF Servers, States
  <2>. HIDE DEF x
  <2>3. Strangers(told) => Strangers(x)
    BY <2>2 DEF Strangers
  <2>4. x \in Rosters(names)
    BY <2>2 DEF Rosters
  <2>5. Left(x, s, e, names)
    BY <1>4, <2>2, <2>3, <2>4 DEF Left
  <2>. QED BY <2>5 DEF x
<1>. HIDE DEF t
<1>6. Left(t, s, e, names)
  BY <1>0, <1>4, <1>5
<1>. QED BY <1>6 DEF t

LEMMA DisconnectionLeaves ==
    ASSUME NEW names, NEW s \in Rosters(names), NEW e \in Endpoints, NEW order \in Seq(Clients)
    PROVE  Left(Disconnection(s, e, order), s, e, names)
<1>1. CASE s.fsm = "MPLobby"
  BY <1>1, LobbyLeft DEF Disconnection
<1>2. CASE s.fsm \in {"Idle", "Exited"}
  BY <1>2, DroppedRoster DEF Disconnection
<1>3. CASE s.fsm \notin {"MPLobby", "Idle", "Exited"}
  BY <1>3, NonLobbyLeft DEF Disconnection
<1>. QED BY <1>1, <1>2, <1>3

LEMMA DisconnectLeaves ==
    ASSUME NEW names, NEW s \in Rosters(names), NEW e \in Endpoints, NEW order \in Seq(Clients)
    PROVE  Left(Disconnect(s, e, order), s, e, names)
<1>. DEFINE m == [type |-> "Closed"]
            x == SendTo(s, {e}, m)
            t == Disconnection(x, e, order)
<1>0. Disconnect(s, e, order) = t
  BY DEF Disconnect
<1>1. m \in ServerMessages(names) /\ m.type # "LobbyUpdate"
  BY DEF ServerMessages
<1>. HIDE DEF m
<1>2. x \in Rosters(names) /\ (Strangers(s) => Strangers(x))
  BY <1>1, SentRoster
<1>3. /\ x.fsm = s.fsm /\ x.connected = s.connected /\ x.player = s.player
      /\ x.lobby = s.lobby /\ x.galaxy = s.galaxy
  BY <1>1, RosterRows, Sent
<1>. HIDE DEF x
<1>4. Left(t, x, e, names)
  BY <1>2, DisconnectionLeaves
<1>. HIDE DEF t
<1>5. Left(t, s, e, names)
  BY <1>2, <1>3, <1>4 DEF Left
<1>. QED BY <1>0, <1>5

LEMMA LeftIdentified ==
    ASSUME NEW names, NEW s \in Rosters(names), NEW t, NEW e \in Endpoints,
           Left(t, s, e, names), Identified(s)
    PROVE  /\ Identified(t)
           /\ \A f \in Endpoints : f # e => t.player[f] = s.player[f]
           /\ t.player[e] = Nobody
           /\ Established(t) = Established(s) \ {e}
<1>1. s.player \in [Endpoints -> Players] /\ s.connected \in SUBSET Endpoints
  BY RosterRows
<1>2. t.player = [s.player EXCEPT ![e] = Nobody] /\ t.connected = s.connected \ {e}
  BY DEF Left
<1>3. /\ \A f \in Endpoints : f # e => t.player[f] = s.player[f]
      /\ t.player[e] = Nobody
  BY <1>1, <1>2
<1>4. Nobody.id = NoPlayer /\ Nobody.type = "Invalid"
  BY DEF Nobody
<1>5. Established(t) = Established(s) \ {e}
  BY <1>1, <1>2, <1>3, <1>4 DEF Established
<1>6. Identified(t)
  <2>1. ASSUME NEW f \in Endpoints, t.player[f].id # NoPlayer
        PROVE  /\ t.player[f].id >= 1
               /\ f \in t.connected
               /\ IF f \in AIs THEN t.player[f].type = "AI" ELSE t.player[f].type \in HumanTypes
    <3>1. f # e /\ t.player[f] = s.player[f]
      BY <1>3, <1>4, <2>1
    <3>. QED BY <1>2, <2>1, <3>1 DEF Identified
  <2>2. \A f \in Endpoints : t.player[f].id = NoPlayer => t.player[f].type = "Invalid"
    BY <1>3, <1>4 DEF Identified
  <2>3. ASSUME NEW f \in Endpoints, NEW g \in Endpoints,
               t.player[f].id # NoPlayer, t.player[f].id = t.player[g].id
        PROVE  f = g
    <3>1. f # e /\ g # e /\ t.player[f] = s.player[f] /\ t.player[g] = s.player[g]
      BY <1>3, <1>4, <2>3
    <3>. QED BY <2>3, <3>1 DEF Identified
  <2>. QED BY <2>1, <2>2, <2>3 DEF Identified
<1>. QED BY <1>3, <1>5, <1>6

(* Whoever leaves the lobby takes its own entry along and, if it was the host, another     *)
(* is host then and everybody is told.                                                     *)
LEMMA LobbyStaysOpen ==
    ASSUME NEW names, NEW drops, NEW s \in Rosters(names), s.fsm = "MPLobby",
           Identified(s), LobbyOpen(s, drops, names), processes = {},
           NEW e \in Endpoints, NEW order, Orderly(order, s),
           LobbyDisconnection(s, e, order).fsm = "MPLobby"
    PROVE  /\ LobbyOpen(LobbyDisconnection(s, e, order), drops, names)
           /\ ListKnown(s) => ListKnown(LobbyDisconnection(s, e, order))
<1>. DEFINE left == Without(s, e)
            chosen == SelectNewHost(left, order)
            hosted == IF PlayerIsHost(s, e) THEN chosen ELSE left
            rest == RemoveEntry(s.lobby, s.player[e].id)
            shorter == [hosted EXCEPT !.lobby = rest]
            update == LobbyData(rest, s.galaxy)
            told == SendTo(shorter, Established(left), update)
            t == LobbyDisconnection(s, e, order)
<1>0. t = IF NoHumansLeft(left) THEN [left EXCEPT !.fsm = "Exited"]
          ELSE IF rest = s.lobby THEN hosted ELSE told
  BY DEF LobbyDisconnection
<1>1. /\ Left(left, s, e, names) /\ left.host = s.host
      /\ left \in Rosters(names) /\ left.fsm = s.fsm /\ left.lobby = s.lobby
  BY DroppedRoster
<1>2. left.down = s.down
  BY Dropped
<1>3. /\ Identified(left)
      /\ \A f \in Endpoints : f # e => left.player[f] = s.player[f]
      /\ left.player[e] = Nobody
      /\ Established(left) = Established(s) \ {e}
  BY <1>1, LeftIdentified
<1>4. order \in Seq(Clients)
  BY DEF Orderly
<1>5. Left(t, s, e, names)
  BY <1>4, LobbyLeft
<1>6. /\ Identified(t)
      /\ \A f \in Endpoints : f # e => t.player[f] = s.player[f]
      /\ t.player[e] = Nobody
      /\ Established(t) = Established(s) \ {e}
  <2>. HIDE DEF t
  <2>. QED BY <1>5, LeftIdentified
<1>7. /\ s.connected \subseteq Clients /\ Clients \subseteq Endpoints /\ Clients \cap AIs = {}
      /\ s.lobby \in Rows(names) /\ s.lobby \in Seq(Entries) /\ s.galaxy \in {0, 1}
      /\ Established(s) \subseteq Clients
  BY RosterRows, EndpointsFinite DEF LobbyOpen, Endpoints, Established
<1>8. PartOf(rest, s.lobby) /\ rest \in Rows(names) /\ rest \in Seq(Entries)
  <2>1. PartOf(rest, s.lobby)
    BY <1>7, RemoveEntryPart
  <2>. HIDE DEF rest
  <2>2. rest \in Rows(names)
    BY <1>7, <2>1, PartOfGood DEF Rows
  <2>. QED BY <2>1, <2>2 DEF Rows
<1>9. \A i \in DOMAIN s.lobby : s.lobby[i].id # s.player[e].id =>
         \E k \in DOMAIN rest : rest[k] = s.lobby[i]
  <2>1. OthersKept(rest, s.lobby, s.player[e].id)
    BY <1>7, RemoveEntryPart
  <2>. HIDE DEF rest
  <2>. QED BY <2>1 DEF OthersKept
<1>. HIDE DEF left, rest
<1>10. ~ NoHumansLeft(left) /\ t = IF rest = s.lobby THEN hosted ELSE told
  BY <1>0, <1>1, RosterRows DEF Servers
<1>. HIDE DEF t
<1>11. \E c \in Established(left) : TRUE
  <2>1. left.connected \in SUBSET Endpoints
    BY <1>1, RosterRows
  <2>2. Cardinality(processes) # Cardinality(Established(left))
    BY <1>10 DEF NoHumansLeft, NumEstablishedPlayers
  <2>3. Established(left) # {}
    BY <2>2
  <2>. QED BY <2>3
<1>12. \E i \in DOMAIN order : order[i] \in Established(left)
                               /\ left.player[order[i]].type \in HumanTypes
  <2>1. PICK c \in Established(left) : TRUE
    BY <1>11
  <2>2. c \in Clients /\ c \in s.connected
    BY <1>3, <1>7 DEF Established
  <2>3. PICK i \in DOMAIN order : order[i] = c
    BY <2>2 DEF Orderly
  <2>4. left.player[c].id # NoPlayer
    BY DEF Established
  <2>5. left.player[c].type \in HumanTypes
    BY <1>3, <1>7, <2>2, <2>4 DEF Identified
  <2>. QED BY <2>1, <2>3, <2>5
<1>13. /\ chosen \in Servers(names) /\ chosen.fsm = left.fsm /\ chosen.connected = left.connected
       /\ chosen.player = left.player /\ chosen.lobby = left.lobby
       /\ \A c \in Clients : chosen.down[c] =
             IF c \in left.connected /\ left.player[c].id # left.host
             THEN Append(left.down[c], [type |-> "HostID", id |-> chosen.host])
             ELSE left.down[c]
       /\ \E c \in Established(left) : left.player[c].id = chosen.host
  <2>1. left \in Servers(names)
    BY <1>1, RosterRows
  <2>. QED BY <1>4, <1>12, <2>1, HostSelected
<1>14. chosen.host \in Int
  BY <1>13 DEF Servers
<1>. HIDE DEF chosen
<1>15. /\ hosted \in Servers(names)
       /\ hosted.connected = left.connected /\ hosted.player = left.player
       /\ hosted.lobby = s.lobby
  BY <1>1, <1>13, RosterRows
(* Whoever hosts now is established, and those who are know it.                             *)
<1>16. \E c \in Established(left) : left.player[c].id = hosted.host
  <2>1. CASE PlayerIsHost(s, e)
    BY <1>13, <2>1
  <2>2. CASE ~ PlayerIsHost(s, e)
    <3>1. PICK c \in Established(s) : s.player[c].id = s.host
      BY DEF LobbyOpen, HasHost
    <3>2. s.player[c].id # NoPlayer /\ c # e /\ c \in Endpoints
      BY <1>7, <2>2, <3>1 DEF PlayerIsHost, Established
    <3>. QED BY <1>1, <1>3, <2>2, <3>1, <3>2
  <2>. QED BY <2>1, <2>2
<1>17. ASSUME NEW c \in Established(left), client[c] \in Waiting \cup {"MPLobby"}
       PROVE  /\ KnowsHost(hosted.down[c], client[c], hostId[c], hosted.host)
              /\ \A l, own : KnowsList(s.down[c], client[c], own, l) =>
                             KnowsList(hosted.down[c], client[c], own, l)
  <2>1. c \in Established(s) /\ c # e /\ c \in Clients /\ c \in Endpoints
    BY <1>3, <1>7, <1>17
  <2>2. KnowsHost(s.down[c], client[c], hostId[c], s.host)
    BY <1>17, <2>1 DEF LobbyOpen, HostKnown
  <2>3. s.down[c] \in Seq(ServerMessages(names))
    BY <2>1, RosterRows
  <2>4. CASE PlayerIsHost(s, e)
    <3>1. s.player[c].id # s.host
      BY <1>7, <2>1, <2>4 DEF PlayerIsHost, Identified
    <3>2. c \in left.connected /\ left.player[c].id # left.host
      BY <1>1, <1>3, <2>1, <3>1 DEF Established
    <3>. DEFINE m == [type |-> "HostID", id |-> chosen.host]
    <3>3. hosted.down[c] = Append(s.down[c], m) /\ hosted.host = chosen.host
      BY <1>2, <1>13, <2>1, <2>4, <3>2
    <3>4. m \in ServerMessages(names) /\ m.type = "HostID" /\ m.id = chosen.host
      BY <1>14 DEF ServerMessages
    <3>. HIDE DEF m, hosted
    <3>5. KnowsHost(Append(s.down[c], m), client[c], hostId[c], m.id)
      BY <2>2, <2>3, <3>4, NewHost
    <3>6. \A state, own, l : KnowsList(s.down[c], state, own, l) =>
                             KnowsList(Append(s.down[c], m), state, own, l)
      BY <2>3, <3>4, OtherList
    <3>. QED BY <3>3, <3>4, <3>5, <3>6
  <2>5. CASE ~ PlayerIsHost(s, e)
    <3>1. hosted.down[c] = s.down[c] /\ hosted.host = s.host
      BY <1>1, <1>2, <2>5
    <3>. QED BY <2>2, <3>1
  <2>. QED BY <2>4, <2>5
<1>. HIDE DEF hosted
<1>18. /\ shorter \in Servers(names) /\ shorter.lobby = rest /\ shorter.host = hosted.host
       /\ shorter.connected = hosted.connected /\ shorter.player = hosted.player
       /\ shorter.down = hosted.down
  BY <1>8, <1>15 DEF Servers
<1>19. update \in ServerMessages(names) /\ update.type = "LobbyUpdate" /\ update.players = rest
  BY <1>7, <1>8 DEF ServerMessages, Updates, LobbyData
<1>. HIDE DEF shorter, update
<1>20. /\ told.host = hosted.host /\ told.lobby = rest
       /\ \A c \in Clients : told.down[c] = IF c \in Established(left)
                                            THEN Append(hosted.down[c], update) ELSE hosted.down[c]
  BY <1>18, <1>19, Sent
<1>. HIDE DEF told
<1>21. t.host = hosted.host /\ t.lobby = rest
  BY <1>10, <1>15, <1>20
<1>22. ASSUME NEW c \in Established(t), client[c] \in Waiting \cup {"MPLobby"}
       PROVE  /\ KnowsHost(t.down[c], client[c], hostId[c], t.host)
              /\ \A own : KnowsList(s.down[c], client[c], own, s.lobby) =>
                    KnowsList(t.down[c], client[c], own, t.lobby)
  <2>1. c \in Established(left) /\ c \in Clients
    BY <1>3, <1>6, <1>7
  <2>2. /\ KnowsHost(hosted.down[c], client[c], hostId[c], hosted.host)
        /\ \A l, own : KnowsList(s.down[c], client[c], own, l) =>
                       KnowsList(hosted.down[c], client[c], own, l)
    BY <1>17, <1>22, <2>1
  <2>3. CASE rest = s.lobby
    <3>1. t.down = hosted.down /\ t.lobby = s.lobby
      BY <1>10, <1>21, <2>3
    <3>. QED BY <1>21, <2>2, <3>1
  <2>4. CASE rest # s.lobby
    <3>1. t.down[c] = Append(hosted.down[c], update)
      BY <1>10, <1>20, <2>1, <2>4
    <3>2. hosted.down[c] \in Seq(ServerMessages(names))
      BY <1>15, <2>1 DEF Servers
    <3>3. update.type \notin HostNews \cup AckNews
      BY <1>19 DEF HostNews, AckNews
    <3>4. KnowsHost(Append(hosted.down[c], update), client[c], hostId[c], hosted.host)
      BY <1>19, <2>2, <3>2, <3>3, OtherNews
    <3>5. \A own : KnowsList(Append(hosted.down[c], update), client[c], own, update.players)
      BY <1>19, <3>2, NewList
    <3>. QED BY <1>19, <1>21, <3>1, <3>4, <3>5
  <2>. QED BY <2>3, <2>4
<1>23. LobbyOpen(t, drops, names)
  <2>1. t.connected \subseteq Clients
    BY <1>5, <1>7 DEF Left
  <2>2. t.lobby \in Rows(names)
    BY <1>8, <1>21
  <2>3. HasHost(t)
    <3>1. PICK c \in Established(left) : left.player[c].id = hosted.host
      BY <1>16
    <3>2. c \in Established(t) /\ c # e /\ c \in Endpoints
      BY <1>3, <1>6, <1>7
    <3>. QED BY <1>3, <1>6, <1>21, <3>1, <3>2 DEF HasHost
  <2>4. Listed(t, drops)
    <3>1. ASSUME NEW f \in Established(t) \ drops
          PROVE  \E i \in DOMAIN t.lobby : /\ t.lobby[i].id = t.player[f].id
                                           /\ t.lobby[i].type # "Invalid"
      <4>1. f \in Established(s) \ drops /\ f # e /\ f \in Endpoints /\ t.player[f] = s.player[f]
        BY <1>6, <1>7
      <4>2. PICK i \in DOMAIN s.lobby : s.lobby[i].id = s.player[f].id /\ s.lobby[i].type # "Invalid"
        BY <4>1 DEF LobbyOpen, Listed
      <4>3. s.lobby[i].id # s.player[e].id
        BY <4>1, <4>2 DEF Identified, Established
      <4>4. PICK k \in DOMAIN rest : rest[k] = s.lobby[i]
        BY <1>9, <4>3
      <4>. QED BY <1>21, <4>1, <4>2, <4>4
    <3>. QED BY <3>1 DEF Listed
  <2>5. HostKnown(t)
    BY <1>22 DEF HostKnown
  <2>. QED BY <2>1, <2>2, <2>3, <2>4, <2>5 DEF LobbyOpen
<1>24. ASSUME ListKnown(s) PROVE ListKnown(t)
  <2>1. ASSUME NEW c \in Established(t) \cap Clients, client[c] \in Waiting \cup {"MPLobby"}
        PROVE  KnowsList(t.down[c], client[c], copy[c].players = t.lobby \/ SentLast(c), t.lobby)
    <3>1. c \in Established(s) \cap Clients
      BY <1>6
    <3>2. KnowsList(s.down[c], client[c], copy[c].players = s.lobby \/ SentLast(c), s.lobby)
      BY <1>24, <2>1, <3>1 DEF ListKnown
    <3>3. KnowsList(t.down[c], client[c], copy[c].players = s.lobby \/ SentLast(c), t.lobby)
      BY <1>22, <2>1, <3>2
    <3>4. CASE rest = s.lobby
      BY <1>21, <3>3, <3>4
    <3>5. CASE rest # s.lobby
      <4>1. t.down[c] = Append(hosted.down[c], update)
        BY <1>3, <1>6, <1>10, <1>20, <2>1, <3>5
      <4>2. hosted.down[c] \in Seq(ServerMessages(names))
        BY <1>15, <2>1 DEF Servers
      <4>3. \A own : KnowsList(Append(hosted.down[c], update), client[c], own, update.players)
        BY <1>19, <4>2, NewList
      <4>. QED BY <1>19, <1>21, <4>1, <4>3
    <3>. QED BY <3>4, <3>5
  <2>. QED BY <2>1 DEF ListKnown
<1>. QED BY <1>23, <1>24 DEF t

(* Messages that are neither about hosts nor about lists change nothing of it.              *)
LEMMA SentOther ==
    ASSUME NEW names, NEW drops, NEW s \in Servers(names), NEW R,
           NEW m \in ServerMessages(names), m.type \notin HostNews \cup AckNews,
           m.type # "LobbyUpdate"
    PROVE  /\ LobbyOpen(s, drops, names) => LobbyOpen(SendTo(s, R, m), drops, names)
           /\ ListKnown(s) => ListKnown(SendTo(s, R, m))
           /\ Identified(s) => Identified(SendTo(s, R, m))
<1>. DEFINE t == SendTo(s, R, m)
<1>1. /\ t.fsm = s.fsm /\ t.connected = s.connected /\ t.player = s.player /\ t.host = s.host
      /\ t.lobby = s.lobby
      /\ \A c \in Clients : t.down[c] = IF c \in R THEN Append(s.down[c], m) ELSE s.down[c]
  BY Sent
<1>. HIDE DEF t
<1>2. Established(t) = Established(s)
  BY <1>1 DEF Established
<1>3. ASSUME NEW c \in Clients, NEW state, NEW own, NEW h, KnowsHost(s.down[c], state, own, h)
      PROVE  KnowsHost(t.down[c], state, own, h)
  <2>1. s.down[c] \in Seq(ServerMessages(names))
    BY DEF Servers
  <2>2. KnowsHost(Append(s.down[c], m), state, own, h)
    BY <1>3, <2>1, OtherNews
  <2>. QED BY <1>1, <1>3, <2>2
<1>4. ASSUME NEW c \in Clients, NEW state, NEW own, NEW l, KnowsList(s.down[c], state, own, l)
      PROVE  KnowsList(t.down[c], state, own, l)
  <2>1. s.down[c] \in Seq(ServerMessages(names))
    BY DEF Servers
  <2>2. KnowsList(Append(s.down[c], m), state, own, l)
    BY <1>4, <2>1, OtherList
  <2>. QED BY <1>1, <1>4, <2>2
<1>5. LobbyOpen(s, drops, names) => LobbyOpen(t, drops, names)
  BY <1>1, <1>2, <1>3 DEF LobbyOpen, HasHost, Listed, HostKnown
<1>6. ListKnown(s) => ListKnown(t)
  BY <1>1, <1>2, <1>4 DEF ListKnown
<1>7. Identified(s) => Identified(t)
  BY <1>1 DEF Identified
<1>. QED BY <1>5, <1>6, <1>7 DEF t

LEMMA LobbyDisconnects ==
    ASSUME NEW names, NEW drops, NEW s \in Rosters(names), s.fsm = "MPLobby",
           Identified(s), LobbyOpen(s, drops, names), processes = {},
           NEW e \in Endpoints, NEW order, Orderly(order, s),
           Disconnect(s, e, order).fsm = "MPLobby"
    PROVE  /\ LobbyOpen(Disconnect(s, e, order), drops, names)
           /\ ListKnown(s) => ListKnown(Disconnect(s, e, order))
<1>. DEFINE m == [type |-> "Closed"]
            x == SendTo(s, {e}, m)
<1>1. /\ m \in ServerMessages(names) /\ m.type # "LobbyUpdate"
      /\ m.type \notin HostNews \cup AckNews
  BY DEF ServerMessages, HostNews, AckNews
<1>2. Disconnect(s, e, order) = Disconnection(x, e, order)
  BY DEF Disconnect
<1>. HIDE DEF m
<1>3. s \in Servers(names)
  BY RosterRows
<1>4. x \in Rosters(names)
  BY <1>1, SentRoster
<1>5. x.fsm = s.fsm /\ x.connected = s.connected
  BY <1>1, <1>3, Sent
<1>6. /\ LobbyOpen(x, drops, names) /\ Identified(x)
      /\ ListKnown(s) => ListKnown(x)
  BY <1>1, <1>3, SentOther
<1>. HIDE DEF x
<1>7. Disconnection(x, e, order) = LobbyDisconnection(x, e, order)
  BY <1>5 DEF Disconnection
<1>8. Orderly(order, x)
  BY <1>5 DEF Orderly
<1>9. /\ LobbyOpen(LobbyDisconnection(x, e, order), drops, names)
      /\ ListKnown(x) => ListKnown(LobbyDisconnection(x, e, order))
  BY <1>2, <1>4, <1>5, <1>6, <1>7, <1>8, LobbyStaysOpen
<1>. QED BY <1>2, <1>6, <1>7, <1>9

(* While some of the clients of a list are dropped one after the other.                       *)
DroppedSoFar(t, s, drops, gone, names) ==
    /\ t \in Rosters(names)
    /\ Identified(t) /\ Strangers(t)
    /\ t.fsm \in {"MPLobby", "Exited"}
    /\ t.connected = s.connected \ gone
    /\ Established(t) = Established(s) \ gone
    /\ \A f \in Endpoints \ gone : t.player[f] = s.player[f]
    /\ t.fsm = "MPLobby" => LobbyOpen(t, drops, names)
    /\ t.galaxy = s.galaxy
    /\ PartOf(t.lobby, s.lobby)
    /\ drops = {} => t = s

LEMMA DropStep ==
    ASSUME NEW names, NEW drops, NEW s, NEW order, Orderly(order, s), processes = {},
           NEW gone, NEW t, DroppedSoFar(t, s, drops, gone, names), NEW e \in Endpoints
    PROVE  DroppedSoFar(IF e \in drops THEN Disconnect(t, e, order) ELSE t, s, drops,
                        IF e \in drops THEN gone \cup {e} ELSE gone, names)
<1>1. CASE e \notin drops
  BY <1>1
<1>2. CASE e \in drops
  <2>. DEFINE u == Disconnect(t, e, order)
  <2>1. /\ t \in Rosters(names) /\ Identified(t) /\ Strangers(t)
        /\ t.fsm \in {"MPLobby", "Exited"} /\ t.connected = s.connected \ gone
        /\ Established(t) = Established(s) \ gone
        /\ \A f \in Endpoints \ gone : t.player[f] = s.player[f]
        /\ PartOf(t.lobby, s.lobby) /\ t.galaxy = s.galaxy
    BY DEF DroppedSoFar
  <2>2. order \in Seq(Clients) /\ Orderly(order, t)
    BY <2>1 DEF Orderly
  <2>3. Left(u, t, e, names)
    BY <2>1, <2>2, DisconnectLeaves
  <2>4. u.fsm = "MPLobby" => LobbyOpen(u, drops, names)
    <3>1. ASSUME u.fsm = "MPLobby" PROVE LobbyOpen(u, drops, names)
      <4>1. t.fsm = "MPLobby"
        BY <2>3, <3>1 DEF Left
      <4>2. LobbyOpen(t, drops, names)
        BY <4>1 DEF DroppedSoFar
      <4>. QED BY <2>1, <2>2, <3>1, <4>1, <4>2, LobbyDisconnects
    <3>. QED BY <3>1
  <2>. HIDE DEF u
  <2>5. /\ Identified(u)
        /\ \A f \in Endpoints : f # e => u.player[f] = t.player[f]
        /\ Established(u) = Established(t) \ {e}
    BY <2>1, <2>3, LeftIdentified
  <2>6. /\ u \in Rosters(names) /\ Strangers(u) /\ u.fsm \in {"MPLobby", "Exited"}
        /\ u.connected = s.connected \ (gone \cup {e}) /\ u.galaxy = s.galaxy
    BY <2>1, <2>3 DEF Left
  <2>7. PartOf(u.lobby, s.lobby)
    BY <2>1, <2>3, PartOfPart DEF Left
  <2>8. DroppedSoFar(u, s, drops, gone \cup {e}, names)
    BY <1>2, <2>1, <2>4, <2>5, <2>6, <2>7 DEF DroppedSoFar
  <2>. QED BY <1>2, <2>8 DEF u
<1>. QED BY <1>1, <1>2

LEMMA AllDropped ==
    ASSUME NEW names, NEW drops \in SUBSET Clients, NEW s \in Rosters(names), s.fsm = "MPLobby",
           Identified(s), Strangers(s), LobbyOpen(s, drops, names), processes = {},
           NEW order, Orderly(order, s), drops \subseteq s.connected
    PROVE  DroppedSoFar(DisconnectAll(s, drops, order), s, drops, drops, names)
<1>. DEFINE n == Len(order)
            S == Rosters(names)
            step == [x \in (1..n) \X S |->
                       IF order[x[1]] \in drops THEN Disconnect(x[2], order[x[1]], order)
                                                ELSE x[2]]
            Body(f) == [i \in 0..n |-> IF i = 0 THEN s
                                       ELSE IF order[i] \in drops
                                       THEN Disconnect(f[i - 1], order[i], order)
                                       ELSE f[i - 1]]
<1>1. n \in Nat /\ order \in Seq(Clients) /\ \A i \in 1..n : order[i] \in Clients /\ order[i] \in Endpoints
  BY DEF Orderly, Endpoints
<1>2. s \in S /\ step \in [(1..n) \X S -> S]
  <2>1. \A r \in S, e \in Endpoints : Disconnect(r, e, order) \in S
    BY <1>1, DisconnectLeaves DEF Left
  <2>2. \A x \in (1..n) \X S : x[2] \in S /\ x[1] \in 1..n
    OBVIOUS
  <2>. HIDE DEF S, n
  <2>3. \A x \in (1..n) \X S :
          (IF order[x[1]] \in drops THEN Disconnect(x[2], order[x[1]], order) ELSE x[2]) \in S
    BY <1>1, <2>1, <2>2
  <2>4. step \in [(1..n) \X S -> S]
    BY <2>3
  <2>. QED BY <2>4 DEF S
<1>3. PICK g : Iterates(g, n, S, s, step)
  <2>. HIDE DEF step, n, S
  <2>. QED BY <1>1, <1>2, IterationExists
<1>4. /\ g = [i \in 0..n |-> g[i]] /\ g[0] = s
      /\ \A i \in 1..n : g[i] = IF order[i] \in drops
                                THEN Disconnect(g[i - 1], order[i], order)
                                ELSE g[i - 1]
  <2>1. /\ g = [i \in 0..n |-> g[i]] /\ g[0] = s
        /\ \A i \in 1..n : g[i - 1] \in S /\ g[i] = step[<<i, g[i - 1]>>]
    <3>. HIDE DEF step, n, S
    <3>. QED BY <1>1, <1>3 DEF Iterates
  <2>. HIDE DEF S, n
  <2>. QED BY <2>1
<1>5. \E f : f = Body(f)
  <2>. HIDE DEF step, n, S
  <2>1. \A i \in 0..n : i = 0 \/ i \in 1..n
    BY <1>1
  <2>2. \A i \in 0..n : g[i] = IF i = 0 THEN s
                               ELSE IF order[i] \in drops
                               THEN Disconnect(g[i - 1], order[i], order)
                               ELSE g[i - 1]
    BY <2>1, <1>4
  <2>3. g = Body(g)
    BY <1>4, <2>2
  <2>. HIDE DEF Body
  <2>. QED BY <2>3
<1>. DEFINE h == CHOOSE f : f = Body(f)
<1>6. h = Body(h)
  <2>. HIDE DEF Body
  <2>. QED BY <1>5
<1>7. DisconnectAll(s, drops, order) = h[n]
  BY DEF DisconnectAll
<1>. HIDE DEF h
<1>8. /\ h[0] = s
      /\ \A i \in 1..n : h[i] = IF order[i] \in drops
                                THEN Disconnect(h[i - 1], order[i], order)
                                ELSE h[i - 1]
  <2>. HIDE DEF step, n, S
  <2>1. \A i \in 0..n : h[i] = IF i = 0 THEN s
                               ELSE IF order[i] \in drops
                               THEN Disconnect(h[i - 1], order[i], order)
                               ELSE h[i - 1]
    BY <1>6
  <2>2. 0 \in 0..n /\ \A i \in 1..n : i \in 0..n /\ i # 0
    BY <1>1
  <2>. QED BY <2>1, <2>2
<1>. HIDE DEF step, Body, S
<1>. DEFINE Gone(k) == {order[i] : i \in 1..k} \cap drops
            T == {k \in 0..n : DroppedSoFar(h[k], s, drops, Gone(k), names)}
<1>9. 0 \in T
  <2>1. Gone(0) = {}
    OBVIOUS
  <2>2. DroppedSoFar(s, s, drops, {}, names)
    <3>1. s.lobby \in Seq(Entries)
      BY RosterRows
    <3>2. PartOf(s.lobby, s.lobby)
      BY <3>1, PartOfItself
    <3>3. s.connected = s.connected \ {} /\ Established(s) = Established(s) \ {}
      OBVIOUS
    <3>. QED BY <3>2, <3>3 DEF DroppedSoFar
  <2>3. 0 \in 0..n
    BY <1>1
  <2>. HIDE DEF Gone
  <2>4. h[0] = s
    BY <1>8
  <2>5. DroppedSoFar(h[0], s, drops, Gone(0), names)
    BY <2>1, <2>2, <2>4
  <2>. QED BY <2>3, <2>5
<1>10. ASSUME NEW k \in 0..n - 1, k \in T PROVE k + 1 \in T
  <2>1. k + 1 \in 1..n /\ (k + 1) - 1 = k /\ k + 1 \in 0..n
    OBVIOUS
  <2>. DEFINE e == order[k + 1]
  <2>2. h[k + 1] = IF e \in drops THEN Disconnect(h[k], e, order) ELSE h[k]
    BY <1>8, <2>1
  <2>3. DroppedSoFar(h[k], s, drops, Gone(k), names)
    BY <1>10
  <2>4. Gone(k + 1) = IF e \in drops THEN Gone(k) \cup {e} ELSE Gone(k)
    <3>0. k \in Nat
      BY <1>1
    <3>1. \A i \in 1..k + 1 : i \in 1..k \/ i = k + 1
      BY <3>0
    <3>2. \A i \in 1..k : i \in 1..k + 1
      BY <3>0
    <3>3. k + 1 \in 1..k + 1
      BY <3>0
    <3>4. {order[i] : i \in 1..k + 1} = {order[i] : i \in 1..k} \cup {e}
      BY <3>1, <3>2, <3>3
    <3>. QED BY <3>4
  <2>5. e \in Endpoints
    BY <1>1, <2>1
  <2>. HIDE DEF e, Gone
  <2>6. DroppedSoFar(IF e \in drops THEN Disconnect(h[k], e, order) ELSE h[k], s, drops,
                     IF e \in drops THEN Gone(k) \cup {e} ELSE Gone(k), names)
    BY <2>3, <2>5, DropStep
  <2>7. DroppedSoFar(h[k + 1], s, drops, Gone(k + 1), names)
    BY <2>2, <2>4, <2>6
  <2>. QED BY <2>1, <2>7
<1>11. n \in T
  <2>. HIDE DEF T, n
  <2>1. 0..n \subseteq T
    BY <1>1, <1>9, <1>10, NatSetInduction
  <2>. QED BY <1>1, <2>1
<1>12. Gone(n) = drops
  <2>1. DOMAIN order = 1..n
    BY <1>1
  <2>2. \A c \in drops : \E i \in 1..n : order[i] = c
    BY <2>1 DEF Orderly
  <2>. QED BY <2>2
<1>. HIDE DEF Gone
<1>. QED BY <1>7, <1>11, <1>12

-----------------------------------------------------------------------------
(* What a message that is read leaves on its way.                                              *)

LEMMA RowsGrow ==
    ASSUME NEW names, NEW more, names \subseteq more
    PROVE  /\ Rows(names) \subseteq Rows(more)
           /\ ServerMessages(names) \subseteq ServerMessages(more)
           /\ ClientMessages(names) \subseteq ClientMessages(more)
           /\ Servers(names) \subseteq Servers(more)
           /\ Rosters(names) \subseteq Rosters(more)
<1>1. Rows(names) \subseteq Rows(more)
  BY DEF Rows, GoodRows
<1>2. Updates(names) \subseteq Updates(more)
  BY <1>1 DEF Updates
<1>3. ServerMessages(names) \subseteq ServerMessages(more)
  BY <1>2 DEF ServerMessages
<1>4. ClientMessages(names) \subseteq ClientMessages(more)
  BY <1>2 DEF ClientMessages
<1>5. Servers(names) \subseteq Servers(more)
  <2>. SUFFICES ASSUME NEW s \in Servers(names) PROVE s \in Servers(more)
    OBVIOUS
  <2>. DEFINE D == [Clients -> Seq(ServerMessages(names))]
              E == [Clients -> Seq(ServerMessages(more))]
  <2>1. s.down \in E
    <3>1. s.down \in D
      BY DEF Servers
    <3>2. \A q \in Seq(ServerMessages(names)) : q \in Seq(ServerMessages(more))
      BY <1>3, SeqMonotonic
    <3>. QED BY <3>1, <3>2
  <2>. HIDE DEF E
  <2>. QED BY <2>1 DEF Servers, E
<1>6. Rosters(names) \subseteq Rosters(more)
  BY <1>1, <1>5 DEF Rosters
<1>. QED BY <1>1, <1>3, <1>4, <1>5, <1>6

LEMMA Becomes ==
    ASSUME NEW names, NEW s \in Servers(names), Become(s)
    PROVE  Server' = s
<1>1. /\ fsm' = s.fsm /\ single' = s.single /\ connected' = s.connected
      /\ player' = s.player /\ host' = s.host /\ lobby' = s.lobby
      /\ galaxy' = s.galaxy /\ begun' = s.begun /\ down' = s.down
  BY DEF Become
<1>2. s = [fsm |-> s.fsm, single |-> s.single, connected |-> s.connected, player |-> s.player,
           host |-> s.host, lobby |-> s.lobby, galaxy |-> s.galaxy, begun |-> s.begun,
           down |-> s.down]
  BY DEF Servers
<1>. QED BY <1>1, <1>2 DEF Server

LEMMA ReadLeaves ==
    ASSUME NEW M, up \in [Endpoints -> Seq(M)], NEW e \in Endpoints, up[e] # <<>>, Read(e, connected')
    PROVE  /\ up' \in [Endpoints -> Seq(M)]
           /\ \A x \in Endpoints : x \notin connected' => up'[x] = <<>>
           /\ \A x \in Endpoints : x \in connected' /\ x # e => up'[x] = up[x]
           /\ e \in connected' => up'[e] = Tail(up[e])
           /\ \A x \in Endpoints : up[x] = <<>> => up'[x] = <<>>
           /\ \A x \in Endpoints : \A i \in DOMAIN up'[x] :
                 IF x = e THEN i + 1 \in DOMAIN up[e] /\ i + 1 # 1 /\ up'[e][i] = up[e][i + 1]
                 ELSE i \in DOMAIN up[x] /\ up'[x][i] = up[x][i]
<1>1. /\ Tail(up[e]) \in Seq(M) /\ Len(Tail(up[e])) = Len(up[e]) - 1
      /\ \A i \in 1..Len(up[e]) - 1 : Tail(up[e])[i] = up[e][i + 1]
      /\ Len(up[e]) \in Nat /\ DOMAIN up[e] = 1..Len(up[e])
      /\ DOMAIN Tail(up[e]) = 1..Len(up[e]) - 1
  OBVIOUS
<1>2. \A x \in Endpoints : up'[x] = IF x \notin connected' THEN <<>>
                                    ELSE IF x = e THEN Tail(up[x]) ELSE up[x]
  BY DEF Read
<1>3. up' \in [Endpoints -> Seq(M)]
  <2>1. ASSUME NEW x \in Endpoints PROVE up'[x] \in Seq(M)
    <3>1. up[x] \in Seq(M) /\ <<>> \in Seq(M)
      OBVIOUS
    <3>2. Tail(up[e]) \in Seq(M)
      BY <1>1
    <3>. HIDE DEF Read
    <3>. QED BY <1>2, <3>1, <3>2
  <2>2. up' = [x \in Endpoints |-> up'[x]]
    BY DEF Read
  <2>. QED BY <2>1, <2>2
<1>4. ASSUME NEW x \in Endpoints, NEW i \in DOMAIN up'[x]
      PROVE  IF x = e THEN i + 1 \in DOMAIN up[e] /\ i + 1 # 1 /\ up'[e][i] = up[e][i + 1]
             ELSE i \in DOMAIN up[x] /\ up'[x][i] = up[x][i]
  <2>1. DOMAIN <<>> = {}
    OBVIOUS
  <2>2. x \in connected'
    BY <1>2, <1>4, <2>1
  <2>3. CASE x = e
    <3>1. i \in 1..Len(up[e]) - 1 /\ up'[e] = Tail(up[e])
      BY <1>1, <1>2, <1>4, <2>2, <2>3
    <3>2. i + 1 \in 1..Len(up[e]) /\ i + 1 # 1
      BY <1>1, <3>1
    <3>. QED BY <1>1, <2>3, <3>1, <3>2
  <2>4. CASE x # e
    BY <1>2, <1>4, <2>2, <2>4
  <2>. QED BY <2>3, <2>4
<1>. QED BY <1>2, <1>3, <1>4

(* How many unnamed AIs are on their way.                                                       *)
IsUnnamed(m) == m.type = "LobbyUpdate" /\ HasUnnamed(m.players)

Way(u) == {m \in UNION {{c} \X DOMAIN u[c] : c \in Clients} : IsUnnamed(u[m[1]][m[2]])}

LEMMA OnTheWay == OnTheirWay = Way(up) /\ OnTheirWay' = Way(up')
BY DEF OnTheirWay, Way, IsUnnamed

LEMMA WayFinite ==
    ASSUME NEW M, NEW u \in [Endpoints -> Seq(M)]
    PROVE  /\ IsFiniteSet(Way(u))
           /\ Cardinality(Way(u)) \in Nat
           /\ \A m : m \in Way(u) <=> \E c \in Clients : \E i \in DOMAIN u[c] :
                                            m = <<c, i>> /\ IsUnnamed(u[c][i])
<1>. DEFINE F(c) == {c} \X DOMAIN u[c]
            All == {F(c) : c \in Clients}
<1>1. IsFiniteSet(All)
  <2>. DEFINE f == [c \in Clients |-> F(c)]
  <2>1. f \in Surjection(Clients, All)
    BY DEF Surjection
  <2>. HIDE DEF f, All
  <2>. QED BY <2>1, EndpointsAssumption, FS_Surjection
<1>2. ASSUME NEW S \in All PROVE IsFiniteSet(S)
  <2>1. PICK c \in Clients : S = F(c)
    OBVIOUS
  <2>2. u[c] \in Seq(M)
    BY DEF Endpoints
  <2>3. DOMAIN u[c] = 1..Len(u[c]) /\ Len(u[c]) \in Nat
    BY <2>2
  <2>4. IsFiniteSet(DOMAIN u[c])
    BY <2>3, FS_Interval
  <2>5. IsFiniteSet({c})
    BY FS_Singleton
  <2>. QED BY <2>1, <2>4, <2>5, FS_Product
<1>3. IsFiniteSet(UNION All)
  <2>. HIDE DEF All
  <2>. QED BY <1>1, <1>2, FS_UNION
<1>4. Way(u) \subseteq UNION All
  BY DEF Way
<1>5. IsFiniteSet(Way(u)) /\ Cardinality(Way(u)) \in Nat
  <2>. HIDE DEF All
  <2>1. IsFiniteSet(Way(u))
    BY <1>3, <1>4, FS_Subset
  <2>. QED BY <2>1, FS_CardinalityType
<1>6. ASSUME NEW m
      PROVE  m \in Way(u) <=> \E c \in Clients : \E i \in DOMAIN u[c] :
                                     m = <<c, i>> /\ IsUnnamed(u[c][i])
  BY DEF Way, IsUnnamed
<1>. QED BY <1>5, <1>6

(* A list that is read is not on its way any more; the others move up.                          *)
LEMMA WayRead ==
    ASSUME NEW M, up \in [Endpoints -> Seq(M)], NEW e \in Endpoints, up[e] # <<>>, Read(e, connected')
    PROVE  /\ Cardinality(OnTheirWay') <= Cardinality(OnTheirWay)
           /\ e \in Clients /\ IsUnnamed(Head(up[e])) =>
                 Cardinality(OnTheirWay') <= Cardinality(OnTheirWay) - 1
<1>. DEFINE W == Way(up)
            V == Way(up')
            f == [m \in V |-> IF m[1] = e THEN <<e, m[2] + 1>> ELSE m]
<1>1. /\ up' \in [Endpoints -> Seq(M)]
      /\ \A x \in Endpoints : \A i \in DOMAIN up'[x] :
            IF x = e THEN i + 1 \in DOMAIN up[e] /\ i + 1 # 1 /\ up'[e][i] = up[e][i + 1]
            ELSE i \in DOMAIN up[x] /\ up'[x][i] = up[x][i]
  BY ReadLeaves
<1>2. /\ IsFiniteSet(W) /\ Cardinality(W) \in Nat
      /\ \A m : m \in W <=> \E c \in Clients : \E i \in DOMAIN up[c] :
                               m = <<c, i>> /\ IsUnnamed(up[c][i])
  BY WayFinite
<1>3. /\ IsFiniteSet(V) /\ Cardinality(V) \in Nat
      /\ \A m : m \in V <=> \E c \in Clients : \E i \in DOMAIN up'[c] :
                               m = <<c, i>> /\ IsUnnamed(up'[c][i])
  BY <1>1, WayFinite
<1>. HIDE DEF W, V
<1>4. Clients \subseteq Endpoints
  BY DEF Endpoints
<1>5. ASSUME NEW m \in V PROVE f[m] \in W /\ f[m] # <<e, 1>> /\ m[2] \in Nat
  <2>0. PICK c \in Clients : \E i \in DOMAIN up'[c] : m = <<c, i>> /\ IsUnnamed(up'[c][i])
    BY <1>3
  <2>1. PICK i \in DOMAIN up'[c] : m = <<c, i>> /\ IsUnnamed(up'[c][i])
    BY <2>0
  <2>2. i \in Nat
    <3>1. up'[c] \in Seq(M)
      BY <1>1, <1>4
    <3>. QED BY <3>1
  <2>3. CASE c = e
    <3>1. i + 1 \in DOMAIN up[e] /\ i + 1 # 1 /\ up'[e][i] = up[e][i + 1]
      BY <1>1, <1>4, <2>1, <2>3
    <3>2. f[m] = <<e, i + 1>>
      BY <2>1, <2>3
    <3>3. <<e, i + 1>> \in W
      BY <1>2, <2>1, <2>3, <3>1
    <3>. QED BY <2>1, <2>2, <3>1, <3>2, <3>3
  <2>4. CASE c # e
    <3>1. i \in DOMAIN up[c] /\ up'[c][i] = up[c][i]
      BY <1>1, <1>4, <2>1, <2>4
    <3>2. f[m] = <<c, i>>
      BY <2>1, <2>4
    <3>3. <<c, i>> \in W
      BY <1>2, <2>1, <3>1
    <3>. QED BY <2>1, <2>2, <2>4, <3>2, <3>3
  <2>. QED BY <2>3, <2>4
<1>6. ASSUME NEW m \in V, NEW n \in V, f[m] = f[n] PROVE m = n
  <2>01. PICK c \in Clients : \E i \in DOMAIN up'[c] : m = <<c, i>>
    BY <1>3
  <2>1. PICK i \in DOMAIN up'[c] : m = <<c, i>>
    BY <2>01
  <2>02. PICK d \in Clients : \E j \in DOMAIN up'[d] : n = <<d, j>>
    BY <1>3
  <2>2. PICK j \in DOMAIN up'[d] : n = <<d, j>>
    BY <2>02
  <2>3. i \in Nat /\ j \in Nat
    BY <1>5, <2>1, <2>2
  <2>4. f[m] = IF c = e THEN <<e, i + 1>> ELSE <<c, i>>
    BY <2>1
  <2>5. f[n] = IF d = e THEN <<e, j + 1>> ELSE <<d, j>>
    BY <2>2
  <2>. HIDE DEF f
  <2>. QED BY <1>6, <2>1, <2>2, <2>3, <2>4, <2>5
<1>7. f \in Injection(V, W)
  <2>1. f \in [V -> W]
    <3>1. \A m \in V : f[m] \in W
      BY <1>5
    <3>. HIDE DEF f
    <3>2. f = [m \in V |-> f[m]]
      BY DEF f
    <3>. QED BY <3>1, <3>2
  <2>. HIDE DEF f
  <2>. QED BY <1>6, <2>1 DEF Injection, IsInjective
<1>8. Cardinality(V) <= Cardinality(W)
  <2>. HIDE DEF f
  <2>. QED BY <1>2, <1>7, FS_Injection
<1>9. ASSUME e \in Clients, IsUnnamed(Head(up[e])) PROVE Cardinality(V) <= Cardinality(W) - 1
  <2>. DEFINE w == <<e, 1>>
              X == W \ {w}
  <2>1. w \in W
    <3>1. up[e] \in Seq(M)
      OBVIOUS
    <3>2. 1 \in DOMAIN up[e] /\ Head(up[e]) = up[e][1]
      BY <3>1
    <3>. QED BY <1>2, <1>9, <3>2
  <2>2. IsFiniteSet(X) /\ Cardinality(X) = Cardinality(W) - 1
    <3>. HIDE DEF w
    <3>. QED BY <1>2, <2>1, FS_RemoveElement
  <2>3. f \in [V -> X]
    <3>1. f \in [V -> W] /\ \A m \in V : f[m] # w
      BY <1>5, <1>7 DEF Injection
    <3>. HIDE DEF f, w
    <3>. QED BY <3>1
  <2>. HIDE DEF f, X
  <2>4. f \in Injection(V, X)
    BY <1>6, <2>3 DEF Injection, IsInjective
  <2>5. Cardinality(V) <= Cardinality(X)
    BY <2>2, <2>4, FS_Injection
  <2>. QED BY <2>2, <2>5
<1>. QED BY <1>8, <1>9, OnTheWay DEF V, W

-----------------------------------------------------------------------------
(* What every handler does to the invariant whatever it handles.                                 *)

Handled(e) ==
    /\ given \subseteq given' /\ given' \in SUBSET AIs
    /\ Server' \in Rosters(given') /\ Identified(Server') /\ Strangers(Server')
    /\ processes \subseteq processes' /\ processes' \in SUBSET AIs
    /\ expectedAIs' \in SUBSET AIs /\ expected' \in Nat
    /\ connected' \subseteq connected
    /\ \A f \in connected' \ {e} : player'[f].id = player[f].id
    /\ fsm' \in {"Idle", "MPLobby"} => processes' = {}
    /\ given' = given \/ Cardinality(OnTheirWay') <= Cardinality(AIs \ given')
    /\ fsm' = "Idle" => Established(Server') = {}

Reading(e) ==
    /\ e \in Endpoints /\ e \in connected /\ up[e] # <<>>
    /\ Read(e, connected')
    /\ UNCHANGED clientVars

LEMMA ServerFields ==
    /\ Server.fsm = fsm /\ Server.single = single /\ Server.connected = connected
    /\ Server.player = player /\ Server.host = host /\ Server.lobby = lobby
    /\ Server.galaxy = galaxy /\ Server.begun = begun /\ Server.down = down
BY DEF Server

LEMMA HandledKeeps ==
    ASSUME CommonInv, NEW e, Reading(e), Handled(e)
    PROVE  CommonInv'
<1>1. up \in [Endpoints -> Seq(ClientMessages(given))]
  BY DEF CommonInv, Typed
<1>2. /\ up' \in [Endpoints -> Seq(ClientMessages(given))]
      /\ \A x \in Endpoints : x \notin connected' => up'[x] = <<>>
      /\ \A x \in Endpoints : \A i \in DOMAIN up'[x] :
            IF x = e THEN i + 1 \in DOMAIN up[e] /\ i + 1 # 1 /\ up'[e][i] = up[e][i + 1]
            ELSE i \in DOMAIN up[x] /\ up'[x][i] = up[x][i]
  BY <1>1, ReadLeaves DEF Reading
<1>3. Rows(given) \subseteq Rows(given') /\ ClientMessages(given) \subseteq ClientMessages(given')
  BY RowsGrow DEF Handled
<1>4. Typed'
  <2>1. Server' \in Servers(given')
    BY DEF Handled, Rosters
  <2>2. up' \in [Endpoints -> Seq(ClientMessages(given'))]
    <3>1. \A q \in Seq(ClientMessages(given)) : q \in Seq(ClientMessages(given'))
      BY <1>3, SeqMonotonic
    <3>. QED BY <1>2, <3>1
  <2>3. copy' \in [Clients -> [players : Rows(given'), galaxy : {0, 1}]]
    <3>1. copy' = copy /\ copy \in [Clients -> [players : Rows(given), galaxy : {0, 1}]]
      BY DEF CommonInv, Typed, Reading, clientVars
    <3>. QED BY <1>3, <3>1
  <2>4. /\ joined' \in SUBSET AIs
        /\ client' \in [Clients -> Waiting \cup {"IntroMenu", "MPLobby", "PlayingGame"}]
        /\ id' \in [Clients -> Int] /\ hostId' \in [Clients -> Int]
    BY DEF CommonInv, Typed, Reading, clientVars
  <2>5. /\ given' \in SUBSET AIs /\ processes' \in SUBSET AIs /\ expectedAIs' \in SUBSET AIs
        /\ expected' \in Nat
    BY DEF Handled
  <2>. QED BY <2>1, <2>2, <2>3, <2>4, <2>5 DEF Typed
<1>5. AskFirst'
  <2>1. ASSUME NEW x \in Endpoints, NEW i \in DOMAIN up'[x],
               up'[x][i].type \in {"HostMP", "HostSP", "Join"}
        PROVE  i = 1 /\ player'[x].id = NoPlayer
    <3>1. CASE x = e
      BY <1>2, <2>1, <3>1 DEF CommonInv, AskFirst
    <3>2. CASE x # e
      <4>1. i \in DOMAIN up[x] /\ up'[x][i] = up[x][i]
        BY <1>2, <2>1, <3>2
      <4>2. i = 1 /\ player[x].id = NoPlayer
        BY <2>1, <4>1 DEF CommonInv, AskFirst
      <4>3. x \in connected'
        <5>1. DOMAIN <<>> = {}
          OBVIOUS
        <5>. QED BY <1>2, <2>1, <5>1
      <4>. QED BY <3>2, <4>2, <4>3 DEF Handled
    <3>. QED BY <3>1, <3>2
  <2>. QED BY <1>2, <2>1 DEF AskFirst
<1>6. ProcessesStarted'
  BY DEF CommonInv, ProcessesStarted, Handled, Reading, clientVars
<1>7. NamesLeft'
  <2>1. CASE given' = given
    <3>1. Cardinality(OnTheirWay') <= Cardinality(OnTheirWay)
      BY <1>1, WayRead DEF Reading
    <3>2. Cardinality(OnTheirWay) <= Cardinality(AIs \ given)
      BY DEF CommonInv, NamesLeft
    <3>3. Cardinality(OnTheirWay) \in Nat /\ Cardinality(OnTheirWay') \in Nat
      BY <1>1, <1>2, OnTheWay, WayFinite
    <3>4. Cardinality(AIs \ given) \in Nat
      <4>1. IsFiniteSet(AIs \ given)
        BY EndpointsAssumption, FS_Difference
      <4>. QED BY <4>1, FS_CardinalityType
    <3>. QED BY <2>1, <3>1, <3>2, <3>3, <3>4 DEF NamesLeft
  <2>2. CASE given' # given
    BY <2>2 DEF Handled, NamesLeft
  <2>. QED BY <2>1, <2>2
<1>8. Identified(Server)' /\ Strangers(Server)' /\ (fsm = "Idle" => Established(Server) = {})'
  BY DEF Handled
<1>. QED BY <1>4, <1>5, <1>6, <1>7, <1>8 DEF CommonInv

(* A client's last list is read when nothing follows it.                                            *)
LEMMA SentStill ==
    ASSUME CommonInv, NEW e, Reading(e), NEW c \in Clients, c \in connected', SentLast(c)
    PROVE  \/ SentLast(c)'
           \/ /\ c = e /\ Head(up[e]).type = "LobbyUpdate"
              /\ Head(up[e]).players = copy[c].players
<1>1. up \in [Endpoints -> Seq(ClientMessages(given))]
  BY DEF CommonInv, Typed
<1>2. copy' = copy
  BY DEF Reading, clientVars
<1>3. PICK k \in Lists(up[c]) : IsLast(k, Lists(up[c])) /\ up[c][k].players = copy[c].players
  BY DEF SentLast
<1>4. c \in Endpoints
  BY DEF Endpoints
<1>5. CASE c # e
  <2>1. up'[c] = up[c]
    BY <1>1, <1>4, <1>5, ReadLeaves DEF Reading
  <2>. QED BY <1>2, <1>3, <2>1 DEF SentLast
<1>6. CASE c = e
  <2>1. up'[c] = Tail(up[c]) /\ up[c] # <<>> /\ up[c] \in Seq(ClientMessages(given))
    BY <1>1, <1>4, <1>6, ReadLeaves DEF Reading
  <2>2. /\ Len(up[c]) \in Nat /\ DOMAIN up[c] = 1..Len(up[c]) /\ Head(up[c]) = up[c][1]
        /\ DOMAIN Tail(up[c]) = 1..Len(up[c]) - 1
        /\ \A i \in 1..Len(up[c]) - 1 : Tail(up[c])[i] = up[c][i + 1]
    BY <2>1
  <2>. DEFINE q == Tail(up[c])
  <2>. HIDE DEF q
  <2>3. k \in 1..Len(up[c]) /\ up[c][k].type = "LobbyUpdate"
    BY <1>3, <2>2 DEF Lists, Of
  <2>4. CASE k = 1
    BY <1>3, <1>6, <2>2, <2>3, <2>4
  <2>5. CASE k # 1
    <3>1. k \in 2..Len(up[c]) /\ k - 1 \in 1..Len(up[c]) - 1
      BY <2>2, <2>3, <2>5
    <3>2. k - 1 \in Lists(q) /\ q[k - 1] = up[c][k]
      <4>1. q[k - 1] = up[c][k]
        BY <2>2, <3>1 DEF q
      <4>. QED BY <2>2, <2>3, <3>1, <4>1 DEF Lists, Of, q
    <3>3. ASSUME NEW i \in Lists(q) PROVE i <= k - 1
      <4>1. i \in 1..Len(up[c]) - 1 /\ up[c][i + 1].type = "LobbyUpdate" /\ i + 1 \in 1..Len(up[c])
        BY <2>2, <3>3 DEF Lists, Of, q
      <4>2. i + 1 \in Lists(up[c])
        BY <2>2, <4>1 DEF Lists, Of
      <4>3. i + 1 <= k
        BY <1>3, <4>2 DEF IsLast
      <4>. QED BY <3>1, <4>1, <4>3
    <3>4. IsLast(k - 1, Lists(q))
      BY <3>2, <3>3 DEF IsLast
    <3>. QED BY <1>2, <1>3, <2>1, <3>2, <3>4 DEF SentLast, q
  <2>. QED BY <2>4, <2>5
<1>. QED BY <1>5, <1>6

(* The lobby stays as a handler leaves it, as what was asked last is still on its way.            *)
LEMMA LobbyCarried ==
    ASSUME CommonInv, NEW e, Reading(e), Handled(e), LobbyOpen(Server', {}, given'), ListKnown(Server'),
           Head(up[e]).type # "LobbyUpdate"
    PROVE  LobbyOpen(Server, {}, given)' /\ ListKnown(Server)'
<1>1. client' = client /\ hostId' = hostId /\ copy' = copy
  BY DEF Reading, clientVars
<1>2. LobbyOpen(Server, {}, given)'
  BY <1>1 DEF LobbyOpen, HasHost, Listed, HostKnown, KnowsHost
<1>3. ListKnown(Server)'
  <2>1. ASSUME NEW c \in Clients, c \in Established(Server'), client'[c] \in Waiting \cup {"MPLobby"}
        PROVE  KnowsList(Server'.down[c], client'[c],
                         copy'[c].players = Server'.lobby \/ SentLast(c)', Server'.lobby)
    <3>1. KnowsList(Server'.down[c], client[c],
                    copy[c].players = Server'.lobby \/ SentLast(c), Server'.lobby)
      BY <1>1, <2>1 DEF ListKnown
    <3>2. c \in connected'
      BY <2>1 DEF Established, Server
    <3>3. SentLast(c) => SentLast(c)'
      BY <3>2, SentStill
    <3>. QED BY <1>1, <3>1, <3>3 DEF KnowsList
  <2>. QED BY <2>1 DEF ListKnown
<1>. QED BY <1>2, <1>3

-----------------------------------------------------------------------------
(* The events that only take a connection away.                                                   *)

LEMMA ListingPart ==
    ASSUME NEW l, NEW r, Listing(l), PartOf(r, l)
    PROVE  Listing(r)
<1>1. PICK f \in [DOMAIN r -> DOMAIN l] : \A i \in DOMAIN r : r[i] = l[f[i]]
  BY DEF PartOf
<1>. QED BY <1>1 DEF Listing

LEMMA ServerRoster ==
    ASSUME SetupInv
    PROVE  /\ Server \in Rosters(given) /\ Server \in Servers(given)
           /\ fsm \in States /\ connected \in SUBSET Endpoints
           /\ lobby \in Seq(Entries)
           /\ fsm = "MPLobby" => processes = {} /\ connected \cap AIs = {}
           /\ fsm = "Idle" => processes = {} /\ connected \cap AIs = {} /\ Established(Server) = {}
<1>1. Server \in Servers(given)
  BY DEF SetupInv, CommonInv, Typed
<1>2. fsm = "MPLobby" => lobby \in Rows(given)
  BY ServerFields DEF SetupInv, OpenLobby, LobbyOpen
<1>3. Server \in Rosters(given)
  BY <1>1, <1>2, ServerFields DEF Rosters
<1>4. fsm \in {"Idle", "MPLobby"} => processes = {} /\ connected \cap AIs = {}
  BY DEF SetupInv, CommonInv, ProcessesStarted
<1>5. fsm \in States /\ connected \in SUBSET Endpoints /\ lobby \in Seq(Entries)
  BY <1>1, ServerFields DEF Servers
<1>. QED BY <1>1, <1>3, <1>4, <1>5 DEF SetupInv, CommonInv

LEMMA LeavingHandled ==
    ASSUME SetupInv, NEW e, Reading(e), NEW t, Become(t), Left(t, Server, e, given),
           given' = given, processes' = processes, expected' = expected,
           expectedAIs' \in SUBSET expectedAIs
    PROVE  /\ Handled(e)
           /\ Server' = t
           /\ connected' = connected \ {e}
           /\ Established(Server') = Established(Server) \ {e}
           /\ fsm' \in {fsm, "Exited"}
<1>1. t \in Rosters(given) /\ t \in Servers(given)
  BY DEF Left, Rosters
<1>2. Server' = t
  BY <1>1, Becomes
<1>3. /\ Server'.fsm = fsm' /\ Server'.connected = connected' /\ Server'.player = player'
  BY DEF Server
<1>4. connected' = connected \ {e} /\ fsm' \in {fsm, "Exited"}
  BY <1>2, <1>3, ServerFields DEF Left
<1>5. Server \in Rosters(given) /\ Identified(Server) /\ Strangers(Server) /\ e \in Endpoints
  BY ServerRoster DEF SetupInv, CommonInv, Reading
<1>6. /\ Identified(t)
      /\ \A f \in Endpoints : f # e => t.player[f] = Server.player[f]
      /\ Established(t) = Established(Server) \ {e}
  BY <1>5, LeftIdentified
<1>7. \A f \in connected' \ {e} : player'[f].id = player[f].id
  BY <1>2, <1>3, <1>4, <1>6, ServerFields, ServerRoster
<1>8. /\ fsm' \in {"Idle", "MPLobby"} => processes' = {}
      /\ fsm' = "Idle" => Established(Server') = {}
  BY <1>2, <1>4, <1>6, ServerRoster
<1>9. /\ given \in SUBSET AIs /\ processes \in SUBSET AIs /\ expectedAIs \in SUBSET AIs
      /\ expected \in Nat
  BY DEF SetupInv, CommonInv, Typed
<1>10. Strangers(t)
  BY <1>5 DEF Left
<1>11. Handled(e)
  BY <1>1, <1>2, <1>4, <1>6, <1>7, <1>8, <1>9, <1>10 DEF Handled
<1>. QED BY <1>2, <1>4, <1>6, <1>11

(* AIs that are about to join are read in their turn.                                             *)
LEMMA AskingKept ==
    ASSUME CommonInv, fsm = "Joiners" => AIsAsk, NEW e, Reading(e), Handled(e),
           fsm \in {"Idle", "MPLobby", "Joiners"},
           fsm = "Joiners" /\ e \in connected' \cap AIs => player'[e].id # NoPlayer
    PROVE  AIsAsk'
<1>1. connected' \subseteq connected /\ \A f \in connected' \ {e} : player'[f].id = player[f].id
  BY DEF Handled
<1>2. fsm \in {"Idle", "MPLobby"} => connected \cap AIs = {}
  BY DEF CommonInv, ProcessesStarted
<1>3. ASSUME NEW a \in connected' \cap AIs, player'[a].id = NoPlayer, fsm = "Joiners"
      PROVE  up'[a] # <<>> /\ Head(up'[a]).type = "Join"
  <2>1. a # e /\ a \in Endpoints
    BY <1>3 DEF Endpoints
  <2>2. up[a] # <<>> /\ Head(up[a]).type = "Join"
    BY <1>1, <1>3, <2>1 DEF AIsAsk
  <2>3. up'[a] = up[a]
    BY <1>3, <2>1, ReadLeaves DEF CommonInv, Typed, Reading
  <2>. QED BY <2>2, <2>3
<1>. QED BY <1>1, <1>2, <1>3 DEF AIsAsk

LEMMA LeavingKeeps ==
    ASSUME SetupInv, NEW e, Reading(e), NEW t, Become(t), Left(t, Server, e, given),
           given' = given, processes' = processes, expected' = expected,
           expectedAIs' \in SUBSET expectedAIs,
           Head(up[e]).type # "LobbyUpdate",
           fsm = "MPLobby" /\ t.fsm = "MPLobby" => LobbyOpen(t, {}, given) /\ ListKnown(t)
    PROVE  SetupInv'
<1>1. /\ Handled(e) /\ Server' = t /\ connected' = connected \ {e}
      /\ Established(Server') = Established(Server) \ {e} /\ fsm' \in {fsm, "Exited"}
  BY LeavingHandled
<1>2. CommonInv
  BY DEF SetupInv
<1>3. CommonInv'
  BY <1>1, <1>2, HandledKeeps
<1>4. Server'.fsm = fsm' /\ Server'.lobby = lobby' /\ Server'.player = player'
  BY DEF Server
<1>5. ASSUME fsm' = "MPLobby" PROVE OpenLobby'
  <2>1. fsm = "MPLobby" /\ t.fsm = "MPLobby"
    BY <1>1, <1>4, <1>5
  <2>2. LobbyOpen(Server', {}, given') /\ ListKnown(Server')
    BY <1>1, <2>1
  <2>3. LobbyOpen(Server, {}, given)' /\ ListKnown(Server)'
    BY <1>1, <1>2, <2>2, LobbyCarried
  <2>4. PartOf(lobby', lobby) /\ Listing(lobby)
    BY <1>1, <1>4, <2>1, ServerFields DEF Left, SetupInv, OpenLobby
  <2>5. Listing(lobby')
    BY <2>4, ListingPart
  <2>. QED BY <2>3, <2>5 DEF OpenLobby
<1>6. ASSUME fsm' = "Joiners" PROVE JoinersCounted' /\ AIsAsk'
  <2>1. fsm = "Joiners" /\ JoinersCounted /\ AIsAsk
    BY <1>1, <1>6 DEF SetupInv
  <2>2. lobby' = lobby
    BY <1>1, <1>4, <2>1, ServerFields DEF Left
  <2>3. AIsAsk'
    BY <1>1, <1>2, <2>1, AskingKept
  <2>4. /\ IsFiniteSet(Established(Server)) /\ IsFiniteSet(expectedAIs)
    <3>1. Server.connected \in SUBSET Endpoints /\ expectedAIs \in SUBSET AIs
      BY ServerRoster, ServerFields DEF SetupInv, CommonInv, Typed
    <3>. QED BY <3>1, EstablishedFinite, EndpointsAssumption, FS_Subset
  <2>5. /\ Cardinality(Established(Server')) <= Cardinality(Established(Server))
        /\ Cardinality(expectedAIs') <= Cardinality(expectedAIs)
        /\ Cardinality(Established(Server')) \in Nat /\ Cardinality(Established(Server)) \in Nat
        /\ Cardinality(expectedAIs') \in Nat /\ Cardinality(expectedAIs) \in Nat
    <3>1. /\ Established(Server') \in SUBSET Established(Server)
          /\ expectedAIs' \in SUBSET expectedAIs
      BY <1>1
    <3>. QED BY <2>4, <3>1, FS_Subset, FS_CardinalityType
  <2>6. expected \in Nat
    BY DEF SetupInv, CommonInv, Typed
  <2>7. JoinersCounted'
    BY <2>1, <2>2, <2>5, <2>6 DEF JoinersCounted
  <2>. QED BY <2>3, <2>7
<1>. QED BY <1>3, <1>5, <1>6 DEF SetupInv

(* What the server does not change: an event that is ignored.                                      *)
LEMMA IgnoredKeeps ==
    ASSUME SetupInv, NEW e, Reading(e), Become(Server),
           given' = given, processes' = processes, expected' = expected,
           expectedAIs' = expectedAIs,
           fsm # "MPLobby",
           fsm = "Joiners" => Head(up[e]).type # "Join"
    PROVE  SetupInv'
<1>1. Server \in Rosters(given) /\ Server \in Servers(given)
  BY ServerRoster
<1>2. Server' = Server
  BY <1>1, Becomes
<1>3. /\ fsm' = fsm /\ connected' = connected /\ player' = player /\ lobby' = lobby
  BY <1>2, ServerFields DEF Server
<1>4. CommonInv
  BY DEF SetupInv
<1>5. /\ given \in SUBSET AIs /\ processes \in SUBSET AIs /\ expectedAIs \in SUBSET AIs
      /\ expected \in Nat
  BY DEF SetupInv, CommonInv, Typed
<1>6. Handled(e)
  BY <1>1, <1>2, <1>3, <1>5, ServerRoster DEF Handled, SetupInv, CommonInv
<1>7. CommonInv'
  BY <1>4, <1>6, HandledKeeps
<1>8. ASSUME fsm' = "Joiners" PROVE JoinersCounted' /\ AIsAsk'
  <2>1. fsm = "Joiners" /\ JoinersCounted /\ AIsAsk
    BY <1>3, <1>8 DEF SetupInv
  <2>2. e \in AIs => player'[e].id # NoPlayer
    BY <1>3, <2>1 DEF AIsAsk, Reading
  <2>3. AIsAsk'
    BY <1>4, <1>6, <2>1, <2>2, AskingKept
  <2>. QED BY <1>2, <1>3, <2>1, <2>3 DEF JoinersCounted
<1>. QED BY <1>3, <1>7, <1>8 DEF SetupInv

LEMMA LostKeeps ==
    ASSUME SetupInv, NEW e, Reading(e), NEW order \in Orders,
           ConnectionLost(e, order), Head(up[e]).type = "Closed"
    PROVE  SetupInv'
<1>. DEFINE t == Disconnection(Server, e, order)
<1>1. Become(t) /\ given' = given /\ processes' = processes /\ expected' = expected
      /\ expectedAIs' \in SUBSET expectedAIs
  BY DEF ConnectionLost
<1>2. Orderly(order, Server) /\ order \in Seq(Clients)
  BY ServerRoster, OrdersOrderly DEF Orderly
<1>3. Server \in Rosters(given) /\ e \in Endpoints
  BY ServerRoster DEF Reading
<1>4. Left(t, Server, e, given)
  BY <1>2, <1>3, DisconnectionLeaves
<1>5. ASSUME fsm = "MPLobby", t.fsm = "MPLobby" PROVE LobbyOpen(t, {}, given) /\ ListKnown(t)
  <2>1. t = LobbyDisconnection(Server, e, order) /\ Server.fsm = "MPLobby"
    BY <1>5, ServerFields DEF Disconnection
  <2>2. /\ LobbyOpen(Server, {}, given) /\ ListKnown(Server) /\ Identified(Server)
        /\ processes = {}
    BY <1>5, ServerRoster DEF SetupInv, OpenLobby, CommonInv
  <2>. HIDE DEF t
  <2>. QED BY <1>2, <1>3, <1>5, <2>1, <2>2, LobbyStaysOpen
<1>. HIDE DEF t
<1>. QED BY <1>1, <1>4, <1>5, LeavingKeeps

(* A connection the server ends, perhaps after a last word (s).                                    *)
LEMMA EndedKeeps ==
    ASSUME SetupInv, NEW e, Reading(e), NEW order \in Orders, NEW s,
           \/ s = Server
           \/ s = SendTo(Server, {e}, [type |-> "Error"]),
           Become(Disconnect(s, e, order)),
           given' = given, processes' = processes, expected' = expected,
           expectedAIs' \in SUBSET expectedAIs,
           Head(up[e]).type # "LobbyUpdate"
    PROVE  SetupInv'
<1>. DEFINE t == Disconnect(s, e, order)
            m == [type |-> "Error"]
<1>2. Orderly(order, Server) /\ order \in Seq(Clients)
  BY ServerRoster, OrdersOrderly DEF Orderly
<1>3. Server \in Rosters(given) /\ Server \in Servers(given) /\ e \in Endpoints
  BY ServerRoster DEF Reading
<1>4. /\ m \in ServerMessages(given) /\ m.type # "LobbyUpdate"
      /\ m.type \notin HostNews \cup AckNews
  BY DEF ServerMessages, HostNews, AckNews
<1>. HIDE DEF m
<1>5. /\ s \in Rosters(given) /\ (Strangers(Server) => Strangers(s))
      /\ s.fsm = Server.fsm /\ s.connected = Server.connected /\ s.player = Server.player
      /\ s.lobby = Server.lobby /\ s.galaxy = Server.galaxy
  <2>1. CASE s = Server
    BY <1>3, <2>1
  <2>2. CASE s = SendTo(Server, {e}, m)
    BY <1>3, <1>4, <2>2, SentRoster, Sent
  <2>. QED BY <2>1, <2>2 DEF m
<1>6. Left(t, s, e, given)
  BY <1>2, <1>3, <1>5, DisconnectLeaves
<1>7. Left(t, Server, e, given)
  BY <1>5, <1>6 DEF Left
<1>8. ASSUME fsm = "MPLobby", t.fsm = "MPLobby" PROVE LobbyOpen(t, {}, given) /\ ListKnown(t)
  <2>1. s.fsm = "MPLobby"
    BY <1>5, <1>8, ServerFields
  <2>2. /\ LobbyOpen(Server, {}, given) /\ ListKnown(Server) /\ Identified(Server)
        /\ processes = {}
    BY <1>8, ServerRoster DEF SetupInv, OpenLobby, CommonInv
  <2>3. LobbyOpen(s, {}, given) /\ ListKnown(s) /\ Identified(s)
    <3>1. CASE s = Server
      BY <2>2, <3>1
    <3>2. CASE s = SendTo(Server, {e}, m)
      BY <1>3, <1>4, <2>2, <3>2, SentOther
    <3>. QED BY <3>1, <3>2 DEF m
  <2>4. Orderly(order, s)
    BY <1>2, <1>5 DEF Orderly
  <2>. QED BY <1>3, <1>5, <1>8, <2>1, <2>2, <2>3, <2>4, LobbyDisconnects
<1>. HIDE DEF t
<1>9. Become(t)
  BY DEF t
<1>. QED BY <1>7, <1>8, <1>9, LeavingKeeps

LEMMA RefusedKeeps ==
    ASSUME SetupInv, NEW e, Reading(e), NEW order \in Orders, HostRefused(e, order),
           Head(up[e]).type \in {"HostMP", "HostSP"}
    PROVE  SetupInv'
<1>1. given' = given /\ processes' = processes /\ expected' = expected
      /\ expectedAIs' = expectedAIs
  BY DEF HostRefused
<1>2. CASE fsm = "MPLobby"
  <2>1. Become(Disconnect(SendTo(Server, {e}, [type |-> "Error"]), e, order))
    BY <1>2 DEF HostRefused
  <2>. QED BY <1>1, <2>1, EndedKeeps
<1>3. CASE fsm # "MPLobby"
  <2>1. Become(Server)
    BY <1>3 DEF HostRefused
  <2>. QED BY <1>1, <1>3, <2>1, IgnoredKeeps
<1>. QED BY <1>2, <1>3

LEMMA OutsideKeeps ==
    ASSUME SetupInv, NEW e, Reading(e),
           \/ JoinIgnored
           \/ OutsideLobby /\ Head(up[e]).type \in {"LobbyUpdate", "Start"}
    PROVE  SetupInv'
<1>1. fsm # "MPLobby" /\ (fsm = "Joiners" => Head(up[e]).type # "Join")
      /\ given' = given /\ processes' = processes /\ expected' = expected
      /\ expectedAIs' = expectedAIs
  BY DEF JoinIgnored, OutsideLobby
<1>2. Become(Server)
  BY ServerFields DEF Become, JoinIgnored, OutsideLobby
<1>. QED BY <1>1, <1>2, IgnoredKeeps

-----------------------------------------------------------------------------
(* A player joins under an id nobody has.                                                           *)

LEMMA IdsFinite ==
    ASSUME NEW names, NEW s \in Servers(names)
    PROVE  /\ NewPlayerID(s) \in Int /\ NewPlayerID(s) >= 1
           /\ \A x \in s.connected : s.player[x].id < NewPlayerID(s)
<1>. DEFINE I == {s.player[x].id : x \in s.connected}
            S == {0} \cup I
            f == [x \in s.connected |-> s.player[x].id]
<1>1. s.connected \in SUBSET Endpoints /\ s.player \in [Endpoints -> Players]
  BY DEF Servers
<1>2. IsFiniteSet(s.connected)
  BY <1>1, EndpointsFinite, FS_Subset
<1>3. f \in Surjection(s.connected, I)
  BY DEF Surjection
<1>4. IsFiniteSet(I)
  <2>. HIDE DEF I, f
  <2>. QED BY <1>2, <1>3, FS_Surjection
<1>5. I \in SUBSET Int
  <2>1. \A x \in s.connected : s.player[x].id \in Int
    BY <1>1 DEF Players
  <2>. QED BY <2>1
<1>6. \A x \in s.connected : s.player[x].id \in I
  OBVIOUS
<1>7. NewPlayerID(s) = 1 + Max(S)
  BY DEF NewPlayerID
<1>. HIDE DEF I
<1>8. S \in SUBSET Int /\ IsFiniteSet(S) /\ S # {} /\ 0 \in S
  <2>1. IsFiniteSet({0})
    BY FS_Singleton
  <2>2. IsFiniteSet({0} \cup I)
    BY <1>4, <2>1, FS_Union
  <2>. QED BY <1>5, <2>2
<1>9. I \subseteq S
  OBVIOUS
<1>. HIDE DEF S
<1>10. Max(S) \in S /\ \A k \in S : k <= Max(S)
  BY <1>8, FiniteGreatest
<1>. DEFINE m == Max(S)
<1>11. m \in Int /\ m >= 0 /\ \A k \in S : k \in Int /\ k <= m
  BY <1>8, <1>10
<1>12. NewPlayerID(s) = 1 + m
  BY <1>7
<1>. HIDE DEF m
<1>13. ASSUME NEW x \in s.connected PROVE s.player[x].id < NewPlayerID(s)
  <2>1. s.player[x].id \in S
    BY <1>6, <1>9
  <2>. QED BY <1>11, <1>12, <2>1
<1>. QED BY <1>11, <1>12, <1>13

LEMMA Enrolled ==
    ASSUME NEW names, NEW s \in Servers(names), Identified(s), NEW e \in s.connected,
           s.player[e].id = NoPlayer, NEW type,
           IF e \in AIs THEN type = "AI" ELSE type \in HumanTypes
    PROVE  /\ EstablishPlayer(s, e, type) \in Servers(names)
           /\ EstablishPlayer(s, e, type).fsm = s.fsm
           /\ EstablishPlayer(s, e, type).connected = s.connected
           /\ EstablishPlayer(s, e, type).host = s.host
           /\ EstablishPlayer(s, e, type).lobby = s.lobby
           /\ EstablishPlayer(s, e, type).galaxy = s.galaxy
           /\ EstablishPlayer(s, e, type).down = s.down
           /\ EstablishPlayer(s, e, type).player[e] = [id |-> NewPlayerID(s), type |-> type]
           /\ \A f \in Endpoints : f # e => EstablishPlayer(s, e, type).player[f] = s.player[f]
           /\ Identified(EstablishPlayer(s, e, type))
           /\ Established(EstablishPlayer(s, e, type)) = Established(s) \cup {e}
           /\ Strangers(s) => Strangers(EstablishPlayer(s, e, type))
<1>. DEFINE n == NewPlayerID(s)
            q == [id |-> n, type |-> type]
            p == [s.player EXCEPT ![e] = q]
            t == EstablishPlayer(s, e, type)
<1>1. n \in Int /\ n >= 1 /\ \A x \in s.connected : s.player[x].id < n
  BY IdsFinite
<1>2. /\ s.player \in [Endpoints -> Players] /\ s.connected \in SUBSET Endpoints
      /\ \A c \in Clients : s.down[c] = s.down[c]
  BY DEF Servers
<1>3. t = [s EXCEPT !.player = p]
  BY <1>2 DEF EstablishPlayer, Servers
<1>. HIDE DEF n
<1>4. q \in Players /\ q.id = n /\ q.type = type
  BY <1>1 DEF Players, ClientTypes
<1>. HIDE DEF q
<1>5. /\ p \in [Endpoints -> Players] /\ p[e] = q
      /\ \A f \in Endpoints : f # e => p[f] = s.player[f]
  BY <1>2, <1>4
<1>. HIDE DEF p, t
<1>6. /\ t \in Servers(names) /\ t.fsm = s.fsm /\ t.connected = s.connected /\ t.host = s.host
      /\ t.lobby = s.lobby /\ t.galaxy = s.galaxy /\ t.down = s.down /\ t.player = p
  BY <1>3, <1>5 DEF Servers
<1>7. /\ n # NoPlayer
      /\ \A x \in Endpoints : s.player[x].id # n
  <2>1. n # NoPlayer
    BY <1>1 DEF NoPlayer
  <2>2. ASSUME NEW x \in Endpoints, s.player[x].id = n PROVE FALSE
    <3>1. x \in s.connected
      BY <2>1, <2>2 DEF Identified
    <3>. QED BY <1>1, <2>2, <3>1
  <2>. QED BY <2>1, <2>2
<1>8. Identified(t)
  <2>1. ASSUME NEW x \in Endpoints, t.player[x].id # NoPlayer
        PROVE  /\ t.player[x].id >= 1
               /\ x \in t.connected
               /\ IF x \in AIs THEN t.player[x].type = "AI" ELSE t.player[x].type \in HumanTypes
    <3>1. CASE x = e
      BY <1>1, <1>4, <1>5, <1>6, <3>1
    <3>2. CASE x # e
      BY <1>5, <1>6, <2>1, <3>2 DEF Identified
    <3>. QED BY <3>1, <3>2
  <2>2. \A x \in Endpoints : t.player[x].id = NoPlayer => t.player[x].type = "Invalid"
    BY <1>2, <1>4, <1>5, <1>6, <1>7 DEF Identified
  <2>3. ASSUME NEW x \in Endpoints, NEW y \in Endpoints,
               t.player[x].id # NoPlayer, t.player[x].id = t.player[y].id
        PROVE  x = y
    <3>1. CASE x = e \/ y = e
      BY <1>4, <1>5, <1>6, <1>7, <2>3, <3>1
    <3>2. CASE x # e /\ y # e
      BY <1>5, <1>6, <2>3, <3>2 DEF Identified
    <3>. QED BY <3>1, <3>2
  <2>. QED BY <2>1, <2>2, <2>3 DEF Identified
<1>9. Established(t) = Established(s) \cup {e}
  BY <1>2, <1>4, <1>5, <1>6, <1>7 DEF Established
<1>10. Strangers(s) => Strangers(t)
  BY <1>2, <1>4, <1>5, <1>6, <1>7 DEF Strangers, Endpoints
<1>. QED BY <1>4, <1>5, <1>6, <1>8, <1>9, <1>10 DEF q, t, n

LEMMA StaysHandled ==
    ASSUME SetupInv, NEW e, Reading(e), NEW t, Become(t),
           t \in Rosters(given), Identified(t), Strangers(t), t.connected = connected,
           \A f \in connected \ {e} : t.player[f].id = player[f].id,
           given' = given, processes \subseteq processes', processes' \in SUBSET AIs,
           expectedAIs' \in SUBSET AIs, expected' \in Nat,
           t.fsm \in {"Idle", "MPLobby"} => processes' = {}, t.fsm # "Idle"
    PROVE  /\ Handled(e)
           /\ Server' = t
           /\ fsm' = t.fsm /\ connected' = t.connected /\ player' = t.player /\ lobby' = t.lobby
<1>1. t \in Servers(given)
  BY DEF Rosters
<1>2. Server' = t
  BY <1>1, Becomes
<1>3. fsm' = t.fsm /\ connected' = t.connected /\ player' = t.player /\ lobby' = t.lobby
  BY DEF Become
<1>4. given \in SUBSET AIs
  BY DEF SetupInv, CommonInv, Typed
<1>5. Handled(e)
  BY <1>2, <1>3, <1>4 DEF Handled
<1>. QED BY <1>2, <1>3, <1>5

(* What a client is told that joins the lobby or hosts a game.                                      *)
LEMMA Welcomed ==
    ASSUME NEW M, NEW D \in Seq(M), NEW m \in M, NEW k \in M, Lists(D) = {},
           m.type = "JoinAck", k.type = "HostID", NEW state, NEW own
    PROVE  KnowsHost(Append(Append(D, m), k), state, own, k.id)
<1>. DEFINE E == Append(D, m)
            F == Append(E, k)
            n == Len(D) + 1
<1>1. E \in Seq(M) /\ Len(E) = n /\ n \in Nat
  OBVIOUS
<1>2. /\ Of(E, {"LobbyUpdate"}) = Of(D, {"LobbyUpdate"}) \cup (IF m.type \in {"LobbyUpdate"} THEN {n} ELSE {})
      /\ Of(E, {"HostMPAck", "HostSPAck", "JoinAck"})
            = Of(D, {"HostMPAck", "HostSPAck", "JoinAck"})
              \cup (IF m.type \in {"HostMPAck", "HostSPAck", "JoinAck"} THEN {n} ELSE {})
      /\ \A i \in Of(E, {"HostID", "HostMPAck", "HostSPAck"}) : i \in DOMAIN E
  BY OfAppend DEF Of
<1>3. Lists(E) = {} /\ n \in Acks(E) /\ \A i \in Hosts(E) : i \in 1..n
  BY <1>1, <1>2 DEF Lists, Acks, Hosts
<1>. HIDE DEF E, n
<1>4. /\ Of(F, {"LobbyUpdate"}) = Of(E, {"LobbyUpdate"})
                                  \cup (IF k.type \in {"LobbyUpdate"} THEN {Len(E) + 1} ELSE {})
      /\ Of(F, {"HostMPAck", "HostSPAck", "JoinAck"})
            = Of(E, {"HostMPAck", "HostSPAck", "JoinAck"})
              \cup (IF k.type \in {"HostMPAck", "HostSPAck", "JoinAck"} THEN {Len(E) + 1} ELSE {})
      /\ Of(F, {"HostID", "HostMPAck", "HostSPAck"})
            = Of(E, {"HostID", "HostMPAck", "HostSPAck"})
              \cup (IF k.type \in {"HostID", "HostMPAck", "HostSPAck"} THEN {Len(E) + 1} ELSE {})
  BY <1>1, OfAppend
<1>5. F[n + 1] = k
  BY <1>1
<1>. HIDE DEF F
<1>6. Lists(F) = {} /\ n \in Acks(F) /\ Hosts(F) = Hosts(E) \cup {n + 1}
  BY <1>1, <1>3, <1>4 DEF Lists, Acks, Hosts
<1>7. \A i \in Hosts(F) : i \in Nat /\ i <= n + 1
  BY <1>1, <1>3, <1>6
<1>9. n + 1 \in Hosts(F) /\ n + 1 >= n
  BY <1>1, <1>6
<1>8. \A i \in Hosts(F) : IsLast(i, Hosts(F)) => i = n + 1
  <2>1. ASSUME NEW i \in Hosts(F), IsLast(i, Hosts(F)) PROVE i = n + 1
    <3>1. n + 1 <= i /\ i <= n + 1 /\ i \in Nat
      BY <1>7, <1>9, <2>1 DEF IsLast
    <3>. QED BY <1>1, <3>1
  <2>. QED BY <2>1
<1>10. KnowsHost(F, state, own, k.id)
  BY <1>5, <1>6, <1>8, <1>9 DEF KnowsHost
<1>. QED BY <1>10 DEF F, E

LEMMA WelcomedHost ==
    ASSUME NEW M, NEW D \in Seq(M), NEW m \in M, Lists(D) = {},
           m.type = "HostMPAck", NEW state, NEW own
    PROVE  KnowsHost(Append(D, m), state, own, m.id)
<1>. DEFINE E == Append(D, m)
            n == Len(D) + 1
<1>1. E \in Seq(M) /\ Len(E) = n /\ n \in Nat /\ n >= 1 /\ E[n] = m /\ DOMAIN E = 1..n
  OBVIOUS
<1>2. /\ Of(E, {"LobbyUpdate"}) = Of(D, {"LobbyUpdate"}) \cup (IF m.type \in {"LobbyUpdate"} THEN {n} ELSE {})
  BY OfAppend
<1>. HIDE DEF E, n
<1>3. Lists(E) = {}
  BY <1>2 DEF Lists
<1>4. n \in 1..n
  BY <1>1
<1>5. n \in Acks(E) /\ n \in Hosts(E) /\ \A i \in Hosts(E) : i \in 1..n
  BY <1>1, <1>4 DEF Acks, Hosts, Of
<1>6. \A i \in Hosts(E) : IsLast(i, Hosts(E)) => i = n
  BY <1>1, <1>5 DEF IsLast
<1>7. n >= n
  BY <1>1
<1>8. KnowsHost(E, state, own, m.id)
  BY <1>1, <1>3, <1>5, <1>6, <1>7 DEF KnowsHost
<1>. QED BY <1>8 DEF E

(* Who asks first is a stranger.                                                                    *)
LEMMA AsksAsStranger ==
    ASSUME SetupInv, NEW e, Reading(e), Head(up[e]).type \in {"HostMP", "HostSP", "Join"}
    PROVE  player[e].id = NoPlayer /\ e \notin Established(Server)
<1>1. up[e] \in Seq(ClientMessages(given)) /\ up[e] # <<>>
  BY DEF SetupInv, CommonInv, Typed, Reading
<1>2. 1 \in DOMAIN up[e] /\ Head(up[e]) = up[e][1]
  BY <1>1
<1>3. player[e].id = NoPlayer
  BY <1>2 DEF SetupInv, CommonInv, AskFirst, Reading
<1>. QED BY <1>3, ServerFields DEF Established

LEMMA JoinLobbyKeeps ==
    ASSUME SetupInv, NEW e, Reading(e), JoinLobby(e), Head(up[e]).type = "Join"
    PROVE  SetupInv'
<1>. DEFINE j == EstablishPlayer(Server, e, "Player")
            n == j.player[e].id
            players == Append(lobby, Entry(n, e, "Player"))
            update == LobbyData(players, galaxy)
            ack == [type |-> "JoinAck", id |-> n]
            told == [type |-> "HostID", id |-> host]
            a == [j EXCEPT !.lobby = players]
            b == SendTo(a, {e}, ack)
            d == SendTo(b, {e}, told)
            t == SendTo(d, Established(j), update)
<1>1. /\ fsm = "MPLobby" /\ Become(t) /\ given' = given /\ processes' = processes
      /\ expected' = expected /\ expectedAIs' = expectedAIs
  BY DEF JoinLobby
<1>2. /\ LobbyOpen(Server, {}, given) /\ ListKnown(Server) /\ Listing(lobby) /\ Identified(Server)
      /\ Strangers(Server) /\ processes = {} /\ connected \subseteq Clients
      /\ lobby \in Rows(given) /\ lobby \in Seq(Entries)
  BY <1>1, ServerRoster, ServerFields DEF SetupInv, OpenLobby, CommonInv, LobbyOpen
<1>3. /\ player[e].id = NoPlayer /\ e \notin Established(Server) /\ e \in connected
      /\ e \in Clients /\ e \in Endpoints /\ e \notin AIs
  BY <1>2, AsksAsStranger, EndpointsFinite DEF Reading
<1>4. Server \in Servers(given)
  BY ServerRoster
<1>5. /\ j \in Servers(given) /\ j.fsm = "MPLobby" /\ j.connected = connected /\ j.host = host
      /\ j.lobby = lobby /\ j.galaxy = galaxy /\ j.down = down
      /\ j.player[e] = [id |-> NewPlayerID(Server), type |-> "Player"]
      /\ \A f \in Endpoints : f # e => j.player[f] = player[f]
      /\ Identified(j) /\ Established(j) = Established(Server) \cup {e} /\ Strangers(j)
  BY <1>1, <1>2, <1>3, <1>4, ServerFields, Enrolled DEF HumanTypes
<1>6. NewPlayerID(Server) \in Int /\ NewPlayerID(Server) >= 1
  BY <1>4, IdsFinite
<1>. HIDE DEF j
<1>7. n \in Int /\ n # NoPlayer
  BY <1>5, <1>6 DEF NoPlayer
<1>. HIDE DEF n
<1>8. /\ players \in Rows(given) /\ Listing(players)
      /\ \A i \in DOMAIN lobby : i \in DOMAIN players /\ players[i] = lobby[i]
      /\ Len(lobby) + 1 \in DOMAIN players /\ players[Len(lobby) + 1] = Entry(n, e, "Player")
  <2>1. Entry(n, e, "Player") \in Entries
    BY <1>3, <1>7 DEF Entry, Entries, ClientTypes, HumanTypes
  <2>. DEFINE x == Entry(n, e, "Player")
  <2>2. x.type = "Player" /\ x.id = n /\ x.name # Unnamed
    BY <1>3, EndpointsAssumption DEF Entry
  <2>. HIDE DEF x
  <2>3. /\ players \in Seq(Entries) /\ DOMAIN players = 1..Len(lobby) + 1 /\ DOMAIN lobby = 1..Len(lobby)
        /\ players[Len(lobby) + 1] = x /\ \A i \in 1..Len(lobby) : players[i] = lobby[i]
        /\ Len(lobby) \in Nat
    BY <1>2, <2>1 DEF x
  <2>. HIDE DEF players
  <2>4. /\ Len(lobby) + 1 \in DOMAIN players
        /\ \A i \in DOMAIN players : i \in DOMAIN lobby \/ players[i] = x
        /\ \A i \in DOMAIN lobby : i \in DOMAIN players /\ players[i] = lobby[i]
    BY <2>3
  <2>5. GoodRows(lobby, given)
    BY <1>2 DEF Rows
  <2>6. GoodRows(players, given)
    BY <1>7, <2>2, <2>4, <2>5 DEF GoodRows, HumanTypes
  <2>7. Listing(players)
    BY <1>2, <2>2, <2>4 DEF Listing
  <2>. QED BY <2>3, <2>4, <2>6, <2>7 DEF Rows, x
<1>. HIDE DEF players
<1>9. galaxy \in {0, 1} /\ host \in Int
  BY <1>4, ServerFields DEF Servers
<1>10. /\ ack \in ServerMessages(given) /\ told \in ServerMessages(given) /\ update \in ServerMessages(given)
       /\ ack.type = "JoinAck" /\ told.type = "HostID" /\ told.id = host
       /\ update.type = "LobbyUpdate" /\ update.players = players
  BY <1>7, <1>8, <1>9, MessagesTyped DEF LobbyData
<1>. HIDE DEF ack, told, update
<1>11. /\ a \in Rosters(given) /\ a.fsm = "MPLobby" /\ a.connected = connected /\ a.host = host
       /\ a.lobby = players /\ a.galaxy = galaxy /\ a.down = down /\ a.player = j.player
  <2>1. a \in Servers(given)
    BY <1>5, <1>8 DEF Servers, Rows
  <2>2. /\ a.fsm = "MPLobby" /\ a.connected = connected /\ a.host = host
        /\ a.lobby = players /\ a.galaxy = galaxy /\ a.down = down /\ a.player = j.player
    BY <1>5 DEF Servers
  <2>. QED BY <1>8, <2>1, <2>2 DEF Rosters
<1>12. Strangers(a)
  BY <1>5, <1>11 DEF Strangers
<1>. HIDE DEF a
<1>13. b \in Rosters(given) /\ Strangers(b)
  BY <1>10, <1>11, <1>12, SentRoster
<1>14. /\ b.fsm = "MPLobby" /\ b.connected = connected /\ b.host = host /\ b.lobby = players
       /\ b.galaxy = galaxy /\ b.player = j.player
       /\ \A c \in Clients : b.down[c] = IF c \in {e} THEN Append(down[c], ack) ELSE down[c]
  BY <1>10, <1>11, Sent DEF Rosters
<1>. HIDE DEF b
<1>15. d \in Rosters(given) /\ Strangers(d)
  BY <1>10, <1>13, <1>14, SentRoster
<1>16. /\ d.fsm = "MPLobby" /\ d.connected = connected /\ d.host = host /\ d.lobby = players
       /\ d.galaxy = galaxy /\ d.player = j.player
       /\ \A c \in Clients : d.down[c] = IF c \in {e} THEN Append(b.down[c], told) ELSE b.down[c]
  BY <1>10, <1>13, <1>14, Sent DEF Rosters
<1>. HIDE DEF d
<1>17. \A c \in Established(j) : d.player[c].id # NoPlayer
  BY <1>16 DEF Established
<1>18. t \in Rosters(given) /\ Strangers(t)
  BY <1>10, <1>15, <1>17, SentRoster
<1>19. /\ t.fsm = "MPLobby" /\ t.connected = connected /\ t.host = host /\ t.lobby = players
       /\ t.galaxy = galaxy /\ t.player = j.player
       /\ \A c \in Clients : t.down[c] = IF c \in Established(j) THEN Append(d.down[c], update)
                                                                 ELSE d.down[c]
  BY <1>10, <1>15, <1>16, Sent DEF Rosters
<1>. HIDE DEF t
<1>20. Identified(t) /\ Established(t) = Established(j)
  BY <1>5, <1>19 DEF Identified, Established
<1>21. connected \subseteq Endpoints /\ Established(Server) \subseteq connected
  BY ServerRoster, ServerFields DEF Established
<1>22. /\ Handled(e) /\ Server' = t
  <2>1. processes \in SUBSET AIs /\ expectedAIs \in SUBSET AIs /\ expected \in Nat
    BY DEF SetupInv, CommonInv, Typed
  <2>2. \A f \in connected \ {e} : t.player[f].id = player[f].id
    BY <1>5, <1>19, <1>21
  <2>. QED BY <1>1, <1>2, <1>18, <1>19, <1>20, <2>1, <2>2, StaysHandled
<1>23. HasHost(t)
  <2>1. PICK f \in Established(Server) : player[f].id = host
    BY <1>2, ServerFields DEF LobbyOpen, HasHost
  <2>. QED BY <1>3, <1>5, <1>19, <1>20, <1>21, <2>1 DEF HasHost
<1>24. Listed(t, {})
  <2>1. ASSUME NEW f \in Established(t)
        PROVE  \E i \in DOMAIN t.lobby : t.lobby[i].id = t.player[f].id /\ t.lobby[i].type # "Invalid"
    <3>1. CASE f = e
      <4>. DEFINE i == Len(lobby) + 1
      <4>1. i \in DOMAIN players /\ players[i] = Entry(n, e, "Player")
        BY <1>8
      <4>. HIDE DEF i
      <4>2. players[i].id = n /\ players[i].type = "Player"
        BY <4>1 DEF Entry
      <4>3. t.player[f].id = n
        BY <1>19, <3>1 DEF n
      <4>. QED BY <1>19, <4>1, <4>2, <4>3
    <3>2. CASE f # e
      <4>1. f \in Established(Server) \ {}
        BY <1>5, <1>20, <2>1, <3>2
      <4>2. PICK i \in DOMAIN lobby : lobby[i].id = player[f].id /\ lobby[i].type # "Invalid"
        BY <1>2, <4>1, ServerFields DEF LobbyOpen, Listed
      <4>. QED BY <1>5, <1>8, <1>19, <1>21, <3>2, <4>1, <4>2
    <3>. QED BY <3>1, <3>2
  <2>. QED BY <2>1 DEF Listed
<1>25. ASSUME NEW c \in Clients, c \in Established(t)
       PROVE  /\ t.down[c] = Append(d.down[c], update)
              /\ d.down[c] \in Seq(ServerMessages(given)) /\ down[c] \in Seq(ServerMessages(given))
              /\ c = e => d.down[c] = Append(Append(down[c], ack), told)
              /\ c # e => d.down[c] = down[c] /\ c \in Established(Server)
  BY <1>4, <1>5, <1>14, <1>15, <1>16, <1>19, <1>20, <1>25, RosterRows, ServerFields DEF Servers
<1>26. HostKnown(t)
  <2>1. ASSUME NEW c \in Clients, c \in Established(t), client[c] \in Waiting \cup {"MPLobby"}
        PROVE  KnowsHost(t.down[c], client[c], hostId[c], t.host)
    <3>1. KnowsHost(d.down[c], client[c], hostId[c], host)
      <4>1. CASE c = e
        <5>1. Lists(down[e]) = {}
          BY <1>2, <1>3, ServerFields DEF Strangers
        <5>2. /\ down[e] \in Seq(ServerMessages(given))
              /\ d.down[e] = Append(Append(down[e], ack), told)
          BY <1>25, <2>1, <4>1
        <5>3. KnowsHost(Append(Append(down[e], ack), told), client[e], hostId[e], told.id)
          BY <1>10, <5>1, <5>2, Welcomed
        <5>. QED BY <1>10, <4>1, <5>2, <5>3
      <4>2. CASE c # e
        BY <1>2, <1>25, <2>1, <4>2, ServerFields DEF LobbyOpen, HostKnown
      <4>. QED BY <4>1, <4>2
    <3>2. update.type \notin HostNews \cup AckNews
      BY <1>10 DEF HostNews, AckNews
    <3>3. d.down[c] \in Seq(ServerMessages(given)) /\ t.down[c] = Append(d.down[c], update)
      BY <1>25, <2>1
    <3>. QED BY <1>10, <1>19, <3>1, <3>2, <3>3, OtherNews
  <2>. QED BY <2>1 DEF HostKnown
<1>27. ListKnown(t)
  <2>1. ASSUME NEW c \in Clients, c \in Established(t), client[c] \in Waiting \cup {"MPLobby"}
        PROVE  KnowsList(t.down[c], client[c], copy[c].players = t.lobby \/ SentLast(c), t.lobby)
    <3>1. d.down[c] \in Seq(ServerMessages(given)) /\ t.down[c] = Append(d.down[c], update)
      BY <1>25, <2>1
    <3>. QED BY <1>10, <1>19, <3>1, NewList
  <2>. QED BY <2>1 DEF ListKnown
<1>28. LobbyOpen(t, {}, given)
  BY <1>2, <1>8, <1>19, <1>23, <1>24, <1>26 DEF LobbyOpen
<1>29. CommonInv
  BY DEF SetupInv
<1>30. CommonInv'
  BY <1>22, <1>29, HandledKeeps
<1>31. LobbyOpen(Server, {}, given)' /\ ListKnown(Server)'
  <2>1. LobbyOpen(Server', {}, given') /\ ListKnown(Server')
    BY <1>1, <1>22, <1>27, <1>28
  <2>. QED BY <1>22, <1>29, <2>1, LobbyCarried
<1>32. fsm' = "MPLobby" /\ lobby' = players
  BY <1>19, <1>22 DEF Server
<1>. QED BY <1>8, <1>30, <1>31, <1>32 DEF SetupInv, OpenLobby

LEMMA HostMPKeeps ==
    ASSUME SetupInv, NEW e, Reading(e), HostMPGame(e), Head(up[e]).type = "HostMP"
    PROVE  SetupInv'
<1>. DEFINE j == EstablishPlayer(Server, e, "Player")
            n == j.player[e].id
            players == <<Entry(n, e, "Player")>>
            update == LobbyData(players, galaxy)
            ack == [type |-> "HostMPAck", id |-> n]
            a == [j EXCEPT !.single = FALSE, !.host = n, !.lobby = players, !.fsm = "MPLobby"]
            b == SendTo(a, {e}, ack)
            t == SendTo(b, {e}, update)
<1>1. /\ fsm = "Idle" /\ Become(t) /\ given' = given /\ processes' = processes
      /\ expected' = expected /\ expectedAIs' = expectedAIs
  BY DEF HostMPGame
<1>2. /\ Identified(Server) /\ Strangers(Server) /\ processes = {} /\ Established(Server) = {}
      /\ connected \in SUBSET Endpoints /\ connected \cap AIs = {} /\ connected \subseteq Clients
  BY <1>1, ServerRoster DEF SetupInv, CommonInv, Endpoints
<1>3. /\ player[e].id = NoPlayer /\ e \in connected
      /\ e \in Clients /\ e \in Endpoints /\ e \notin AIs
  BY <1>2, AsksAsStranger, EndpointsFinite DEF Reading
<1>4. Server \in Servers(given)
  BY ServerRoster
<1>5. /\ j \in Servers(given) /\ j.connected = connected
      /\ j.galaxy = galaxy /\ j.down = down
      /\ j.player[e] = [id |-> NewPlayerID(Server), type |-> "Player"]
      /\ \A f \in Endpoints : f # e => j.player[f] = player[f]
      /\ Identified(j) /\ Established(j) = {e} /\ Strangers(j)
  BY <1>1, <1>2, <1>3, <1>4, ServerFields, Enrolled DEF HumanTypes
<1>6. NewPlayerID(Server) \in Int /\ NewPlayerID(Server) >= 1
  BY <1>4, IdsFinite
<1>. HIDE DEF j
<1>7. n \in Int /\ n # NoPlayer
  BY <1>5, <1>6 DEF NoPlayer
<1>. HIDE DEF n
<1>8. /\ players \in Rows(given) /\ Listing(players)
      /\ 1 \in DOMAIN players /\ players[1] = Entry(n, e, "Player")
  <2>1. Entry(n, e, "Player") \in Entries
    BY <1>3, <1>7 DEF Entry, Entries, ClientTypes, HumanTypes
  <2>. DEFINE x == Entry(n, e, "Player")
  <2>2. x.type = "Player" /\ x.id = n /\ x.name # Unnamed
    BY <1>3, EndpointsAssumption DEF Entry
  <2>. HIDE DEF x
  <2>3. /\ players \in Seq(Entries) /\ DOMAIN players = {1} /\ players[1] = x
    BY <2>1 DEF x
  <2>. HIDE DEF players
  <2>6. GoodRows(players, given)
    BY <1>7, <2>2, <2>3 DEF GoodRows, HumanTypes
  <2>7. Listing(players)
    BY <2>2, <2>3 DEF Listing
  <2>. QED BY <2>3, <2>6, <2>7 DEF Rows, x
<1>. HIDE DEF players
<1>9. galaxy \in {0, 1}
  BY <1>4, ServerFields DEF Servers
<1>10. /\ ack \in ServerMessages(given) /\ update \in ServerMessages(given)
       /\ ack.type = "HostMPAck" /\ ack.id = n
       /\ update.type = "LobbyUpdate" /\ update.players = players
  BY <1>7, <1>8, <1>9, MessagesTyped DEF LobbyData
<1>. HIDE DEF ack, update
<1>11. /\ a \in Rosters(given) /\ a.fsm = "MPLobby" /\ a.connected = connected /\ a.host = n
       /\ a.lobby = players /\ a.galaxy = galaxy /\ a.down = down /\ a.player = j.player
  <2>1. a \in Servers(given)
    BY <1>5, <1>7, <1>8 DEF Servers, Rows, States
  <2>2. /\ a.fsm = "MPLobby" /\ a.connected = connected /\ a.host = n
        /\ a.lobby = players /\ a.galaxy = galaxy /\ a.down = down /\ a.player = j.player
    BY <1>5 DEF Servers
  <2>. QED BY <1>8, <2>1, <2>2 DEF Rosters
<1>12. Strangers(a)
  BY <1>5, <1>11 DEF Strangers
<1>. HIDE DEF a
<1>13. b \in Rosters(given) /\ Strangers(b)
  BY <1>10, <1>11, <1>12, SentRoster
<1>14. /\ b.fsm = "MPLobby" /\ b.connected = connected /\ b.host = n /\ b.lobby = players
       /\ b.galaxy = galaxy /\ b.player = j.player
       /\ \A c \in Clients : b.down[c] = IF c \in {e} THEN Append(down[c], ack) ELSE down[c]
  BY <1>10, <1>11, Sent DEF Rosters
<1>. HIDE DEF b
<1>17. \A c \in {e} : b.player[c].id # NoPlayer
  BY <1>7, <1>14 DEF n
<1>18. t \in Rosters(given) /\ Strangers(t)
  BY <1>10, <1>13, <1>17, SentRoster
<1>19. /\ t.fsm = "MPLobby" /\ t.connected = connected /\ t.host = n /\ t.lobby = players
       /\ t.galaxy = galaxy /\ t.player = j.player
       /\ \A c \in Clients : t.down[c] = IF c \in {e} THEN Append(b.down[c], update)
                                                  ELSE b.down[c]
  BY <1>10, <1>13, <1>14, Sent DEF Rosters
<1>. HIDE DEF t
<1>21. b.down[e] = Append(down[e], ack) /\ t.down[e] = Append(b.down[e], update)
  BY <1>3, <1>14, <1>19
<1>20. Identified(t) /\ Established(t) = {e} /\ t.player[e].id = n
  BY <1>5, <1>19 DEF Identified, Established, n
<1>22. /\ Handled(e) /\ Server' = t
  <2>1. processes \in SUBSET AIs /\ expectedAIs \in SUBSET AIs /\ expected \in Nat
    BY DEF SetupInv, CommonInv, Typed
  <2>2. \A f \in connected \ {e} : t.player[f].id = player[f].id
    BY <1>2, <1>5, <1>19
  <2>. QED BY <1>1, <1>2, <1>18, <1>19, <1>20, <2>1, <2>2, StaysHandled
<1>23. HasHost(t)
  BY <1>19, <1>20 DEF HasHost
<1>24. Listed(t, {})
  <2>1. players[1].id = n /\ players[1].type = "Player"
    BY <1>8 DEF Entry
  <2>. QED BY <1>8, <1>19, <1>20, <2>1 DEF Listed
<1>25. /\ b.down[e] \in Seq(ServerMessages(given)) /\ down[e] \in Seq(ServerMessages(given))
  BY <1>3, <1>4, <1>13, RosterRows, ServerFields DEF Servers
<1>26. HostKnown(t)
  <2>1. KnowsHost(t.down[e], client[e], hostId[e], t.host)
    <3>1. Lists(down[e]) = {}
      BY <1>2, <1>3, ServerFields DEF Strangers
    <3>2. KnowsHost(Append(down[e], ack), client[e], hostId[e], ack.id)
      BY <1>10, <1>25, <3>1, WelcomedHost
    <3>3. update.type \notin HostNews \cup AckNews
      BY <1>10 DEF HostNews, AckNews
    <3>4. KnowsHost(b.down[e], client[e], hostId[e], n)
      BY <1>10, <1>21, <3>2
    <3>5. KnowsHost(Append(b.down[e], update), client[e], hostId[e], n)
      BY <1>10, <1>25, <3>3, <3>4, OtherNews
    <3>. QED BY <1>19, <1>21, <3>5
  <2>. QED BY <1>20, <2>1 DEF HostKnown
<1>27. ListKnown(t)
  <2>1. KnowsList(t.down[e], client[e], copy[e].players = t.lobby \/ SentLast(e), t.lobby)
    BY <1>10, <1>19, <1>21, <1>25, NewList
  <2>. QED BY <1>20, <2>1 DEF ListKnown
<1>28. LobbyOpen(t, {}, given)
  BY <1>2, <1>8, <1>19, <1>23, <1>24, <1>26 DEF LobbyOpen
<1>29. CommonInv
  BY DEF SetupInv
<1>30. CommonInv'
  BY <1>22, <1>29, HandledKeeps
<1>31. LobbyOpen(Server, {}, given)' /\ ListKnown(Server)'
  <2>1. LobbyOpen(Server', {}, given') /\ ListKnown(Server')
    BY <1>1, <1>22, <1>27, <1>28
  <2>. QED BY <1>22, <1>29, <2>1, LobbyCarried
<1>32. fsm' = "MPLobby" /\ lobby' = players
  BY <1>19, <1>22 DEF Server
<1>. QED BY <1>8, <1>30, <1>31, <1>32 DEF SetupInv, OpenLobby

-----------------------------------------------------------------------------
(* The joiners' states.                                                                              *)

LEMMA NewGame ==
    ASSUME NEW names, NEW s \in Servers(names)
    PROVE  /\ NewGameInit(s) \in Rosters(names)
           /\ NewGameInit(s).fsm = "PlayingGame"
           /\ NewGameInit(s).connected = s.connected
           /\ NewGameInit(s).player = s.player
           /\ NewGameInit(s).lobby = s.lobby
           /\ Established(NewGameInit(s)) = Established(s)
           /\ Identified(s) => Identified(NewGameInit(s))
           /\ Strangers(s) => Strangers(NewGameInit(s))
<1>. DEFINE a == [s EXCEPT !.fsm = "PlayingGame"]
            b == [s EXCEPT !.begun = TRUE, !.fsm = "PlayingGame"]
            m == [type |-> "GameStart"]
            t == NewGameInit(s)
            good == t \in Rosters(names) /\ t.fsm = "PlayingGame" /\ t.connected = s.connected
                    /\ t.player = s.player /\ t.lobby = s.lobby /\ (Strangers(s) => Strangers(t))
<1>1. /\ a \in Servers(names) /\ a.fsm = "PlayingGame" /\ a.connected = s.connected
      /\ a.player = s.player /\ a.lobby = s.lobby /\ a.down = s.down
  BY DEF Servers, States
<1>2. /\ b \in Servers(names) /\ b.fsm = "PlayingGame" /\ b.connected = s.connected
      /\ b.player = s.player /\ b.lobby = s.lobby /\ b.down = s.down
  BY DEF Servers, States
<1>3. t = a \/ t = SendTo(b, Established(s), m)
  BY DEF NewGameInit
<1>. HIDE DEF a, b, t
<1>4. ASSUME t = a PROVE good
  BY <1>1, <1>4 DEF Rosters, Strangers
<1>5. ASSUME t = SendTo(b, Established(s), m) PROVE good
  <2>1. m \in ServerMessages(names) /\ m.type # "LobbyUpdate"
    BY DEF ServerMessages
  <2>. HIDE DEF m
  <2>2. b \in Rosters(names) /\ (Strangers(s) => Strangers(b))
    BY <1>2 DEF Rosters, Strangers
  <2>3. t \in Rosters(names) /\ (Strangers(b) => Strangers(t))
    BY <1>5, <2>1, <2>2, SentRoster
  <2>4. t.fsm = "PlayingGame" /\ t.connected = s.connected /\ t.player = s.player /\ t.lobby = s.lobby
    BY <1>2, <1>5, <2>1, Sent
  <2>. QED BY <2>2, <2>3, <2>4
<1>6. good
  BY <1>3, <1>4, <1>5
<1>7. Established(t) = Established(s) /\ (Identified(s) => Identified(t))
  BY <1>6 DEF Established, Identified
<1>. QED BY <1>6, <1>7 DEF t

(* The conditions are checked: the game begins or they do not hold.                                  *)
LEMMA Checked ==
    ASSUME NEW names, NEW s \in Servers(names), s.fsm = "Joiners", NEW n
    PROVE  /\ CheckStartConditions(s, n) \in Rosters(names)
           /\ CheckStartConditions(s, n).fsm \in {"Joiners", "PlayingGame"}
           /\ CheckStartConditions(s, n).fsm = "Joiners" => Cardinality(Established(s)) # n
           /\ CheckStartConditions(s, n).connected = s.connected
           /\ CheckStartConditions(s, n).player = s.player
           /\ CheckStartConditions(s, n).lobby = s.lobby
           /\ Established(CheckStartConditions(s, n)) = Established(s)
           /\ Identified(s) => Identified(CheckStartConditions(s, n))
           /\ Strangers(s) => Strangers(CheckStartConditions(s, n))
<1>1. CASE Cardinality(Established(s)) = n
  <2>1. CheckStartConditions(s, n) = NewGameInit(s)
    BY <1>1 DEF CheckStartConditions, NumEstablishedPlayers
  <2>. QED BY <2>1, NewGame
<1>2. CASE Cardinality(Established(s)) # n
  <2>1. CheckStartConditions(s, n) = s
    BY <1>2 DEF CheckStartConditions, NumEstablishedPlayers
  <2>. QED BY <1>2, <2>1 DEF Rosters
<1>. QED BY <1>1, <1>2

LEMMA AINamesFinite ==
    ASSUME NEW l \in Seq(Entries), Listing(l)
    PROVE  /\ AINames(l) \in SUBSET AIs
           /\ IsFiniteSet(AINames(l))
           /\ Cardinality(AINames(l)) \in Nat
<1>1. AINames(l) \in SUBSET AIs
  BY DEF AINames, Listing
<1>2. IsFiniteSet(AINames(l))
  BY <1>1, EndpointsAssumption, FS_Subset
<1>. QED BY <1>1, <1>2, FS_CardinalityType

Distinct(l) ==
    \A i, j \in DOMAIN l : l[i].type = "AI" /\ l[j].type = "AI" /\ l[i].name = l[j].name => i = j

LEMMA WaitKeeps ==
    ASSUME SetupInv, NEW e, Reading(e), fsm \in {"Idle", "MPLobby"},
           NEW s \in Servers(given), s.connected = connected,
           \A f \in connected \ {e} : s.player[f].id = player[f].id,
           Identified(s), Strangers(s), Listing(s.lobby), Distinct(s.lobby),
           Cardinality(AINames(s.lobby)) + Cardinality(Established(s)) <= Len(s.lobby),
           WaitForJoiners(s), given' = given
    PROVE  SetupInv'
<1>. DEFINE a == [s EXCEPT !.fsm = "Joiners"]
            t == CheckStartConditions(a, Len(s.lobby))
<1>1. /\ processes' = AINames(s.lobby) /\ expectedAIs' = AINames(s.lobby)
      /\ expected' = Len(s.lobby) /\ Become(t)
  BY DEF WaitForJoiners
<1>2. /\ a \in Servers(given) /\ a.fsm = "Joiners" /\ a.connected = s.connected
      /\ a.player = s.player /\ a.lobby = s.lobby /\ a.down = s.down
  BY DEF Servers, States
<1>. HIDE DEF a
<1>3. /\ Established(a) = Established(s) /\ Identified(a) /\ Strangers(a)
  BY <1>2 DEF Established, Identified, Strangers
<1>4. /\ t \in Rosters(given) /\ t.fsm \in {"Joiners", "PlayingGame"}
      /\ t.fsm = "Joiners" => Cardinality(Established(a)) # Len(s.lobby)
      /\ t.connected = a.connected /\ t.player = a.player /\ t.lobby = a.lobby
      /\ Established(t) = Established(a) /\ Identified(t) /\ Strangers(t)
  BY <1>2, <1>3, Checked
<1>. HIDE DEF t
<1>5. s.lobby \in Seq(Entries) /\ s.connected \in SUBSET Endpoints
  BY DEF Servers
<1>6. /\ AINames(s.lobby) \in SUBSET AIs /\ Cardinality(AINames(s.lobby)) \in Nat
      /\ Cardinality(Established(s)) \in Nat
  BY <1>5, AINamesFinite, EstablishedFinite DEF NumEstablishedPlayers
<1>7. Len(s.lobby) \in Nat
  BY <1>5
<1>8. processes = {}
  BY ServerRoster
<1>9. /\ Handled(e) /\ Server' = t
      /\ fsm' = t.fsm /\ connected' = t.connected /\ player' = t.player /\ lobby' = t.lobby
  BY <1>1, <1>2, <1>4, <1>6, <1>7, <1>8, StaysHandled
<1>10. CommonInv
  BY DEF SetupInv
<1>11. CommonInv'
  BY <1>9, <1>10, HandledKeeps
<1>12. AIsAsk'
  BY <1>9, <1>10, AskingKept
<1>13. ASSUME fsm' = "Joiners" PROVE JoinersCounted'
  <2>1. Cardinality(Established(s)) # Len(s.lobby)
    BY <1>3, <1>4, <1>9, <1>13
  <2>2. Established(Server') = Established(s) /\ lobby' = s.lobby
    BY <1>2, <1>3, <1>4, <1>9
  <2>3. Cardinality(Established(s)) < Len(s.lobby)
    BY <1>6, <1>7, <2>1
  <2>. QED BY <1>1, <2>2, <2>3 DEF JoinersCounted, Distinct
<1>. QED BY <1>4, <1>9, <1>11, <1>12, <1>13 DEF SetupInv

(* In the lobby there is an entry for every AI and every player.                                      *)
LEMMA LobbyHolds ==
    ASSUME SetupInv, fsm = "MPLobby"
    PROVE  /\ Distinct(lobby)
           /\ Cardinality(AINames(lobby)) + Cardinality(Established(Server)) <= Len(lobby)
<1>. DEFINE A == AINames(lobby)
            E == Established(Server)
            D == DOMAIN lobby
            f == [x \in A \cup E |->
                    IF x \in A THEN CHOOSE i \in D : lobby[i].type = "AI" /\ lobby[i].name = x
                    ELSE CHOOSE i \in D : lobby[i].id = player[x].id]
<1>1. /\ LobbyOpen(Server, {}, given) /\ Listing(lobby) /\ Identified(Server)
      /\ lobby \in Rows(given) /\ lobby \in Seq(Entries) /\ connected \in SUBSET Endpoints
      /\ connected \cap AIs = {}
  BY ServerRoster, ServerFields DEF SetupInv, OpenLobby, CommonInv, LobbyOpen
<1>2. GoodRows(lobby, given)
  BY <1>1 DEF Rows
<1>3. Distinct(lobby)
  BY <1>2 DEF GoodRows, Distinct
<1>4. /\ A \in SUBSET AIs /\ IsFiniteSet(A) /\ Cardinality(A) \in Nat
  BY <1>1, AINamesFinite
<1>5. /\ E \in SUBSET Endpoints /\ IsFiniteSet(E) /\ Cardinality(E) \in Nat /\ E \subseteq connected
  <2>1. Server.connected \in SUBSET Endpoints
    BY <1>1, ServerFields
  <2>. QED BY <2>1, EstablishedFinite, FS_CardinalityType, ServerFields DEF Established
<1>6. A \cap E = {}
  BY <1>1, <1>4, <1>5
<1>7. \A x \in A : \E i \in D : lobby[i].type = "AI" /\ lobby[i].name = x
  BY DEF AINames
<1>8. \A x \in E : \E i \in D : lobby[i].id = player[x].id
  BY <1>1, ServerFields DEF LobbyOpen, Listed
<1>9. \A x \in E : player[x].id # NoPlayer
  BY ServerFields DEF Established
<1>. HIDE DEF A, E
<1>10. /\ \A x \in A : f[x] \in D /\ lobby[f[x]].type = "AI" /\ lobby[f[x]].name = x
       /\ \A x \in E : f[x] \in D /\ lobby[f[x]].id = player[x].id
  <2>1. ASSUME NEW x \in A PROVE f[x] \in D /\ lobby[f[x]].type = "AI" /\ lobby[f[x]].name = x
    <3>1. f[x] = CHOOSE i \in D : lobby[i].type = "AI" /\ lobby[i].name = x
      OBVIOUS
    <3>. QED BY <1>7, <3>1
  <2>2. ASSUME NEW x \in E PROVE f[x] \in D /\ lobby[f[x]].id = player[x].id
    <3>1. f[x] = CHOOSE i \in D : lobby[i].id = player[x].id
      BY <1>6
    <3>. QED BY <1>8, <3>1
  <2>. QED BY <2>1, <2>2
<1>11. f \in [A \cup E -> D]
  BY <1>10
<1>. HIDE DEF f, D
<1>12. ASSUME NEW x \in A \cup E, NEW y \in A \cup E, f[x] = f[y] PROVE x = y
  <2>1. CASE x \in A /\ y \in A
    BY <1>10, <1>12, <2>1
  <2>2. CASE x \in E /\ y \in E
    <3>1. player[x].id = player[y].id /\ player[x].id # NoPlayer /\ x \in Endpoints /\ y \in Endpoints
      BY <1>5, <1>9, <1>10, <1>12, <2>2
    <3>. QED BY <1>1, <3>1, ServerFields DEF Identified
  <2>3. ASSUME NEW u \in A, NEW v \in E, f[u] = f[v] PROVE FALSE
    <3>1. lobby[f[u]].id = NoPlayer
      BY <1>2, <1>10 DEF GoodRows, D
    <3>. QED BY <1>9, <1>10, <2>3, <3>1
  <2>. QED BY <1>12, <2>1, <2>2, <2>3
<1>13. f \in Injection(A \cup E, D)
  BY <1>11, <1>12 DEF Injection, IsInjective
<1>14. IsFiniteSet(D) /\ Cardinality(D) = Len(lobby)
  <2>1. D = 1..Len(lobby) /\ Len(lobby) \in Nat
    BY <1>1 DEF D
  <2>. QED BY <2>1, FS_Interval
<1>15. Cardinality(A \cup E) <= Len(lobby)
  BY <1>13, <1>14, FS_Injection
<1>16. Cardinality(A \cup E) = Cardinality(A) + Cardinality(E)
  <2>1. Cardinality(A \cup E) = Cardinality(A) + Cardinality(E) - Cardinality(A \cap E)
    BY <1>4, <1>5, FS_Union
  <2>2. Cardinality(A \cap E) = 0
    BY <1>6, FS_EmptySet
  <2>. QED BY <1>4, <1>5, <2>1, <2>2
<1>. QED BY <1>3, <1>15, <1>16 DEF A, E

LEMMA StartKeeps ==
    ASSUME SetupInv, NEW e, Reading(e), NEW order \in Orders, StartMPGame(e, order),
           Head(up[e]).type = "Start"
    PROVE  SetupInv'
<1>1. fsm = "MPLobby" /\ given' = given
  BY DEF StartMPGame
<1>2. /\ Identified(Server) /\ Strangers(Server) /\ Listing(lobby) /\ CommonInv
      /\ Server \in Servers(given)
  BY <1>1, ServerRoster DEF SetupInv, OpenLobby, CommonInv
<1>3. CASE ~ PlayerIsHost(Server, e)
  <2>1. /\ Become(Disconnect(Server, e, order)) /\ processes' = processes
        /\ expected' = expected /\ expectedAIs' = expectedAIs
    BY <1>3 DEF StartMPGame
  <2>. QED BY <1>1, <2>1, EndedKeeps
<1>4. CASE PlayerIsHost(Server, e) /\ Len(lobby) = NumEstablishedPlayers(Server)
  <2>. DEFINE t == NewGameInit(Server)
  <2>1. /\ Become(t) /\ processes' = processes
        /\ expected' = expected /\ expectedAIs' = expectedAIs
    BY <1>4 DEF StartMPGame
  <2>2. /\ t \in Rosters(given) /\ t.fsm = "PlayingGame" /\ t.connected = connected
        /\ t.player = player /\ Identified(t) /\ Strangers(t)
    BY <1>2, NewGame, ServerFields
  <2>3. processes \in SUBSET AIs /\ expectedAIs \in SUBSET AIs /\ expected \in Nat
    BY DEF SetupInv, CommonInv, Typed
  <2>. HIDE DEF t
  <2>4. Handled(e) /\ fsm' = "PlayingGame"
    BY <1>1, <2>1, <2>2, <2>3, StaysHandled
  <2>5. CommonInv'
    BY <1>2, <2>4, HandledKeeps
  <2>. QED BY <2>4, <2>5 DEF SetupInv
<1>5. CASE PlayerIsHost(Server, e) /\ Len(lobby) # NumEstablishedPlayers(Server)
  <2>1. WaitForJoiners(Server)
    BY <1>5 DEF StartMPGame
  <2>. QED BY <1>1, <1>2, <2>1, LobbyHolds, ServerFields, WaitKeeps
<1>. QED BY <1>3, <1>4, <1>5

LEMMA JoinGameKeeps ==
    ASSUME SetupInv, NEW e, Reading(e), NEW order \in Orders, JoinGame(e, order),
           Head(up[e]).type = "Join"
    PROVE  SetupInv'
<1>. DEFINE type == IF e \in AIs THEN "AI" ELSE "Player"
            j == EstablishPlayer(Server, e, type)
            n == j.player[e].id
            ack == [type |-> "JoinAck", id |-> n]
            a == SendTo(j, {e}, ack)
            E == Established(Server)
            t == CheckStartConditions(a, expected)
<1>1. /\ fsm = "Joiners" /\ given' = given /\ processes' = processes
      /\ expected' = expected /\ expectedAIs' = expectedAIs \ {e}
  BY DEF JoinGame
<1>2. /\ JoinersCounted /\ AIsAsk /\ CommonInv /\ Identified(Server) /\ Strangers(Server)
      /\ Server \in Servers(given) /\ Server \in Rosters(given) /\ connected \in SUBSET Endpoints
  BY <1>1, ServerRoster DEF SetupInv, CommonInv
<1>3. /\ player[e].id = NoPlayer /\ e \notin E /\ e \in connected /\ e \in Endpoints
  BY AsksAsStranger DEF Reading
<1>4. /\ expectedAIs \in SUBSET AIs /\ processes \in SUBSET AIs /\ expected \in Nat
      /\ IsFiniteSet(expectedAIs) /\ Cardinality(expectedAIs) \in Nat
      /\ IsFiniteSet(E) /\ Cardinality(E) \in Nat
  <2>1. expectedAIs \in SUBSET AIs /\ processes \in SUBSET AIs /\ expected \in Nat
    BY DEF SetupInv, CommonInv, Typed
  <2>2. Server.connected \in SUBSET Endpoints
    BY <1>2, ServerFields
  <2>. QED BY <2>1, <2>2, EndpointsAssumption, FS_Subset, EstablishedFinite, FS_CardinalityType
<1>5. CASE HasRoom(e)
  <2>1. Become(t)
    BY <1>5 DEF JoinGame
  <2>2. /\ j \in Servers(given) /\ j.fsm = "Joiners" /\ j.connected = connected
        /\ j.lobby = lobby
        /\ j.player[e] = [id |-> NewPlayerID(Server), type |-> type]
        /\ \A f \in Endpoints : f # e => j.player[f] = player[f]
        /\ Identified(j) /\ Established(j) = E \cup {e} /\ Strangers(j)
    BY <1>1, <1>2, <1>3, ServerFields, Enrolled DEF HumanTypes
  <2>3. NewPlayerID(Server) \in Int /\ NewPlayerID(Server) >= 1
    BY <1>2, IdsFinite
  <2>. HIDE DEF j, E
  <2>4. n \in Int /\ n # NoPlayer
    BY <2>2, <2>3 DEF NoPlayer
  <2>5. ack \in ServerMessages(given) /\ ack.type # "LobbyUpdate"
    BY <2>4 DEF ServerMessages
  <2>. HIDE DEF ack
  <2>6. j \in Rosters(given)
    BY <2>2 DEF Rosters
  <2>7. a \in Rosters(given) /\ Strangers(a)
    BY <2>2, <2>5, <2>6, SentRoster
  <2>8. /\ a.fsm = "Joiners" /\ a.connected = connected /\ a.player = j.player /\ a.lobby = lobby
    BY <2>2, <2>5, Sent
  <2>. HIDE DEF a
  <2>9. Identified(a) /\ Established(a) = E \cup {e} /\ a \in Servers(given)
    BY <2>2, <2>7, <2>8 DEF Identified, Established, Rosters
  <2>10. /\ t \in Rosters(given) /\ t.fsm \in {"Joiners", "PlayingGame"}
         /\ t.fsm = "Joiners" => Cardinality(E \cup {e}) # expected
         /\ t.connected = connected /\ t.player = j.player /\ t.lobby = lobby
         /\ Established(t) = E \cup {e} /\ Identified(t) /\ Strangers(t)
    BY <2>7, <2>8, <2>9, Checked
  <2>. HIDE DEF t
  <2>11. \A f \in connected \ {e} : t.player[f].id = player[f].id
    BY <1>2, <2>2, <2>10
  <2>12. /\ Handled(e) /\ Server' = t
         /\ fsm' = t.fsm /\ connected' = t.connected /\ player' = t.player /\ lobby' = t.lobby
    BY <1>1, <1>4, <2>1, <2>10, <2>11, StaysHandled
  <2>13. CommonInv'
    BY <1>2, <2>12, HandledKeeps
  <2>14. player'[e].id # NoPlayer
    BY <2>4, <2>10, <2>12
  <2>15. AIsAsk'
    BY <1>1, <1>2, <2>12, <2>14, AskingKept
  <2>16. ASSUME fsm' = "Joiners" PROVE JoinersCounted'
    <3>1. Cardinality(E \cup {e}) = Cardinality(E) + 1
      BY <1>3, <1>4, FS_AddElement
    <3>2. Cardinality(expectedAIs \ {e}) = IF e \in expectedAIs THEN Cardinality(expectedAIs) - 1
                                           ELSE Cardinality(expectedAIs)
      BY <1>4, FS_RemoveElement
    <3>3. Cardinality(expectedAIs) + Cardinality(E) <= expected
      BY <1>2 DEF JoinersCounted, E
    <3>4. Cardinality(expectedAIs \ {e}) + Cardinality(E \cup {e}) <= expected
      <4>1. CASE e \in AIs
        <5>1. e \in expectedAIs
          BY <1>5, <4>1 DEF HasRoom
        <5>. QED BY <1>4, <3>1, <3>2, <3>3, <5>1
      <4>2. CASE e \notin AIs
        <5>1. Cardinality(expectedAIs) + Cardinality(E) < expected
          BY <1>5, <4>2 DEF HasRoom, NumEstablishedPlayers, E
        <5>2. e \notin expectedAIs
          BY <1>4, <4>2
        <5>. QED BY <1>4, <3>1, <3>2, <5>1, <5>2
      <4>. QED BY <4>1, <4>2
    <3>5. Cardinality(E \cup {e}) < expected
      <4>1. Cardinality(expectedAIs \ {e}) \in Nat
        BY <1>4, <3>2, FS_RemoveElement, FS_CardinalityType
      <4>2. Cardinality(E \cup {e}) # expected
        BY <2>10, <2>12, <2>16
      <4>. QED BY <1>4, <3>1, <3>4, <4>1, <4>2
    <3>6. lobby' = lobby /\ Established(Server') = E \cup {e}
      BY <2>10, <2>12
    <3>. QED BY <1>1, <1>2, <3>4, <3>5, <3>6 DEF JoinersCounted
  <2>. QED BY <2>10, <2>12, <2>13, <2>15, <2>16 DEF SetupInv
<1>6. CASE ~ HasRoom(e)
  <2>. DEFINE d == Disconnect(Server, e, order)
  <2>1. Become(CheckStartConditions(d, expected))
    BY <1>6 DEF JoinGame
  <2>2. Orderly(order, Server) /\ order \in Seq(Clients)
    BY ServerRoster, OrdersOrderly DEF Orderly
  <2>3. Left(d, Server, e, given)
    BY <1>2, <1>3, <2>2, DisconnectLeaves
  <2>4. Established(d) = E \ {e}
    BY <1>2, <1>3, <2>3, LeftIdentified
  <2>5. Cardinality(Established(d)) < expected
    <3>1. Established(d) = E
      BY <1>3, <2>4
    <3>. QED BY <1>2, <3>1 DEF JoinersCounted
  <2>6. CheckStartConditions(d, expected) = d
    <3>. HIDE DEF d
    <3>1. Cardinality(Established(d)) # expected
      <4>1. Established(d) = E
        BY <1>3, <2>4
      <4>. QED BY <1>4, <2>5, <4>1
    <3>. QED BY <3>1 DEF CheckStartConditions, NumEstablishedPlayers
  <2>. QED BY <1>1, <2>1, <2>6, EndedKeeps
<1>. QED BY <1>5, <1>6

LEMMA InOrder ==
    ASSUME NEW S \in SUBSET AIs
    PROVE  /\ IsFiniteSet(S) /\ Cardinality(S) \in Nat
           /\ SetToSeq(S) \in [1..Cardinality(S) -> S]
           /\ \A i, j \in 1..Cardinality(S) : SetToSeq(S)[i] = SetToSeq(S)[j] => i = j
<1>1. IsFiniteSet(S)
  BY EndpointsAssumption, FS_Subset
<1>2. Cardinality(S) \in Nat /\ ExistsBijection(1..Cardinality(S), S)
  BY <1>1, FS_CardinalityType
<1>3. \E f \in [1..Cardinality(S) -> S] : IsInjective(f)
  BY <1>2 DEF ExistsBijection, Bijection, Injection, IsInjective
<1>4. SetToSeq(S) \in [1..Cardinality(S) -> S] /\ IsInjective(SetToSeq(S))
  BY <1>3 DEF SetToSeq
<1>. QED BY <1>1, <1>2, <1>4 DEF IsInjective

(* A single-player game has one entry of a human and those of the AIs asked for.                      *)
LEMMA SingleRows ==
    ASSUME NEW S \in SUBSET AIs, NEW h, h \in Entries, h.type = "Player", h.name # Unnamed,
           NEW rows,
           rows = [i \in DOMAIN SetToSeq(S) |-> Entry(NoPlayer, SetToSeq(S)[i], "AI")]
    PROVE  /\ <<h>> \o rows \in Seq(Entries)
           /\ Len(<<h>> \o rows) = 1 + Cardinality(S)
           /\ Listing(<<h>> \o rows)
           /\ Distinct(<<h>> \o rows)
           /\ AINames(<<h>> \o rows) \subseteq S
<1>. DEFINE n == Cardinality(S)
            q == SetToSeq(S)
            l == <<h>> \o rows
<1>1. /\ n \in Nat /\ q \in [1..n -> S]
      /\ \A i, j \in 1..n : q[i] = q[j] => i = j
  BY InOrder
<1>. HIDE DEF n, q
<1>2. rows = [i \in 1..n |-> Entry(NoPlayer, q[i], "AI")]
  BY <1>1 DEF q
<1>3. \A i \in 1..n : /\ rows[i] \in Entries /\ rows[i].type = "AI" /\ rows[i].name = q[i]
                      /\ q[i] \in S
  <2>1. ASSUME NEW i \in 1..n
        PROVE  /\ rows[i] \in Entries /\ rows[i].type = "AI" /\ rows[i].name = q[i]
               /\ q[i] \in S
    <3>1. q[i] \in S /\ rows[i] = Entry(NoPlayer, q[i], "AI")
      BY <1>1, <1>2
    <3>2. NoPlayer \in Int
      BY DEF NoPlayer
    <3>. QED BY <3>1, <3>2 DEF Entry, Entries, Endpoints, ClientTypes
  <2>. QED BY <2>1
<1>4. rows \in Seq(Entries) /\ Len(rows) = n
  <2>1. rows \in [1..n -> Entries]
    BY <1>2, <1>3
  <2>. QED BY <1>1, <2>1
<1>5. /\ l \in Seq(Entries) /\ Len(l) = 1 + n /\ DOMAIN l = 1..1 + n
      /\ l[1] = h /\ \A i \in 1..n : l[i + 1] = rows[i]
  <2>. DEFINE first == <<h>>
  <2>1. first \in Seq(Entries) /\ Len(first) = 1 /\ first[1] = h
    OBVIOUS
  <2>. HIDE DEF first
  <2>2. first \o rows \in Seq(Entries) /\ Len(first \o rows) = 1 + n
    <3>1. first \o rows \in Seq(Entries) /\ Len(first \o rows) = Len(first) + Len(rows)
      BY <1>4, <2>1, ConcatProperties
    <3>. QED BY <1>4, <2>1, <3>1
  <2>3. \A i \in 1..1 + n : (first \o rows)[i] = IF i <= 1 THEN first[i] ELSE rows[i - 1]
    BY <1>1, <1>4, <2>1, <2>2, ConcatProperties
  <2>4. /\ 1 \in 1..1 + n /\ 1 <= 1
        /\ \A i \in 1..n : i + 1 \in 1..1 + n /\ ~ (i + 1 <= 1) /\ (i + 1) - 1 = i
    BY <1>1
  <2>5. (first \o rows)[1] = h /\ \A i \in 1..n : (first \o rows)[i + 1] = rows[i]
    BY <2>1, <2>3, <2>4
  <2>6. DOMAIN (first \o rows) = 1..1 + n
    BY <2>2
  <2>. QED BY <2>2, <2>5, <2>6 DEF first
<1>. HIDE DEF l
<1>6. ASSUME NEW k \in DOMAIN l
      PROVE  \/ l[k] = h
             \/ k - 1 \in 1..n /\ l[k] = rows[k - 1]
  <2>1. k = 1 \/ (k - 1 \in 1..n /\ (k - 1) + 1 = k)
    BY <1>1, <1>5
  <2>. QED BY <1>5, <2>1
<1>7. Listing(l)
  <2>1. Unnamed \notin S
    BY EndpointsAssumption
  <2>. QED BY <1>3, <1>6, <2>1 DEF Listing
<1>8. Distinct(l)
  <2>1. ASSUME NEW i \in DOMAIN l, NEW k \in DOMAIN l, l[i].type = "AI", l[k].type = "AI",
               l[i].name = l[k].name
        PROVE  i = k
    <3>1. i - 1 \in 1..n /\ l[i] = rows[i - 1] /\ k - 1 \in 1..n /\ l[k] = rows[k - 1]
      BY <1>6, <2>1
    <3>0. q[i - 1] = q[k - 1]
      BY <1>3, <2>1, <3>1
    <3>2. i - 1 = k - 1
      BY <1>1, <3>0, <3>1
    <3>. QED BY <1>1, <1>5, <3>2
  <2>. QED BY <2>1 DEF Distinct
<1>9. AINames(l) \subseteq S
  BY <1>3, <1>6 DEF AINames
<1>. QED BY <1>5, <1>7, <1>8, <1>9 DEF l, n

LEMMA HostSPKeeps ==
    ASSUME SetupInv, NEW e, Reading(e), HostSPGame(e, Head(up[e]).ais), Head(up[e]).type = "HostSP"
    PROVE  SetupInv'
<1>. DEFINE ais == Head(up[e]).ais
            j == EstablishPlayer(Server, e, "Player")
            n == j.player[e].id
            names == SetToSeq(ais)
            first == Entry(NoPlayer, e, "Player")
            rows == [i \in DOMAIN names |-> Entry(NoPlayer, names[i], "AI")]
            players == <<first>> \o rows
            ack == [type |-> "HostSPAck", id |-> n]
            a == [j EXCEPT !.single = TRUE, !.host = n, !.lobby = players]
            s == SendTo(a, {e}, ack)
<1>1. /\ fsm = "Idle" /\ WaitForJoiners(s) /\ given' = given
  BY DEF HostSPGame
<1>2. /\ Identified(Server) /\ Strangers(Server) /\ Established(Server) = {}
      /\ connected \in SUBSET Endpoints /\ connected \cap AIs = {}
      /\ Server \in Servers(given)
  BY <1>1, ServerRoster DEF SetupInv, CommonInv
<1>3. /\ player[e].id = NoPlayer /\ e \in connected /\ e \in Endpoints /\ e \notin AIs
  BY <1>2, AsksAsStranger DEF Reading
<1>4. ais \in SUBSET AIs
  <2>1. up[e] \in Seq(ClientMessages(given)) /\ up[e] # <<>>
    BY <1>3 DEF SetupInv, CommonInv, Typed, Reading
  <2>2. Head(up[e]) \in ClientMessages(given)
    BY <2>1
  <2>. QED BY <2>2 DEF ClientMessages, Updates
<1>. HIDE DEF ais
<1>5. /\ j \in Servers(given) /\ j.connected = connected
      /\ j.player[e] = [id |-> NewPlayerID(Server), type |-> "Player"]
      /\ \A f \in Endpoints : f # e => j.player[f] = player[f]
      /\ Identified(j) /\ Established(j) = {e} /\ Strangers(j) /\ j.fsm = "Idle"
  BY <1>1, <1>2, <1>3, ServerFields, Enrolled DEF HumanTypes
<1>6. NewPlayerID(Server) \in Int
  BY <1>2, IdsFinite
<1>. HIDE DEF j
<1>7. n \in Int
  BY <1>5, <1>6
<1>. HIDE DEF n
<1>8. first \in Entries /\ first.type = "Player" /\ first.name # Unnamed
  <2>1. NoPlayer \in Int
    BY DEF NoPlayer
  <2>2. e # Unnamed
    BY <1>3, EndpointsAssumption DEF Endpoints
  <2>. QED BY <1>3, <2>1, <2>2 DEF Entry, Entries, ClientTypes, HumanTypes
<1>. HIDE DEF first
<1>9. /\ players \in Seq(Entries) /\ Len(players) = 1 + Cardinality(ais)
      /\ Listing(players) /\ Distinct(players) /\ AINames(players) \subseteq ais
  BY <1>4, <1>8, SingleRows
<1>. HIDE DEF players
<1>10. /\ a \in Servers(given) /\ a.fsm = j.fsm /\ a.connected = connected
       /\ a.lobby = players /\ a.player = j.player /\ a.down = j.down
  BY <1>5, <1>7, <1>9 DEF Servers
<1>11. Strangers(a) /\ Identified(a) /\ Established(a) = {e}
  BY <1>5, <1>10 DEF Strangers, Identified, Established
<1>. HIDE DEF a
<1>13. ack \in ServerMessages(given) /\ ack.type # "LobbyUpdate"
  BY <1>7 DEF ServerMessages
<1>. HIDE DEF ack
<1>14. s \in Servers(given) /\ Strangers(s)
  <2>1. a \in Rosters(given)
    BY <1>5, <1>10 DEF Rosters
  <2>. QED BY <1>11, <1>13, <2>1, SentRoster DEF Rosters
<1>15. s.connected = connected /\ s.lobby = players /\ s.player = j.player
  BY <1>10, <1>13, Sent
<1>. HIDE DEF s
<1>16. Identified(s) /\ Established(s) = {e}
  BY <1>10, <1>11, <1>15 DEF Identified, Established
<1>17. \A f \in connected \ {e} : s.player[f].id = player[f].id
  BY <1>2, <1>5, <1>15
<1>18. Cardinality(AINames(s.lobby)) + Cardinality(Established(s)) <= Len(s.lobby)
  <2>1. Cardinality(AINames(players)) <= Cardinality(ais) /\ Cardinality(AINames(players)) \in Nat
        /\ Cardinality(ais) \in Nat
    BY <1>4, <1>9, InOrder, FS_Subset, FS_CardinalityType
  <2>2. Cardinality(Established(s)) = 1
    BY <1>16, FS_Singleton
  <2>. QED BY <1>9, <1>15, <2>1, <2>2
<1>. QED BY <1>1, <1>9, <1>14, <1>15, <1>16, <1>17, <1>18, WaitKeeps

-----------------------------------------------------------------------------
(* A list of players arrives (l): who is dropped, what the others become.                             *)
DroppedBy(l) == {c \in Established(Server) : ListedType(l, c) = "Invalid"}
TypesOf(l) == [c \in Endpoints |->
                 IF c \in Established(Server) \ DroppedBy(l)
                 THEN [player[c] EXCEPT !.type = ListedType(l, c)] ELSE player[c]]
Taken(l, g, order) ==
    [Server EXCEPT !.lobby = Erased(l, DroppedBy(l), order), !.galaxy = g, !.player = TypesOf(l)]

LEMMA ListedTypes ==
    ASSUME NEW l \in Seq(Entries), NEW c
    PROVE  /\ ListedType(l, c) \in ClientTypes \cup {"Invalid"}
           /\ ListedType(l, c) # "Invalid" =>
                 \E i \in DOMAIN l : l[i].id = player[c].id /\ l[i].type = ListedType(l, c)
           /\ Listing(l) /\ (\E i \in DOMAIN l : l[i].id = player[c].id) => ListedType(l, c) # "Invalid"
<1>. DEFINE P == PlacesOf(l, player[c].id)
            m == Min(P)
<1>1. P \in SUBSET Nat /\ \A i \in P : i \in DOMAIN l /\ l[i].id = player[c].id
  BY DEF PlacesOf
<1>2. \A i \in DOMAIN l : l[i] \in Entries
  OBVIOUS
<1>3. ListedType(l, c) = IF P = {} THEN "Invalid" ELSE l[m].type
  BY DEF ListedType
<1>4. (\E i \in DOMAIN l : l[i].id = player[c].id) => P # {}
  BY DEF PlacesOf
<1>. HIDE DEF P
<1>5. P # {} => m \in P
  BY <1>1, SmallestOf
<1>. HIDE DEF m
<1>6. CASE P = {}
  BY <1>3, <1>4, <1>6
<1>7. CASE P # {}
  <2>1. m \in DOMAIN l /\ l[m].id = player[c].id /\ l[m].type = ListedType(l, c) /\ l[m] \in Entries
    BY <1>1, <1>2, <1>3, <1>5, <1>7
  <2>. QED BY <2>1 DEF Entries, Listing
<1>. QED BY <1>6, <1>7

LEMMA ListTaken ==
    ASSUME SetupInv, fsm = "MPLobby", NEW l \in Rows(given), NEW g \in {0, 1}, NEW order \in Orders
    PROVE  /\ DroppedBy(l) \in SUBSET Clients /\ DroppedBy(l) \subseteq connected
           /\ Taken(l, g, order) \in Rosters(given)
           /\ Taken(l, g, order).fsm = "MPLobby"
           /\ Taken(l, g, order).connected = connected
           /\ Taken(l, g, order).lobby = Erased(l, DroppedBy(l), order)
           /\ Taken(l, g, order).galaxy = g
           /\ Taken(l, g, order).down = down
           /\ \A c \in Endpoints : Taken(l, g, order).player[c].id = player[c].id
           /\ Established(Taken(l, g, order)) = Established(Server)
           /\ Identified(Taken(l, g, order))
           /\ Strangers(Taken(l, g, order))
           /\ LobbyOpen(Taken(l, g, order), DroppedBy(l), given)
           /\ DroppedBy(l) = {} => Taken(l, g, order).lobby = l
<1>. DEFINE drops == DroppedBy(l)
            E == Established(Server)
            erased == Erased(l, drops, order)
            s == Taken(l, g, order)
<1>1. /\ LobbyOpen(Server, {}, given) /\ Identified(Server) /\ Strangers(Server)
      /\ Server \in Servers(given) /\ connected \in SUBSET Endpoints /\ connected \subseteq Clients
      /\ player \in [Endpoints -> Players] /\ l \in Seq(Entries) /\ GoodRows(l, given)
  BY ServerRoster, ServerFields DEF SetupInv, OpenLobby, CommonInv, LobbyOpen, Servers, Rows
<1>2. E \subseteq connected /\ (\A c \in E : player[c].id # NoPlayer)
      /\ (\A c \in connected : player[c].id # NoPlayer => c \in E)
  BY ServerFields DEF Established
<1>3. drops \subseteq E /\ drops \in SUBSET Clients
  BY <1>1, <1>2 DEF DroppedBy
<1>4. order \in Seq(Clients)
  BY <1>1, OrdersOrderly DEF Orderly
<1>5. ErasedFrom(erased, l, drops)
  BY <1>1, <1>4, ErasedPart
<1>6. erased \in Rows(given) /\ erased \in Seq(Entries) /\ (drops = {} => erased = l)
  BY <1>1, <1>5, PartOfGood DEF ErasedFrom, Rows
<1>7. ASSUME NEW c \in E \ drops
      PROVE  /\ ListedType(l, c) \in HumanTypes
             /\ \E i \in DOMAIN erased : erased[i].id = player[c].id /\ erased[i].type # "Invalid"
  <2>1. ListedType(l, c) # "Invalid"
    BY <1>7 DEF DroppedBy
  <2>2. ListedType(l, c) \in ClientTypes
    BY <1>1, <2>1, ListedTypes
  <2>3. PICK i \in DOMAIN l : l[i].id = player[c].id /\ l[i].type = ListedType(l, c)
    BY <1>1, <2>1, ListedTypes
  <2>4. l[i].type # "AI"
    BY <1>1, <1>2, <1>7, <2>3 DEF GoodRows
  <2>5. \A d \in drops : player[d].id # l[i].id
    BY <1>1, <1>2, <1>3, <1>7, <2>3, ServerFields DEF Identified
  <2>6. PICK k \in DOMAIN erased : erased[k] = l[i]
    BY <1>5, <2>5 DEF ErasedFrom
  <2>. QED BY <2>1, <2>2, <2>3, <2>4, <2>6 DEF ClientTypes
<1>. HIDE DEF drops, E, erased
<1>8. TypesOf(l) = [c \in Endpoints |-> IF c \in E \ drops THEN [player[c] EXCEPT !.type = ListedType(l, c)]
                                                          ELSE player[c]]
  BY DEF TypesOf, E, drops
<1>9. \A c \in Endpoints : /\ TypesOf(l)[c] \in Players /\ TypesOf(l)[c].id = player[c].id
                           /\ TypesOf(l)[c].type = IF c \in E \ drops THEN ListedType(l, c)
                                                                      ELSE player[c].type
  <2>1. ASSUME NEW c \in Endpoints
        PROVE  /\ TypesOf(l)[c] \in Players /\ TypesOf(l)[c].id = player[c].id
               /\ TypesOf(l)[c].type = IF c \in E \ drops THEN ListedType(l, c) ELSE player[c].type
    <3>1. player[c] \in Players
      BY <1>1
    <3>2. CASE c \in E \ drops
      <4>1. TypesOf(l)[c] = [player[c] EXCEPT !.type = ListedType(l, c)]
        BY <1>8, <3>2
      <4>2. ListedType(l, c) \in ClientTypes
        BY <1>7, <3>2 DEF ClientTypes
      <4>. QED BY <3>1, <3>2, <4>1, <4>2 DEF Players
    <3>3. CASE c \notin E \ drops
      BY <1>8, <3>1, <3>3
    <3>. QED BY <3>2, <3>3
  <2>. QED BY <2>1
<1>10. TypesOf(l) \in [Endpoints -> Players]
  BY <1>8, <1>9
<1>11. s = [Server EXCEPT !.lobby = erased, !.galaxy = g, !.player = TypesOf(l)]
  BY DEF Taken, erased, drops
<1>. HIDE DEF s
<1>12. /\ s \in Servers(given) /\ s.fsm = "MPLobby" /\ s.connected = connected /\ s.lobby = erased
       /\ s.galaxy = g /\ s.down = down /\ s.player = TypesOf(l) /\ s.host = host
  BY <1>1, <1>6, <1>10, <1>11, ServerFields DEF Servers
<1>13. s \in Rosters(given)
  BY <1>6, <1>12 DEF Rosters
<1>14. \A c \in Endpoints : s.player[c].id = player[c].id
  BY <1>9, <1>12
<1>15. Established(s) = E
  BY <1>1, <1>2, <1>12, <1>14, ServerFields DEF Established, E
<1>16. Identified(s)
  <2>1. ASSUME NEW x \in Endpoints, s.player[x].id # NoPlayer
        PROVE  /\ s.player[x].id >= 1
               /\ x \in s.connected
               /\ IF x \in AIs THEN s.player[x].type = "AI" ELSE s.player[x].type \in HumanTypes
    <3>1. /\ player[x].id >= 1 /\ x \in connected
          /\ IF x \in AIs THEN player[x].type = "AI" ELSE player[x].type \in HumanTypes
      BY <1>1, <1>14, <2>1, ServerFields DEF Identified
    <3>2. x \notin AIs
      BY <1>1, <3>1, EndpointsFinite
    <3>3. s.player[x].type \in HumanTypes
      BY <1>7, <1>9, <1>12, <3>1, <3>2
    <3>. QED BY <1>12, <1>14, <3>1, <3>2, <3>3
  <2>2. \A x \in Endpoints : s.player[x].id = NoPlayer => s.player[x].type = "Invalid"
    <3>1. \A x \in E : player[x].id # NoPlayer
      BY <1>2
    <3>. QED BY <1>1, <1>9, <1>12, <1>14, <3>1, ServerFields DEF Identified
  <2>3. \A x, y \in Endpoints :
           s.player[x].id # NoPlayer /\ s.player[x].id = s.player[y].id => x = y
    BY <1>1, <1>14, ServerFields DEF Identified
  <2>. QED BY <2>1, <2>2, <2>3 DEF Identified
<1>17. Strangers(s)
  BY <1>1, <1>12, <1>14, ServerFields DEF Strangers, Endpoints
<1>18. LobbyOpen(s, drops, given)
  <2>1. HasHost(s)
    BY <1>1, <1>2, <1>12, <1>14, <1>15, ServerFields DEF LobbyOpen, HasHost, E
  <2>2. Listed(s, drops)
    <3>1. ASSUME NEW c \in Established(s) \ drops
          PROVE  \E i \in DOMAIN s.lobby : s.lobby[i].id = s.player[c].id /\ s.lobby[i].type # "Invalid"
      <4>1. c \in E \ drops /\ c \in Endpoints
        BY <1>1, <1>2, <1>15, <3>1
      <4>. QED BY <1>7, <1>12, <1>14, <4>1
    <3>. QED BY <3>1 DEF Listed
  <2>3. HostKnown(s)
    BY <1>1, <1>12, <1>15, ServerFields DEF LobbyOpen, HostKnown, E
  <2>. QED BY <1>1, <1>6, <1>12, <2>1, <2>2, <2>3 DEF LobbyOpen
<1>. QED BY <1>2, <1>3, <1>6, <1>12, <1>13, <1>14, <1>15, <1>16, <1>17, <1>18 DEF s, drops, E, erased

(* There is a name for an entry without one, and one for each of those still on their way.            *)
LEMMA NamesRemain ==
    ASSUME SetupInv, NEW e \in Clients, Reading(e), IsUnnamed(Head(up[e]))
    PROVE  /\ (CHOOSE a \in AIs \ given : TRUE) \in AIs \ given
           /\ \A more \in SUBSET AIs : more \subseteq given \cup {CHOOSE a \in AIs \ given : TRUE} =>
                 Cardinality(OnTheirWay') <= Cardinality(AIs \ (given \cup more))
<1>. DEFINE a == CHOOSE x \in AIs \ given : TRUE
            F == AIs \ given
<1>1. up \in [Endpoints -> Seq(ClientMessages(given))]
  BY DEF SetupInv, CommonInv, Typed
<1>2. up' \in [Endpoints -> Seq(ClientMessages(given))]
  BY <1>1, ReadLeaves DEF Reading
<1>3. /\ Cardinality(OnTheirWay) \in Nat /\ Cardinality(OnTheirWay') \in Nat
  BY <1>1, <1>2, OnTheWay, WayFinite
<1>4. Cardinality(OnTheirWay') <= Cardinality(OnTheirWay) - 1
  BY <1>1, WayRead DEF Reading
<1>5. Cardinality(OnTheirWay) <= Cardinality(F)
  BY DEF SetupInv, CommonInv, NamesLeft
<1>6. IsFiniteSet(F) /\ Cardinality(F) \in Nat
  BY EndpointsAssumption, FS_Difference, FS_CardinalityType
<1>7. F # {}
  <2>1. Cardinality(F) # 0
    BY <1>3, <1>4, <1>5, <1>6
  <2>. QED BY <2>1, FS_EmptySet
<1>8. a \in F
  BY <1>7
<1>. HIDE DEF a
<1>9. ASSUME NEW more \in SUBSET AIs, more \subseteq given \cup {a}
      PROVE  Cardinality(OnTheirWay') <= Cardinality(AIs \ (given \cup more))
  <2>. DEFINE R == F \ {a}
              G == AIs \ (given \cup more)
  <2>1. R \subseteq G
    BY <1>9
  <2>2. Cardinality(R) = Cardinality(F) - 1 /\ IsFiniteSet(R)
    BY <1>6, <1>8, FS_RemoveElement
  <2>3. IsFiniteSet(G)
    BY EndpointsAssumption, FS_Difference
  <2>4. Cardinality(R) <= Cardinality(G) /\ Cardinality(G) \in Nat
    <3>. HIDE DEF R, G
    <3>. QED BY <2>1, <2>3, FS_Subset, FS_CardinalityType
  <2>. HIDE DEF R, F
  <2>. QED BY <1>3, <1>4, <1>5, <1>6, <2>2, <2>4
<1>. QED BY <1>8, <1>9 DEF a, F

(* What is left of a list, with everybody named.                                                       *)
NamedAs(r, l, names, a) ==
    /\ AINames(r) \in SUBSET AIs
    /\ AINames(r) \subseteq names \cup {a}
    /\ ~ HasUnnamed(l) => AINames(r) \subseteq names
    /\ r \in Rows(names \cup AINames(r))
    /\ Listing(r)
    /\ \A j \in DOMAIN l : l[j].type # "Invalid" =>
          \E i \in DOMAIN r : r[i].id = l[j].id /\ r[i].type = l[j].type
    /\ Listing(l) => r = l

LEMMA ListNamed ==
    ASSUME NEW names \in SUBSET AIs, NEW l \in Rows(names), NEW a,
           HasUnnamed(l) => a \in AIs \ names
    PROVE  NamedAs(WithNames(Occupied(l), a), l, names, a)
<1>. DEFINE q == Occupied(l)
            r == WithNames(q, a)
<1>1. l \in Seq(Entries) /\ GoodRows(l, names)
  BY DEF Rows
<1>2. /\ PartOf(q, l)
      /\ \A i \in DOMAIN q : q[i].type # "Invalid"
      /\ \A j \in DOMAIN l : l[j].type # "Invalid" => \E i \in DOMAIN q : q[i] = l[j]
      /\ (\A j \in DOMAIN l : l[j].type # "Invalid") => q = l
  BY <1>1, OccupiedPart
<1>. HIDE DEF q
<1>3. q \in Rows(names)
  BY <1>1, <1>2, PartOfGood
<1>4. HasUnnamed(q) => HasUnnamed(l)
  BY <1>2 DEF PartOf, HasUnnamed
<1>5. (\E i \in DOMAIN q : q[i].name = Unnamed) => a \in AIs \ names
  BY <1>4 DEF HasUnnamed
<1>51. \A i \in DOMAIN q : q[i].type # "Invalid"
  BY <1>2
<1>61. /\ AINames(r) \subseteq names \cup (AIs \cap {a})
       /\ AINames(r) \subseteq AIs
       /\ r \in Rows(names \cup AINames(r))
       /\ Listing(r)
  BY <1>3, <1>5, <1>51, NamedRows
<1>62. ~ HasUnnamed(q) => AINames(r) \subseteq names /\ r = q
  BY <1>3, <1>5, <1>51, NamedRows
<1>6. /\ AINames(r) \subseteq names \cup (AIs \cap {a})
      /\ AINames(r) \subseteq AIs
      /\ ~ HasUnnamed(q) => AINames(r) \subseteq names
      /\ r \in Rows(names \cup AINames(r))
      /\ Listing(r)
      /\ ~ HasUnnamed(q) => r = q
  BY <1>61, <1>62
<1>7. /\ DOMAIN r = DOMAIN q
      /\ \A i \in DOMAIN q : r[i].id = q[i].id /\ r[i].type = q[i].type
  BY <1>2, <1>3, <1>5, NamesGiven
<1>. HIDE DEF r
<1>8. ~ HasUnnamed(l) => AINames(r) \subseteq names
  BY <1>4, <1>6
<1>9. ASSUME NEW j \in DOMAIN l, l[j].type # "Invalid"
      PROVE  \E i \in DOMAIN r : r[i].id = l[j].id /\ r[i].type = l[j].type
  BY <1>2, <1>7, <1>9
<1>10. ASSUME Listing(l) PROVE r = l
  <2>1. q = l
    BY <1>2, <1>10 DEF Listing
  <2>. QED BY <1>6, <1>10, <2>1 DEF Listing, HasUnnamed
<1>. QED BY <1>6, <1>8, <1>9, <1>10 DEF r, q, NamedAs

LEMMA UpdateKeeps ==
    ASSUME SetupInv, NEW e, Reading(e), NEW order \in Orders,
           UpdateLobby(e, Head(up[e]), order), Head(up[e]).type = "LobbyUpdate"
    PROVE  SetupInv'
<1>. DEFINE u == Head(up[e])
            l == u.players
            drops == DroppedBy(l)
            s == Taken(l, u.galaxy, order)
            fewer == DisconnectAll(s, drops, order)
            a == CHOOSE x \in AIs \ given : TRUE
            named == WithNames(Occupied(fewer.lobby), a)
            names == given \cup AINames(named)
            update == LobbyData(named, u.galaxy)
            b == [fewer EXCEPT !.lobby = named]
            R == Receivers(fewer, l, e)
            t == IF fewer.fsm = "Exited" THEN fewer ELSE SendTo(b, R, update)
<1>1. /\ fsm = "MPLobby" /\ given' = names /\ Become(t) /\ processes' = processes
      /\ expected' = expected /\ expectedAIs' = expectedAIs
  BY DEF UpdateLobby, DroppedBy, Taken, TypesOf
<1>2. u \in Updates(given)
  <2>1. up[e] \in Seq(ClientMessages(given)) /\ up[e] # <<>>
    BY DEF SetupInv, CommonInv, Typed, Reading
  <2>2. u \in ClientMessages(given)
    BY <2>1
  <2>. QED BY <2>2 DEF ClientMessages
<1>3. l \in Rows(given) /\ u.galaxy \in {0, 1} /\ u.type = "LobbyUpdate"
  BY <1>2 DEF Updates
<1>4. /\ LobbyOpen(Server, {}, given) /\ Listing(lobby) /\ ListKnown(Server) /\ processes = {}
      /\ CommonInv /\ connected \subseteq Clients /\ lobby \in Rows(given)
      /\ given \in SUBSET AIs
  BY <1>1, ServerRoster, ServerFields DEF SetupInv, OpenLobby, LobbyOpen, CommonInv, Typed
<1>5. e \in Clients /\ e \in connected /\ e \in Endpoints
  BY <1>4 DEF Reading
<1>6. Orderly(order, Server)
  BY ServerRoster, OrdersOrderly
<1>. HIDE DEF u
<1>7. /\ drops \in SUBSET Clients /\ drops \subseteq connected
      /\ s \in Rosters(given) /\ s.fsm = "MPLobby" /\ s.connected = connected
      /\ s.lobby = Erased(l, drops, order) /\ s.galaxy = u.galaxy /\ s.down = down
      /\ \A c \in Endpoints : s.player[c].id = player[c].id
      /\ Established(s) = Established(Server)
      /\ Identified(s) /\ Strangers(s) /\ LobbyOpen(s, drops, given)
      /\ drops = {} => s.lobby = l
  BY <1>1, <1>3, ListTaken
<1>. HIDE DEF s, drops
<1>8. DroppedSoFar(fewer, s, drops, drops, given)
  <2>1. Orderly(order, s)
    BY <1>6, <1>7, ServerFields DEF Orderly
  <2>. QED BY <1>4, <1>7, <2>1, AllDropped
<1>. HIDE DEF fewer
<1>9. /\ fewer \in Rosters(given) /\ fewer \in Servers(given)
      /\ Identified(fewer) /\ Strangers(fewer)
      /\ fewer.fsm \in {"MPLobby", "Exited"} /\ fewer.connected = connected \ drops
      /\ Established(fewer) = Established(Server) \ drops
      /\ \A f \in Endpoints \ drops : fewer.player[f].id = player[f].id
      /\ fewer.fsm = "MPLobby" => LobbyOpen(fewer, drops, given)
      /\ PartOf(fewer.lobby, s.lobby)
      /\ drops = {} => fewer = s
  BY <1>7, <1>8 DEF DroppedSoFar, Rosters
<1>10. PartOf(s.lobby, l)
  <2>1. order \in Seq(Clients) /\ l \in Seq(Entries)
    BY <1>3, <1>6 DEF Orderly, Rows
  <2>. QED BY <1>7, <2>1, ErasedPart DEF ErasedFrom
<1>11. PartOf(fewer.lobby, l) /\ fewer.lobby \in Rows(given)
  <2>1. GoodRows(l, given)
    BY <1>3 DEF Rows
  <2>2. PartOf(fewer.lobby, l)
    BY <1>9, <1>10, PartOfPart
  <2>. QED BY <2>1, <2>2, PartOfGood
<1>12. HasUnnamed(fewer.lobby) => IsUnnamed(u)
  <2>1. HasUnnamed(fewer.lobby) => HasUnnamed(l)
    BY <1>11 DEF PartOf, HasUnnamed
  <2>. QED BY <1>3, <2>1 DEF IsUnnamed
<1>13. HasUnnamed(fewer.lobby) =>
          /\ a \in AIs \ given
          /\ \A more \in SUBSET AIs : more \subseteq given \cup {a} =>
                Cardinality(OnTheirWay') <= Cardinality(AIs \ (given \cup more))
  BY <1>5, <1>12, NamesRemain DEF u
<1>. HIDE DEF a
<1>131. NamedAs(named, fewer.lobby, given, a)
  <2>1. HasUnnamed(fewer.lobby) => a \in AIs \ given
    BY <1>13
  <2>2. fewer.lobby \in Rows(given) /\ given \in SUBSET AIs
    BY <1>4, <1>11
  <2>. QED BY <2>1, <2>2, ListNamed
<1>14. /\ AINames(named) \in SUBSET AIs
       /\ AINames(named) \subseteq given \cup {a}
       /\ ~ HasUnnamed(fewer.lobby) => AINames(named) \subseteq given
       /\ named \in Rows(names)
       /\ Listing(named)
       /\ \A j \in DOMAIN fewer.lobby : fewer.lobby[j].type # "Invalid" =>
             \E i \in DOMAIN named : /\ named[i].id = fewer.lobby[j].id
                                     /\ named[i].type = fewer.lobby[j].type
       /\ Listing(fewer.lobby) => named = fewer.lobby
  BY <1>131 DEF NamedAs
<1>. HIDE DEF named
<1>15. names \in SUBSET AIs /\ given \subseteq names
  BY <1>4, <1>14
<1>16. names = given \/ Cardinality(OnTheirWay') <= Cardinality(AIs \ names)
  BY <1>13, <1>14
<1>17. /\ update \in ServerMessages(names) /\ update.type = "LobbyUpdate" /\ update.players = named
  BY <1>3, <1>14 DEF LobbyData, ServerMessages, Updates
<1>. HIDE DEF names, update
<1>18. fewer \in Rosters(names) /\ fewer \in Servers(names)
  BY <1>9, <1>15, RowsGrow
<1>19. /\ b \in Rosters(names) /\ b.fsm = fewer.fsm /\ b.connected = fewer.connected
       /\ b.player = fewer.player /\ b.host = fewer.host /\ b.lobby = named /\ b.down = fewer.down
  BY <1>14, <1>18 DEF Rosters, Servers, Rows
<1>20. Strangers(b) /\ Identified(b) /\ Established(b) = Established(fewer)
  BY <1>9, <1>19 DEF Strangers, Identified, Established
<1>. HIDE DEF b
<1>21. R \subseteq Established(fewer) /\ \A c \in R : b.player[c].id # NoPlayer
  BY <1>19 DEF Receivers, Established
<1>22. SendTo(b, R, update) \in Rosters(names) /\ Strangers(SendTo(b, R, update))
  <2>. HIDE DEF R
  <2>. QED BY <1>17, <1>19, <1>20, <1>21, SentRoster
<1>23. LET x == SendTo(b, R, update)
       IN /\ x.fsm = fewer.fsm /\ x.connected = fewer.connected /\ x.player = fewer.player
          /\ x.host = fewer.host /\ x.lobby = named
          /\ \A c \in Clients : x.down[c] = IF c \in R THEN Append(fewer.down[c], update)
                                                       ELSE fewer.down[c]
  <2>. HIDE DEF R
  <2>. QED BY <1>17, <1>19, Sent DEF Rosters
<1>24. /\ t \in Rosters(names) /\ Strangers(t) /\ t.fsm = fewer.fsm
       /\ t.connected = fewer.connected /\ t.player = fewer.player
  <2>. HIDE DEF R
  <2>. QED BY <1>9, <1>18, <1>22, <1>23
<1>25. t.fsm = "MPLobby" =>
          /\ t.host = fewer.host /\ t.lobby = named
          /\ \A c \in Clients : t.down[c] = IF c \in R THEN Append(fewer.down[c], update)
                                                       ELSE fewer.down[c]
  <2>. HIDE DEF R
  <2>. QED BY <1>23, <1>24
<1>. HIDE DEF t, R
<1>26. Identified(t) /\ Established(t) = Established(fewer)
  BY <1>9, <1>24 DEF Identified, Established
<1>27. /\ Handled(e) /\ Server' = t
  <2>1. Server' = t
    BY <1>1, <1>24, Becomes DEF Rosters
  <2>2. connected' = t.connected /\ player' = t.player /\ fsm' = t.fsm
    BY <1>1 DEF Become
  <2>3. processes \in SUBSET AIs /\ expectedAIs \in SUBSET AIs /\ expected \in Nat
    BY <1>4 DEF CommonInv, Typed
  <2>4. \A f \in connected' \ {e} : player'[f].id = player[f].id
    BY <1>4, <1>9, <1>24, <2>2 DEF Endpoints
  <2>5. connected' \subseteq connected
    BY <1>9, <1>24, <2>2
  <2>6. fsm' # "Idle" /\ processes' = {}
    BY <1>1, <1>4, <1>9, <1>24, <2>2
  <2>. QED BY <1>1, <1>15, <1>16, <1>24, <1>26, <2>1, <2>3, <2>4, <2>5, <2>6 DEF Handled
<1>28. CommonInv'
  BY <1>4, <1>27, HandledKeeps
<1>29. fsm' = t.fsm /\ lobby' = t.lobby /\ fsm' \in {"MPLobby", "Exited"}
  BY <1>9, <1>24, <1>27 DEF Server
<1>30. ASSUME fsm' = "MPLobby" PROVE LobbyOpen(Server, {}, given)' /\ Listing(lobby')
  <2>1. LobbyOpen(fewer, drops, given) /\ fewer.fsm = "MPLobby" /\ t.fsm = "MPLobby"
    BY <1>9, <1>24, <1>29, <1>30
  <2>2. t.connected \subseteq Clients /\ t.lobby \in Rows(names) /\ HasHost(t)
    BY <1>14, <1>24, <1>25, <1>26, <2>1 DEF LobbyOpen, HasHost, names
  <2>3. Listed(t, {})
    <3>1. ASSUME NEW c \in Established(t)
          PROVE  \E i \in DOMAIN t.lobby : t.lobby[i].id = t.player[c].id /\ t.lobby[i].type # "Invalid"
      <4>1. c \in Established(fewer) \ drops
        BY <1>9, <1>26, <3>1
      <4>2. PICK j \in DOMAIN fewer.lobby : /\ fewer.lobby[j].id = fewer.player[c].id
                                            /\ fewer.lobby[j].type # "Invalid"
        BY <2>1, <4>1 DEF LobbyOpen, Listed
      <4>3. PICK i \in DOMAIN named : /\ named[i].id = fewer.lobby[j].id
                                      /\ named[i].type = fewer.lobby[j].type
        BY <1>14, <4>2
      <4>. QED BY <1>24, <1>25, <2>1, <4>2, <4>3
    <3>. QED BY <3>1 DEF Listed
  <2>4. HostKnown(t)
    <3>1. ASSUME NEW c \in Clients, c \in Established(t), client[c] \in Waiting \cup {"MPLobby"}
          PROVE  KnowsHost(t.down[c], client[c], hostId[c], t.host)
      <4>1. KnowsHost(fewer.down[c], client[c], hostId[c], fewer.host)
        BY <1>26, <2>1, <3>1 DEF LobbyOpen, HostKnown
      <4>2. fewer.down[c] \in Seq(ServerMessages(names))
        BY <1>18, <3>1, RosterRows
      <4>3. update.type \notin HostNews \cup AckNews
        BY <1>17 DEF HostNews, AckNews
      <4>4. KnowsHost(Append(fewer.down[c], update), client[c], hostId[c], fewer.host)
        BY <1>17, <4>1, <4>2, <4>3, OtherNews
      <4>. QED BY <1>25, <2>1, <4>1, <4>4
    <3>. QED BY <3>1 DEF HostKnown
  <2>5. LobbyOpen(t, {}, names)
    BY <2>2, <2>3, <2>4 DEF LobbyOpen
  <2>6. LobbyOpen(Server', {}, given')
    BY <1>1, <1>27, <2>5
  <2>7. LobbyOpen(Server, {}, given)'
    BY <2>6 DEF LobbyOpen, HasHost, Listed, HostKnown, KnowsHost, Reading, clientVars
  <2>. QED BY <1>14, <1>25, <1>29, <2>1, <2>7
<1>31. ASSUME fsm' = "MPLobby" PROVE ListKnown(Server)'
  <2>0. t.fsm = "MPLobby" /\ client' = client /\ copy' = copy
    BY <1>29, <1>31 DEF Reading, clientVars
  <2>1. ASSUME NEW c \in Clients, c \in Established(t), client[c] \in Waiting \cup {"MPLobby"}
        PROVE  KnowsList(t.down[c], client[c], copy[c].players = named \/ SentLast(c)', named)
    <3>1. fewer.down[c] \in Seq(ServerMessages(names))
      BY <1>18, <2>1, RosterRows
    <3>2. CASE c \in R
      <4>1. t.down[c] = Append(fewer.down[c], update)
        BY <1>25, <2>0, <3>2
      <4>. QED BY <1>17, <3>1, <4>1, NewList
    <3>3. CASE c \notin R
      <4>1. l = lobby /\ c = e
        BY <1>26, <2>1, <3>3 DEF R, Receivers
      <4>2. drops = {}
        <5>1. ASSUME NEW x \in drops PROVE FALSE
          <6>1. x \in Established(Server) \ {} /\ ListedType(lobby, x) = "Invalid"
            BY <4>1, <5>1 DEF drops, DroppedBy
          <6>2. \E i \in DOMAIN lobby : lobby[i].id = player[x].id
            BY <1>4, <6>1, ServerFields DEF LobbyOpen, Listed
          <6>3. lobby \in Seq(Entries)
            BY <1>4 DEF Rows
          <6>. QED BY <1>4, <6>1, <6>2, <6>3, ListedTypes
        <5>. QED BY <5>1
      <4>3. fewer.lobby = lobby /\ fewer.down = down /\ named = lobby
        BY <1>4, <1>7, <1>9, <1>14, <4>1, <4>2
      <4>4. KnowsList(down[c], client[c], copy[c].players = lobby \/ SentLast(c), lobby)
        <5>1. c \in Established(Server) \cap Clients
          BY <1>9, <1>26, <2>1
        <5>. QED BY <1>4, <2>1, <5>1, ServerFields DEF ListKnown
      <4>5. SentLast(c) => copy[c].players = lobby \/ SentLast(c)'
        <5>1. c \in connected'
          BY <1>24, <1>27, <2>1 DEF Established, Server
        <5>. QED BY <1>4, <4>1, <5>1, SentStill DEF u
      <4>6. t.down[c] = down[c]
        BY <1>25, <2>0, <3>3, <4>3
      <4>. QED BY <4>3, <4>4, <4>5, <4>6 DEF KnowsList
    <3>. QED BY <3>2, <3>3
  <2>2. Server'.lobby = named
    BY <1>25, <1>27, <2>0
  <2>. QED BY <1>27, <2>0, <2>1, <2>2 DEF ListKnown
<1>. QED BY <1>28, <1>29, <1>30, <1>31 DEF SetupInv, OpenLobby

(* Whatever the server reads.                                                                          *)
LEMMA ServerReadsKeeps ==
    ASSUME SetupInv, NEW e \in Endpoints, ServerReads(e)
    PROVE  SetupInv'
<1>1. Reading(e)
  <2>1. up[e] # <<>>
    BY DEF ServerReads, HandleMessage, Message
  <2>. QED BY <2>1 DEF ServerReads, HandleMessage, Reading
<1>2. CASE Message(e, "HostMP") /\ HostMPGame(e)
  BY <1>1, <1>2, HostMPKeeps DEF Message
<1>3. CASE Message(e, "HostSP") /\ HostSPGame(e, Head(up[e]).ais)
  BY <1>1, <1>3, HostSPKeeps DEF Message
<1>4. CASE /\ Message(e, "HostMP") \/ Message(e, "HostSP")
           /\ \E order \in Orders : HostRefused(e, order)
  BY <1>1, <1>4, RefusedKeeps DEF Message
<1>5. CASE Message(e, "Join") /\ JoinLobby(e)
  BY <1>1, <1>5, JoinLobbyKeeps DEF Message
<1>6. CASE Message(e, "Join") /\ \E order \in Orders : JoinGame(e, order)
  BY <1>1, <1>6, JoinGameKeeps DEF Message
<1>7. CASE Message(e, "Join") /\ JoinIgnored
  BY <1>1, <1>7, OutsideKeeps
<1>8. CASE /\ Message(e, "LobbyUpdate")
           /\ \E order \in Orders : UpdateLobby(e, Head(up[e]), order)
  BY <1>1, <1>8, UpdateKeeps DEF Message
<1>9. CASE Message(e, "Start") /\ \E order \in Orders : StartMPGame(e, order)
  BY <1>1, <1>9, StartKeeps DEF Message
<1>10. CASE (Message(e, "LobbyUpdate") \/ Message(e, "Start")) /\ OutsideLobby
  BY <1>1, <1>10, OutsideKeeps DEF Message
<1>11. CASE Message(e, "Closed") /\ \E order \in Orders : ConnectionLost(e, order)
  BY <1>1, <1>11, LostKeeps DEF Message
<1>. QED BY <1>2, <1>3, <1>4, <1>5, <1>6, <1>7, <1>8, <1>9, <1>10, <1>11 DEF ServerReads, HandleMessage

-----------------------------------------------------------------------------
(* The clients. What they do leaves the server's lobby and its players alone.                          *)

LEMMA ClientsKeep ==
    ASSUME SetupInv, UNCHANGED serverOnly, player' = player,
           connected \subseteq connected', connected' \in SUBSET Endpoints,
           down' \in [Clients -> Seq(ServerMessages(given))],
           up' \in [Endpoints -> Seq(ClientMessages(given))],
           client' \in [Clients -> Waiting \cup {"IntroMenu", "MPLobby", "PlayingGame"}],
           id' \in [Clients -> Int], hostId' \in [Clients -> Int],
           copy' \in [Clients -> [players : Rows(given), galaxy : {0, 1}]],
           joined' \in SUBSET processes, connected' \cap AIs \subseteq joined',
           AskFirst', NamesLeft', Strangers(Server)',
           fsm = "MPLobby" => HostKnown(Server)' /\ ListKnown(Server)',
           fsm = "Joiners" => AIsAsk'
    PROVE  SetupInv'
<1>1. CommonInv
  BY DEF SetupInv
<1>2. /\ fsm' = fsm /\ single' = single /\ host' = host /\ lobby' = lobby /\ galaxy' = galaxy
      /\ given' = given /\ processes' = processes /\ expected' = expected
      /\ expectedAIs' = expectedAIs /\ begun' = begun
  BY DEF serverOnly
<1>3. Typed'
  <2>1. Server \in Servers(given)
    BY <1>1 DEF CommonInv, Typed
  <2>2. Server' \in Servers(given')
    BY <1>2, <2>1 DEF Server, Servers
  <2>3. /\ given \in SUBSET AIs /\ processes \in SUBSET AIs /\ expectedAIs \in SUBSET AIs
        /\ expected \in Nat
    BY <1>1 DEF CommonInv, Typed
  <2>. QED BY <1>2, <2>2, <2>3 DEF Typed
<1>4. Identified(Server)'
  BY <1>1 DEF CommonInv, Identified, Server
<1>5. Established(Server)' = Established(Server)
  <2>1. \A x \in Endpoints : player[x].id # NoPlayer => x \in connected
    BY <1>1, ServerFields DEF CommonInv, Identified
  <2>2. connected \in SUBSET Endpoints
    BY ServerRoster
  <2>. QED BY <2>1, <2>2 DEF Established, Server
<1>6. ProcessesStarted'
  BY <1>1, <1>2 DEF CommonInv, ProcessesStarted
<1>7. CommonInv'
  BY <1>1, <1>2, <1>3, <1>4, <1>5, <1>6 DEF CommonInv
<1>8. ASSUME fsm' = "MPLobby" PROVE OpenLobby'
  <2>1. fsm = "MPLobby" /\ OpenLobby
    BY <1>2, <1>8 DEF SetupInv
  <2>2. /\ lobby \in Rows(given) /\ HasHost(Server) /\ Listed(Server, {}) /\ Listing(lobby)
    BY <2>1, ServerFields DEF OpenLobby, LobbyOpen
  <2>3. connected' \subseteq Clients
    BY <1>6, <1>2, <2>1 DEF ProcessesStarted, Endpoints, SetupInv, CommonInv
  <2>4. HasHost(Server)' /\ Listed(Server, {})'
    BY <1>2, <1>5, <2>2 DEF HasHost, Listed, Server
  <2>5. Server'.lobby = lobby /\ Server'.connected = connected'
    BY <1>2 DEF Server
  <2>6. HostKnown(Server)' /\ ListKnown(Server)'
    BY <2>1
  <2>. QED BY <1>2, <2>2, <2>3, <2>4, <2>5, <2>6 DEF OpenLobby, LobbyOpen
<1>9. ASSUME fsm' = "Joiners" PROVE JoinersCounted' /\ AIsAsk'
  <2>1. fsm = "Joiners" /\ JoinersCounted
    BY <1>2, <1>9 DEF SetupInv
  <2>. QED BY <1>2, <1>5, <2>1 DEF JoinersCounted
<1>. QED BY <1>7, <1>8, <1>9 DEF SetupInv

(* One more message on its way to the server.                                                           *)
Posted(x, m) == up' = [up EXCEPT ![x] = Append(@, m)]

LEMMA WayPosted ==
    ASSUME NEW M, up \in [Endpoints -> Seq(M)], NEW x \in Endpoints, NEW m \in M, Posted(x, m)
    PROVE  /\ up' \in [Endpoints -> Seq(M)]
           /\ up'[x] = Append(up[x], m) /\ \A y \in Endpoints : y # x => up'[y] = up[y]
           /\ Cardinality(OnTheirWay') \in Nat /\ Cardinality(OnTheirWay) \in Nat
           /\ Cardinality(OnTheirWay') <= Cardinality(OnTheirWay) + 1
           /\ ~ IsUnnamed(m) => Cardinality(OnTheirWay') <= Cardinality(OnTheirWay)
<1>. DEFINE W == Way(up)
            V == Way(up')
            n == <<x, Len(up[x]) + 1>>
<1>1. up[x] \in Seq(M) /\ Append(up[x], m) \in Seq(M)
  OBVIOUS
<1>2. up' \in [Endpoints -> Seq(M)]
  BY <1>1 DEF Posted
<1>3. up'[x] = Append(up[x], m) /\ \A y \in Endpoints : y # x => up'[y] = up[y]
  BY DEF Posted
<1>4. /\ IsFiniteSet(W) /\ Cardinality(W) \in Nat
      /\ \A k : k \in W <=> \E c \in Clients : \E i \in DOMAIN up[c] :
                               k = <<c, i>> /\ IsUnnamed(up[c][i])
  BY WayFinite
<1>5. /\ IsFiniteSet(V) /\ Cardinality(V) \in Nat
      /\ \A k : k \in V <=> \E c \in Clients : \E i \in DOMAIN up'[c] :
                               k = <<c, i>> /\ IsUnnamed(up'[c][i])
  BY <1>2, WayFinite
<1>6. OnTheirWay = W /\ OnTheirWay' = V
  BY OnTheWay
<1>. HIDE DEF W, V, n
<1>7. ASSUME NEW k \in V PROVE k \in W \/ (k = n /\ IsUnnamed(m))
  <2>1. PICK c \in Clients : \E i \in DOMAIN up'[c] : k = <<c, i>> /\ IsUnnamed(up'[c][i])
    BY <1>5
  <2>2. PICK i \in DOMAIN up'[c] : k = <<c, i>> /\ IsUnnamed(up'[c][i])
    BY <2>1
  <2>3. CASE c # x
    BY <1>3, <1>4, <2>2, <2>3 DEF Endpoints
  <2>4. CASE c = x
    <3>1. /\ Len(up[x]) \in Nat /\ DOMAIN up[x] = 1..Len(up[x])
          /\ DOMAIN Append(up[x], m) = 1..Len(up[x]) + 1
          /\ \A j \in 1..Len(up[x]) : Append(up[x], m)[j] = up[x][j]
          /\ Append(up[x], m)[Len(up[x]) + 1] = m
      BY <1>1
    <3>2. i \in 1..Len(up[x]) + 1
      BY <1>3, <2>2, <2>4, <3>1
    <3>3. CASE i = Len(up[x]) + 1
      BY <1>3, <2>2, <2>4, <3>1, <3>3 DEF n
    <3>4. CASE i # Len(up[x]) + 1
      <4>1. i \in 1..Len(up[x])
        BY <3>1, <3>2, <3>4
      <4>. QED BY <1>3, <1>4, <2>2, <2>4, <3>1, <4>1
    <3>. QED BY <3>3, <3>4
  <2>. QED BY <2>3, <2>4
<1>8. Cardinality(W \cup {n}) <= Cardinality(W) + 1 /\ IsFiniteSet(W \cup {n})
      /\ Cardinality(W \cup {n}) \in Nat
  <2>1. /\ IsFiniteSet(W \cup {n})
        /\ Cardinality(W \cup {n}) = IF n \in W THEN Cardinality(W) ELSE Cardinality(W) + 1
    BY <1>4, FS_AddElement
  <2>. QED BY <1>4, <2>1
<1>9. Cardinality(V) <= Cardinality(W \cup {n})
  BY <1>7, <1>8, FS_Subset
<1>10. ~ IsUnnamed(m) => Cardinality(V) <= Cardinality(W)
  BY <1>4, <1>7, FS_Subset
<1>11. Cardinality(V) <= Cardinality(W) + 1
  BY <1>4, <1>5, <1>8, <1>9
<1>. QED BY <1>2, <1>3, <1>4, <1>5, <1>6, <1>10, <1>11

LEMMA PostedKeeps ==
    ASSUME CommonInv, NEW x \in Endpoints, NEW m \in ClientMessages(given), Posted(x, m),
           m.type \in {"LobbyUpdate", "Start", "Closed"}, x \in connected,
           connected' = connected, player' = player, given' = given,
           IsUnnamed(m) => Cardinality(OnTheirWay) < Cardinality(AIs \ given)
    PROVE  /\ up' \in [Endpoints -> Seq(ClientMessages(given))]
           /\ AskFirst' /\ NamesLeft'
           /\ AIsAsk => AIsAsk'
<1>1. up \in [Endpoints -> Seq(ClientMessages(given))]
  BY DEF CommonInv, Typed
<1>2. /\ up' \in [Endpoints -> Seq(ClientMessages(given))]
      /\ up'[x] = Append(up[x], m) /\ \A y \in Endpoints : y # x => up'[y] = up[y]
      /\ Cardinality(OnTheirWay') \in Nat /\ Cardinality(OnTheirWay) \in Nat
      /\ Cardinality(OnTheirWay') <= Cardinality(OnTheirWay) + 1
      /\ ~ IsUnnamed(m) => Cardinality(OnTheirWay') <= Cardinality(OnTheirWay)
  BY <1>1, WayPosted
<1>3. /\ Len(up[x]) \in Nat /\ DOMAIN up[x] = 1..Len(up[x])
      /\ DOMAIN Append(up[x], m) = 1..Len(up[x]) + 1
      /\ \A j \in 1..Len(up[x]) : Append(up[x], m)[j] = up[x][j]
      /\ Append(up[x], m)[Len(up[x]) + 1] = m
  BY <1>1
<1>4. AskFirst'
  <2>1. ASSUME NEW y \in Endpoints, NEW i \in DOMAIN up'[y],
               up'[y][i].type \in {"HostMP", "HostSP", "Join"}
        PROVE  i = 1 /\ player'[y].id = NoPlayer
    <3>1. CASE y # x
      BY <1>2, <2>1, <3>1 DEF CommonInv, AskFirst
    <3>2. CASE y = x
      <4>1. i \in 1..Len(up[x]) + 1 /\ up'[y] = Append(up[x], m)
        BY <1>2, <1>3, <2>1, <3>2
      <4>2. i # Len(up[x]) + 1
        BY <1>3, <2>1, <4>1
      <4>3. i \in DOMAIN up[x]
        BY <1>3, <4>1, <4>2
      <4>. QED BY <1>3, <2>1, <3>2, <4>1, <4>3 DEF CommonInv, AskFirst
    <3>. QED BY <3>1, <3>2
  <2>2. ASSUME NEW y \in Endpoints, y \notin connected' PROVE up'[y] = <<>>
    BY <1>2, <2>2 DEF CommonInv, AskFirst
  <2>. QED BY <2>1, <2>2 DEF AskFirst
<1>5. NamesLeft'
  <2>1. Cardinality(AIs \ given) \in Nat
    BY EndpointsAssumption, FS_Difference, FS_CardinalityType
  <2>2. Cardinality(OnTheirWay) <= Cardinality(AIs \ given)
    BY DEF CommonInv, NamesLeft
  <2>. QED BY <1>2, <2>1, <2>2 DEF NamesLeft
<1>6. ASSUME AIsAsk PROVE AIsAsk'
  <2>1. ASSUME NEW a \in connected' \cap AIs, player'[a].id = NoPlayer
        PROVE  up'[a] # <<>> /\ Head(up'[a]).type = "Join"
    <3>1. up[a] # <<>> /\ Head(up[a]).type = "Join" /\ a \in Endpoints
      BY <1>6, <2>1 DEF AIsAsk, Endpoints
    <3>2. CASE a # x
      BY <1>2, <3>1, <3>2
    <3>3. CASE a = x
      <4>1. up[x] \in Seq(ClientMessages(given)) /\ up[x] # <<>>
        BY <1>1, <3>1, <3>3
      <4>2. Len(Append(up[x], m)) = Len(up[x]) + 1 /\ Head(Append(up[x], m)) = Append(up[x], m)[1]
            /\ Head(up[x]) = up[x][1] /\ Len(up[x]) > 0
        BY <4>1
      <4>3. Head(Append(up[x], m)) = Head(up[x])
        BY <1>3, <4>2
      <4>4. Append(up[x], m) # <<>>
        BY <4>1, <4>2
      <4>. QED BY <1>2, <3>1, <3>3, <4>3, <4>4
    <3>. QED BY <3>2, <3>3
  <2>. QED BY <2>1 DEF AIsAsk
<1>. QED BY <1>2, <1>4, <1>5, <1>6

(* A list that was sent last stays so unless another follows.                                             *)
LEMMA SentPosted ==
    ASSUME CommonInv, NEW x \in Endpoints, NEW m \in ClientMessages(given), Posted(x, m),
           NEW c \in Clients
    PROVE  /\ c # x /\ copy'[c] = copy[c] /\ SentLast(c) => SentLast(c)'
           /\ c = x /\ m.type = "LobbyUpdate" /\ m.players = copy'[c].players => SentLast(c)'
           /\ c = x /\ m.type # "LobbyUpdate" /\ copy'[c] = copy[c] /\ SentLast(c) => SentLast(c)'
<1>1. up \in [Endpoints -> Seq(ClientMessages(given))] /\ c \in Endpoints
  BY DEF CommonInv, Typed, Endpoints
<1>2. up'[x] = Append(up[x], m) /\ \A y \in Endpoints : y # x => up'[y] = up[y]
  BY <1>1, WayPosted
<1>3. up[x] \in Seq(ClientMessages(given))
  BY <1>1
<1>. DEFINE q == Append(up[x], m)
            n == Len(up[x]) + 1
            types == {"LobbyUpdate"}
<1>4. /\ Of(q, types) = Of(up[x], types) \cup (IF m.type \in types THEN {n} ELSE {})
      /\ Len(up[x]) \in Nat
      /\ \A k \in Of(up[x], types) : k \in 1..Len(up[x]) /\ q[k] = up[x][k]
      /\ q[n] = m
  <2>. HIDE DEF types
  <2>. QED BY <1>3, OfAppend
<1>. HIDE DEF q, n
<1>5. ASSUME c # x, copy'[c] = copy[c], SentLast(c) PROVE SentLast(c)'
  <2>1. up'[c] = up[c]
    BY <1>1, <1>2, <1>5
  <2>. QED BY <1>5, <2>1 DEF SentLast
<1>6. ASSUME c = x, m.type = "LobbyUpdate", m.players = copy'[c].players PROVE SentLast(c)'
  <2>1. Lists(q) = Lists(up[x]) \cup {n}
    BY <1>4, <1>6 DEF Lists
  <2>2. \A k \in Lists(q) : k <= n
    BY <1>4, <2>1 DEF Lists, n
  <2>. QED BY <1>2, <1>4, <1>6, <2>1, <2>2 DEF SentLast, IsLast, q
<1>7. ASSUME c = x, m.type # "LobbyUpdate", copy'[c] = copy[c], SentLast(c) PROVE SentLast(c)'
  <2>1. Lists(q) = Lists(up[x])
    BY <1>4, <1>7 DEF Lists
  <2>2. PICK k \in Lists(up[x]) : IsLast(k, Lists(up[x])) /\ up[x][k].players = copy[c].players
    BY <1>7 DEF SentLast
  <2>3. q[k] = up[x][k]
    BY <1>4, <2>2 DEF Lists
  <2>. QED BY <1>2, <1>7, <2>1, <2>2, <2>3 DEF SentLast, q
<1>. QED BY <1>5, <1>6, <1>7

(* What a client knows when it has received a message.                                                      *)
LEMMA OfTail ==
    ASSUME NEW M, NEW D \in Seq(M), D # <<>>, NEW types
    PROVE  /\ \A k \in Of(Tail(D), types) : /\ k \in Nat /\ k >= 1
                                            /\ k + 1 \in Of(D, types) /\ Tail(D)[k] = D[k + 1]
           /\ \A k \in Of(D, types) : k \in Nat /\ k >= 1 /\ (k # 1 => k - 1 \in Of(Tail(D), types))
           /\ 1 \in Of(D, types) <=> Head(D).type \in types
           /\ D[1] = Head(D)
<1>1. /\ Len(D) \in Nat /\ Len(D) >= 1 /\ DOMAIN D = 1..Len(D) /\ Head(D) = D[1]
      /\ DOMAIN Tail(D) = 1..Len(D) - 1
      /\ \A i \in 1..Len(D) - 1 : Tail(D)[i] = D[i + 1]
  OBVIOUS
<1>. DEFINE T == Tail(D)
<1>. HIDE DEF T
<1>2. ASSUME NEW k \in Of(T, types)
      PROVE  k \in Nat /\ k >= 1 /\ k + 1 \in Of(D, types) /\ T[k] = D[k + 1]
  <2>1. k \in 1..Len(D) - 1 /\ T[k].type \in types /\ T[k] = D[k + 1]
    BY <1>1 DEF Of, T
  <2>2. k + 1 \in 1..Len(D)
    BY <1>1, <2>1
  <2>. QED BY <1>1, <2>1, <2>2 DEF Of
<1>3. ASSUME NEW k \in Of(D, types)
      PROVE  k \in Nat /\ k >= 1 /\ (k # 1 => k - 1 \in Of(T, types))
  <2>1. k \in 1..Len(D) /\ D[k].type \in types
    BY <1>1 DEF Of
  <2>2. ASSUME k # 1 PROVE k - 1 \in Of(T, types)
    <3>1. k - 1 \in 1..Len(D) - 1 /\ (k - 1) + 1 = k
      BY <1>1, <2>1, <2>2
    <3>2. T[k - 1] = D[k]
      BY <1>1, <3>1 DEF T
    <3>. QED BY <1>1, <2>1, <3>1, <3>2 DEF Of, T
  <2>. QED BY <1>1, <2>1, <2>2
<1>4. 1 \in Of(D, types) <=> Head(D).type \in types
  BY <1>1 DEF Of
<1>. QED BY <1>1, <1>2, <1>3, <1>4 DEF T

LEMMA HostRead ==
    ASSUME NEW M, NEW D \in Seq(M), D # <<>>, NEW state, NEW next, NEW own, NEW now, NEW h,
           KnowsHost(D, state, own, h), state \in Waiting \cup {"MPLobby"},
           \/ /\ Head(D).type \notin AckNews /\ next = state
              /\ now = IF state = "MPLobby" /\ Head(D).type = "HostID" THEN Head(D).id ELSE own
           \/ /\ Head(D).type \in AckNews /\ state \in Waiting /\ next = "MPLobby"
              /\ now = IF Head(D).type \in {"HostMPAck", "HostSPAck"} THEN Head(D).id ELSE own
    PROVE  KnowsHost(Tail(D), next, now, h)
<1>. DEFINE T == Tail(D)
            hosts == {"HostID", "HostMPAck", "HostSPAck"}
            acks == {"HostMPAck", "HostSPAck", "JoinAck"}
            lists == {"LobbyUpdate"}
<1>. HIDE DEF T, hosts, acks, lists
<1>1. /\ \A k \in Of(T, hosts) : /\ k \in Nat /\ k >= 1
                                 /\ k + 1 \in Of(D, hosts) /\ T[k] = D[k + 1]
      /\ \A k \in Of(D, hosts) : k \in Nat /\ k >= 1 /\ (k # 1 => k - 1 \in Of(T, hosts))
      /\ 1 \in Of(D, hosts) <=> Head(D).type \in hosts
      /\ D[1] = Head(D)
  BY OfTail DEF T
<1>2. /\ \A k \in Of(D, acks) : k \in Nat /\ k >= 1 /\ (k # 1 => k - 1 \in Of(T, acks))
      /\ 1 \in Of(D, acks) <=> Head(D).type \in acks
  BY OfTail DEF T
<1>3. /\ \A k \in Of(T, lists) : k \in Nat /\ k + 1 \in Of(D, lists)
  BY OfTail DEF T
<1>4. /\ Hosts(T) = Of(T, hosts) /\ Hosts(D) = Of(D, hosts)
      /\ Acks(T) = Of(T, acks) /\ Acks(D) = Of(D, acks)
      /\ Lists(T) = Of(T, lists) /\ Lists(D) = Of(D, lists)
  BY DEF Hosts, Acks, Lists, hosts, acks, lists
<1>5. ASSUME NEW k \in Hosts(T), IsLast(k, Hosts(T)) PROVE T[k].id = h
  <2>1. k \in Nat /\ k >= 1 /\ k + 1 \in Hosts(D) /\ T[k] = D[k + 1]
    BY <1>1, <1>4, <1>5
  <2>2. ASSUME NEW i \in Hosts(D) PROVE i <= k + 1
    <3>1. i \in Nat /\ i >= 1 /\ (i # 1 => i - 1 \in Hosts(T))
      BY <1>1, <1>4, <2>2
    <3>2. i # 1 => i - 1 <= k
      BY <1>5, <3>1 DEF IsLast
    <3>. QED BY <2>1, <3>1, <3>2
  <2>3. IsLast(k + 1, Hosts(D))
    BY <2>1, <2>2 DEF IsLast
  <2>. QED BY <2>1, <2>3 DEF KnowsHost
<1>6. ASSUME Hosts(T) = {} PROVE next = "MPLobby" /\ now = h
  <2>1. \A i \in Hosts(D) : i = 1
    BY <1>1, <1>4, <1>6
  <2>2. CASE Hosts(D) = {}
    <3>1. state = "MPLobby" /\ own = h
      BY <2>2 DEF KnowsHost
    <3>2. Head(D).type \notin hosts
      BY <1>1, <1>4, <2>2
    <3>3. state \notin Waiting
      BY <3>1 DEF Waiting
    <3>. QED BY <3>1, <3>2, <3>3 DEF hosts
  <2>3. CASE Hosts(D) # {}
    <3>1. 1 \in Hosts(D) /\ IsLast(1, Hosts(D))
      BY <2>1, <2>3 DEF IsLast
    <3>2. Head(D).id = h /\ Head(D).type \in hosts
      BY <1>1, <1>4, <3>1 DEF KnowsHost
    <3>3. CASE state \in Waiting
      <4>1. PICK k \in Acks(D) : \E i \in Hosts(D) : i >= k
        BY <3>3 DEF KnowsHost
      <4>2. k = 1
        BY <1>2, <1>4, <2>1, <4>1
      <4>3. Head(D).type \in AckNews
        BY <1>2, <1>4, <4>1, <4>2 DEF acks, AckNews
      <4>4. Head(D).type \in {"HostMPAck", "HostSPAck"}
        BY <3>2, <4>3 DEF hosts, AckNews
      <4>. QED BY <3>2, <4>3, <4>4
    <3>4. CASE state \notin Waiting
      <4>1. Head(D).type \notin AckNews /\ next = state
        BY <3>4
      <4>2. Head(D).type = "HostID"
        BY <3>2, <4>1 DEF hosts, AckNews
      <4>3. state = "MPLobby"
        BY <3>4
      <4>. QED BY <3>2, <4>1, <4>2, <4>3
    <3>. QED BY <3>3, <3>4
  <2>. QED BY <2>2, <2>3
<1>7. ASSUME next \in Waiting
      PROVE  \E k \in Acks(T) : /\ \A i \in Lists(T) : i > k
                                /\ \E i \in Hosts(T) : i >= k
  <2>1. state = next /\ Head(D).type \notin AckNews
    BY <1>7 DEF Waiting
  <2>2. PICK k \in Acks(D) : /\ \A i \in Lists(D) : i > k
                             /\ \E i \in Hosts(D) : i >= k
    BY <1>7, <2>1 DEF KnowsHost
  <2>3. k # 1 /\ k \in Nat /\ k >= 1 /\ k - 1 \in Acks(T)
    BY <1>2, <1>4, <2>1, <2>2 DEF acks, AckNews
  <2>4. ASSUME NEW i \in Lists(T) PROVE i > k - 1
    BY <1>3, <1>4, <2>2, <2>3, <2>4
  <2>5. PICK i \in Hosts(D) : i >= k
    BY <2>2
  <2>6. i \in Nat /\ i # 1 /\ i - 1 \in Hosts(T) /\ i - 1 >= k - 1
    BY <1>1, <1>4, <2>3, <2>5
  <2>. QED BY <2>3, <2>4, <2>6
<1>8. KnowsHost(T, next, now, h)
  BY <1>5, <1>6, <1>7 DEF KnowsHost
<1>. QED BY <1>8 DEF T

LEMMA ListRead ==
    ASSUME NEW M, NEW D \in Seq(M), D # <<>>, NEW state, NEW next, NEW own, NEW now, NEW h, NEW known, NEW l,
           KnowsHost(D, state, known, h), KnowsList(D, state, own, l),
           state \in Waiting \cup {"MPLobby"},
           IF Head(D).type \in AckNews THEN state \in Waiting ELSE next = state,
           Head(D).type = "LobbyUpdate" /\ state = "MPLobby" /\ Head(D).players = l => now,
           Head(D).type # "LobbyUpdate" /\ own => now
    PROVE  KnowsList(Tail(D), next, now, l)
<1>. DEFINE T == Tail(D)
            lists == {"LobbyUpdate"}
<1>. HIDE DEF T, lists
<1>1. /\ \A k \in Of(T, lists) : /\ k \in Nat /\ k >= 1
                                 /\ k + 1 \in Of(D, lists) /\ T[k] = D[k + 1]
      /\ \A k \in Of(D, lists) : k \in Nat /\ k >= 1 /\ (k # 1 => k - 1 \in Of(T, lists))
      /\ 1 \in Of(D, lists) <=> Head(D).type \in lists
      /\ D[1] = Head(D)
  BY OfTail DEF T
<1>2. Lists(T) = Of(T, lists) /\ Lists(D) = Of(D, lists)
  BY DEF Lists, lists
<1>3. ASSUME NEW k \in Lists(T), IsLast(k, Lists(T)) PROVE T[k].players = l
  <2>1. k \in Nat /\ k >= 1 /\ k + 1 \in Lists(D) /\ T[k] = D[k + 1]
    BY <1>1, <1>2, <1>3
  <2>2. ASSUME NEW i \in Lists(D) PROVE i <= k + 1
    <3>1. i \in Nat /\ i >= 1 /\ (i # 1 => i - 1 \in Lists(T))
      BY <1>1, <1>2, <2>2
    <3>2. i # 1 => i - 1 <= k
      BY <1>3, <3>1 DEF IsLast
    <3>. QED BY <2>1, <3>1, <3>2
  <2>3. IsLast(k + 1, Lists(D))
    BY <2>1, <2>2 DEF IsLast
  <2>. QED BY <2>1, <2>3 DEF KnowsList
<1>4. state \in Waiting => 1 \notin Lists(D)
  <2>1. ASSUME state \in Waiting PROVE 1 \notin Lists(D)
    <3>1. PICK k \in Acks(D) : \A i \in Lists(D) : i > k
      BY <2>1 DEF KnowsHost
    <3>2. k \in Nat /\ k >= 1
      BY <3>1, OfTail DEF Acks
    <3>. QED BY <3>1, <3>2
  <2>. QED BY <2>1
<1>5. ASSUME Lists(T) = {} PROVE next = "MPLobby" /\ now
  <2>1. \A i \in Lists(D) : i = 1
    BY <1>1, <1>2, <1>5
  <2>2. CASE Lists(D) = {}
    <3>1. state = "MPLobby" /\ own
      BY <2>2 DEF KnowsList
    <3>2. Head(D).type # "LobbyUpdate"
      BY <1>1, <1>2, <2>2 DEF lists
    <3>. QED BY <3>1, <3>2 DEF Waiting
  <2>3. CASE Lists(D) # {}
    <3>1. 1 \in Lists(D) /\ IsLast(1, Lists(D))
      BY <2>1, <2>3 DEF IsLast
    <3>2. Head(D).type = "LobbyUpdate" /\ Head(D).players = l
      BY <1>1, <1>2, <3>1 DEF KnowsList, lists
    <3>3. state = "MPLobby"
      BY <1>4, <3>1
    <3>. QED BY <3>2, <3>3 DEF AckNews
  <2>. QED BY <2>2, <2>3
<1>6. KnowsList(T, next, now, l)
  BY <1>3, <1>5 DEF KnowsList
<1>. QED BY <1>6 DEF T

-----------------------------------------------------------------------------
(* One client, or AI, does something with its connection as it is.                                          *)

LEMMA Sends ==
    ASSUME CommonInv, NEW x \in Endpoints, NEW m, Send(x, m)
    PROVE  IF x \in connected THEN Posted(x, m) ELSE up' = up
<1>1. up \in [Endpoints -> Seq(ClientMessages(given))]
  BY DEF CommonInv, Typed
<1>. QED BY <1>1 DEF Send, Posted

LEMMA SentKept ==
    ASSUME CommonInv, NEW x \in Endpoints, NEW m \in ClientMessages(given),
           up' = up \/ Send(x, m), NEW d \in Clients, copy'[d] = copy[d],
           d # x \/ m.type # "LobbyUpdate", SentLast(d)
    PROVE  SentLast(d)'
<1>1. CASE up' = up
  BY <1>1 DEF SentLast
<1>2. CASE Posted(x, m)
  BY <1>2, SentPosted
<1>. QED BY <1>1, <1>2, Sends

(* What it shows is what it is to show.                                                                      *)
Showing(c, news, state, own, shown) ==
    fsm = "MPLobby" /\ c \in Established(Server) /\ state \in Waiting \cup {"MPLobby"} =>
        KnowsHost(news, state, own, host) /\ KnowsList(news, state, shown, lobby)

LEMMA ClientStep ==
    ASSUME SetupInv, NEW x \in Endpoints, NEW m \in ClientMessages(given),
           up' = up \/ Send(x, m), m.type \in {"LobbyUpdate", "Start", "Closed"},
           IsUnnamed(m) => Cardinality(OnTheirWay) < Cardinality(AIs \ given),
           UNCHANGED serverOnly, UNCHANGED <<connected, player, joined>>,
           down' \in [Clients -> Seq(ServerMessages(given))],
           client' \in [Clients -> Waiting \cup {"IntroMenu", "MPLobby", "PlayingGame"}],
           id' \in [Clients -> Int], hostId' \in [Clients -> Int],
           copy' \in [Clients -> [players : Rows(given), galaxy : {0, 1}]],
           \A d \in Clients \ {x} : /\ down'[d] = down[d] /\ client'[d] = client[d]
                                    /\ hostId'[d] = hostId[d] /\ copy'[d] = copy[d],
           x \in Clients => (Lists(down[x]) = {} => Lists(down'[x]) = {}),
           x \in Clients => Showing(x, down'[x], client'[x], hostId'[x],
                                    copy'[x].players = lobby \/ SentLast(x)')
    PROVE  SetupInv'
<1>1. CommonInv /\ connected \in SUBSET Endpoints
  BY ServerRoster DEF SetupInv
<1>2. connected' = connected /\ player' = player /\ joined' = joined
  OBVIOUS
<1>3. /\ fsm' = fsm /\ host' = host /\ lobby' = lobby /\ given' = given
  BY DEF serverOnly
<1>4. /\ up' \in [Endpoints -> Seq(ClientMessages(given))]
      /\ AskFirst' /\ NamesLeft'
      /\ AIsAsk => AIsAsk'
  <2>1. CASE up' = up
    <3>1. OnTheirWay' = OnTheirWay
      BY <2>1 DEF OnTheirWay
    <3>. QED BY <1>1, <1>2, <1>3, <2>1, <3>1 DEF CommonInv, Typed, AskFirst, NamesLeft, AIsAsk
  <2>2. CASE up' # up
    <3>1. x \in connected /\ Posted(x, m)
      BY <1>1, <2>2, Sends
    <3>. QED BY <1>1, <1>2, <1>3, <3>1, PostedKeeps
  <2>. QED BY <2>1, <2>2
<1>5. /\ joined' \in SUBSET processes /\ connected' \cap AIs \subseteq joined'
  BY <1>1, <1>2 DEF CommonInv, ProcessesStarted
<1>6. Established(Server') = Established(Server) /\ Server'.player = player
      /\ Server'.down = down' /\ Server'.host = host /\ Server'.lobby = lobby
      /\ Server'.connected = connected
  BY <1>2, <1>3 DEF Established, Server
<1>7. Strangers(Server)'
  <2>1. ASSUME NEW c \in Clients \cap connected, player[c].id = NoPlayer PROVE Lists(down'[c]) = {}
    <3>1. Lists(down[c]) = {}
      BY <1>1, <2>1, ServerFields DEF CommonInv, Strangers
    <3>2. CASE c = x
      BY <2>1, <3>1, <3>2
    <3>3. CASE c # x
      BY <2>1, <3>1, <3>3
    <3>. QED BY <3>2, <3>3
  <2>2. Strangers(Server')
    BY <1>6, <2>1 DEF Strangers
  <2>. QED BY <2>2 DEF Strangers
<1>8. ASSUME fsm = "MPLobby" PROVE HostKnown(Server)' /\ ListKnown(Server)'
  <2>1. HostKnown(Server) /\ ListKnown(Server)
    BY <1>8 DEF SetupInv, OpenLobby, LobbyOpen
  <2>2. ASSUME NEW c \in Established(Server), c \in Clients, client'[c] \in Waiting \cup {"MPLobby"}
        PROVE  /\ KnowsHost(down'[c], client'[c], hostId'[c], host)
               /\ KnowsList(down'[c], client'[c], copy'[c].players = lobby \/ SentLast(c)', lobby)
    <3>1. CASE c = x
      BY <1>8, <2>2, <3>1 DEF Showing
    <3>2. CASE c # x
      <4>1. /\ down'[c] = down[c] /\ client'[c] = client[c]
            /\ hostId'[c] = hostId[c] /\ copy'[c] = copy[c]
        BY <2>2, <3>2
      <4>2. KnowsHost(down[c], client[c], hostId[c], host)
        BY <2>1, <2>2, <4>1, ServerFields DEF HostKnown
      <4>3. KnowsList(down[c], client[c], copy[c].players = lobby \/ SentLast(c), lobby)
        BY <2>1, <2>2, <4>1, ServerFields DEF ListKnown
      <4>4. SentLast(c) => SentLast(c)'
        BY <1>1, <2>2, <3>2, <4>1, SentKept
      <4>5. KnowsList(down[c], client[c], copy[c].players = lobby \/ SentLast(c)', lobby)
        BY <4>3, <4>4 DEF KnowsList
      <4>. QED BY <4>1, <4>2, <4>5
    <3>. QED BY <3>1, <3>2
  <2>3. HostKnown(Server)'
    BY <1>6, <2>2 DEF HostKnown
  <2>4. ListKnown(Server)'
    BY <1>6, <2>2 DEF ListKnown
  <2>. QED BY <2>3, <2>4
<1>9. fsm = "Joiners" => AIsAsk'
  BY <1>4 DEF SetupInv
<1>. QED BY <1>1, <1>2, <1>4, <1>5, <1>7, <1>8, <1>9, ClientsKeep

(* What an established client shows now.                                                                     *)
LEMMA ShowingNow ==
    ASSUME SetupInv, NEW c \in Clients
    PROVE  Showing(c, down[c], client[c], hostId[c], copy[c].players = lobby \/ SentLast(c))
<1>1. ASSUME fsm = "MPLobby", c \in Established(Server), client[c] \in Waiting \cup {"MPLobby"}
      PROVE  /\ KnowsHost(down[c], client[c], hostId[c], host)
             /\ KnowsList(down[c], client[c], copy[c].players = lobby \/ SentLast(c), lobby)
  <2>1. HostKnown(Server) /\ ListKnown(Server)
    BY <1>1 DEF SetupInv, OpenLobby, LobbyOpen
  <2>. QED BY <1>1, <2>1, ServerFields DEF HostKnown, ListKnown
<1>. QED BY <1>1 DEF Showing

LEMMA LeavesKeeps ==
    ASSUME SetupInv, NEW c \in Clients, ClientLeaves(c)
    PROVE  SetupInv'
<1>. DEFINE m == [type |-> "Closed"]
<1>1. Typed /\ c \in Endpoints /\ m \in ClientMessages(given) /\ m.type = "Closed"
      /\ ~ IsUnnamed(m)
  BY DEF SetupInv, CommonInv, Endpoints, ClientMessages, IsUnnamed
<1>2. /\ down' = [down EXCEPT ![c] = <<>>] /\ client' = [client EXCEPT ![c] = "IntroMenu"]
      /\ Send(c, m) /\ id' = id /\ hostId' = hostId /\ copy' = copy
      /\ UNCHANGED serverOnly /\ UNCHANGED <<connected, player, joined>>
  BY DEF ClientLeaves
<1>. HIDE DEF m
<1>3. /\ down \in [Clients -> Seq(ServerMessages(given))]
      /\ client \in [Clients -> Waiting \cup {"IntroMenu", "MPLobby", "PlayingGame"}]
      /\ id \in [Clients -> Int] /\ hostId \in [Clients -> Int]
      /\ copy \in [Clients -> [players : Rows(given), galaxy : {0, 1}]]
  BY <1>1, ServerFields DEF Typed, Servers
<1>4. /\ down' \in [Clients -> Seq(ServerMessages(given))]
      /\ client' \in [Clients -> Waiting \cup {"IntroMenu", "MPLobby", "PlayingGame"}]
      /\ down'[c] = <<>> /\ client'[c] = "IntroMenu"
      /\ \A d \in Clients \ {c} : down'[d] = down[d] /\ client'[d] = client[d]
  <2>1. <<>> \in Seq(ServerMessages(given))
    OBVIOUS
  <2>. QED BY <1>2, <1>3, <2>1
<1>5. Lists(down'[c]) = {}
  <2>1. DOMAIN <<>> = {}
    OBVIOUS
  <2>. QED BY <1>4, <2>1 DEF Lists, Of
<1>6. Showing(c, down'[c], client'[c], hostId'[c], copy'[c].players = lobby \/ SentLast(c)')
  BY <1>4 DEF Showing, Waiting
<1>. QED BY <1>1, <1>2, <1>3, <1>4, <1>5, <1>6, ClientStep

LEMMA CrashKeeps ==
    ASSUME SetupInv, NEW a \in AIs, AICrashes(a)
    PROVE  SetupInv'
<1>. DEFINE m == [type |-> "Closed"]
<1>1. Typed /\ a \in Endpoints /\ a \notin Clients /\ m \in ClientMessages(given)
      /\ m.type = "Closed" /\ ~ IsUnnamed(m)
  BY EndpointsFinite DEF SetupInv, CommonInv, Endpoints, ClientMessages, IsUnnamed
<1>2. /\ down' = down /\ client' = client
      /\ Send(a, m) /\ id' = id /\ hostId' = hostId /\ copy' = copy
      /\ UNCHANGED serverOnly /\ UNCHANGED <<connected, player, joined>>
  BY DEF AICrashes, clientVars
<1>. HIDE DEF m
<1>3. /\ down \in [Clients -> Seq(ServerMessages(given))]
      /\ client \in [Clients -> Waiting \cup {"IntroMenu", "MPLobby", "PlayingGame"}]
      /\ id \in [Clients -> Int] /\ hostId \in [Clients -> Int]
      /\ copy \in [Clients -> [players : Rows(given), galaxy : {0, 1}]]
  BY <1>1, ServerFields DEF Typed, Servers
<1>. QED BY <1>1, <1>2, <1>3, ClientStep

-----------------------------------------------------------------------------
(* A client receives what the server has sent.                                                               *)

LEMMA ReadShows ==
    ASSUME SetupInv, NEW c \in Clients, down[c] # <<>>, NEW next, NEW now, NEW shown,
           next \in Waiting \cup {"MPLobby"} =>
              \/ /\ Head(down[c]).type \notin AckNews /\ next = client[c]
                 /\ now = IF client[c] = "MPLobby" /\ Head(down[c]).type = "HostID"
                          THEN Head(down[c]).id ELSE hostId[c]
              \/ /\ Head(down[c]).type \in AckNews /\ client[c] \in Waiting /\ next = "MPLobby"
                 /\ now = IF Head(down[c]).type \in {"HostMPAck", "HostSPAck"}
                          THEN Head(down[c]).id ELSE hostId[c],
           IF Head(down[c]).type = "LobbyUpdate"
           THEN client[c] = "MPLobby" /\ Head(down[c]).players = lobby => shown
           ELSE copy[c].players = lobby \/ SentLast(c) => shown
    PROVE  Showing(c, Tail(down[c]), next, now, shown)
<1>. DEFINE D == down[c]
            state == client[c]
            own == copy[c].players = lobby \/ SentLast(c)
            known == hostId[c]
<1>1. D \in Seq(ServerMessages(given))
  BY ServerFields DEF SetupInv, CommonInv, Typed, Servers
<1>2. Showing(c, D, state, known, own)
  BY ShowingNow
<1>. HIDE DEF D, state, own, known
<1>3. ASSUME fsm = "MPLobby", c \in Established(Server), next \in Waiting \cup {"MPLobby"}
      PROVE  KnowsHost(Tail(D), next, now, host) /\ KnowsList(Tail(D), next, shown, lobby)
  <2>1. state \in Waiting \cup {"MPLobby"}
    BY <1>3 DEF state
  <2>2. KnowsHost(D, state, known, host) /\ KnowsList(D, state, own, lobby)
    BY <1>2, <1>3, <2>1 DEF Showing
  <2>3. D # <<>>
    BY DEF D
  <2>4. \/ /\ Head(D).type \notin AckNews /\ next = state
           /\ now = IF state = "MPLobby" /\ Head(D).type = "HostID" THEN Head(D).id ELSE known
        \/ /\ Head(D).type \in AckNews /\ state \in Waiting /\ next = "MPLobby"
           /\ now = IF Head(D).type \in {"HostMPAck", "HostSPAck"} THEN Head(D).id ELSE known
    BY <1>3 DEF D, state, known
  <2>5. KnowsHost(Tail(D), next, now, host)
    BY <1>1, <2>1, <2>2, <2>3, <2>4, HostRead
  <2>6. IF Head(D).type \in AckNews THEN state \in Waiting ELSE next = state
    BY <2>4
  <2>7. /\ Head(D).type = "LobbyUpdate" /\ state = "MPLobby" /\ Head(D).players = lobby => shown
        /\ Head(D).type # "LobbyUpdate" /\ own => shown
    BY DEF D, state, own
  <2>8. KnowsList(Tail(D), next, shown, lobby)
    BY <1>1, <2>1, <2>2, <2>3, <2>6, <2>7, ListRead
  <2>. QED BY <2>5, <2>8
<1>. QED BY <1>3 DEF Showing, D

LEMMA ReceivedKeeps ==
    ASSUME SetupInv, NEW c \in Clients, NEW type, Received(c, type),
           up' = up \/ Send(c, [type |-> "Closed"]),
           client' \in [Clients -> Waiting \cup {"IntroMenu", "MPLobby", "PlayingGame"}],
           id' \in [Clients -> Int], hostId' \in [Clients -> Int],
           copy' \in [Clients -> [players : Rows(given), galaxy : {0, 1}]],
           \A d \in Clients \ {c} : /\ client'[d] = client[d]
                                    /\ hostId'[d] = hostId[d] /\ copy'[d] = copy[d],
           Showing(c, Tail(down[c]), client'[c], hostId'[c],
                   copy'[c].players = lobby \/ SentLast(c)')
    PROVE  SetupInv'
<1>. DEFINE m == [type |-> "Closed"]
<1>1. /\ c \in Endpoints /\ m \in ClientMessages(given) /\ m.type = "Closed"
      /\ ~ IsUnnamed(m) /\ (up' = up \/ Send(c, m))
  BY DEF Endpoints, ClientMessages, IsUnnamed
<1>. HIDE DEF m
<1>2. /\ down[c] # <<>> /\ down' = [down EXCEPT ![c] = Tail(@)]
      /\ UNCHANGED serverOnly /\ UNCHANGED <<connected, player, joined>>
  BY DEF Received
<1>3. down \in [Clients -> Seq(ServerMessages(given))]
  BY ServerFields DEF SetupInv, CommonInv, Typed, Servers
<1>4. Tail(down[c]) \in Seq(ServerMessages(given))
  BY <1>2, <1>3
<1>5. /\ down' \in [Clients -> Seq(ServerMessages(given))] /\ down'[c] = Tail(down[c])
      /\ \A d \in Clients \ {c} : down'[d] = down[d]
  BY <1>2, <1>3, <1>4
<1>6. ASSUME Lists(down[c]) = {} PROVE Lists(down'[c]) = {}
  <2>. DEFINE types == {"LobbyUpdate"}
              D == down[c]
  <2>1. D \in Seq(ServerMessages(given)) /\ D # <<>>
    BY <1>2, <1>3
  <2>. HIDE DEF types, D
  <2>2. \A k \in Of(Tail(D), types) : k + 1 \in Of(D, types)
    BY <2>1, OfTail
  <2>3. Of(D, types) = {}
    BY <1>6 DEF D, types, Lists
  <2>4. Of(Tail(D), types) = {}
    BY <2>2, <2>3
  <2>. QED BY <1>5, <2>4 DEF D, types, Lists
<1>7. Showing(c, down'[c], client'[c], hostId'[c], copy'[c].players = lobby \/ SentLast(c)')
  BY <1>5
<1>8. \A d \in Clients \ {c} : /\ down'[d] = down[d] /\ client'[d] = client[d]
                               /\ hostId'[d] = hostId[d] /\ copy'[d] = copy[d]
  BY <1>5
<1>. QED BY <1>1, <1>2, <1>5, <1>6, <1>7, <1>8, ClientStep

LEMMA HeadTyped ==
    ASSUME SetupInv, NEW c \in Clients, down[c] # <<>>
    PROVE  /\ Head(down[c]) \in ServerMessages(given)
           /\ Head(down[c]).type \in AckNews \cup {"HostID"} => Head(down[c]).id \in Int
           /\ Head(down[c]).type = "LobbyUpdate" =>
                 /\ Head(down[c]).players \in Rows(given) /\ Head(down[c]).galaxy \in {0, 1}
<1>1. down[c] \in Seq(ServerMessages(given))
  BY ServerFields DEF SetupInv, CommonInv, Typed, Servers
<1>2. Head(down[c]) \in ServerMessages(given)
  BY <1>1
<1>. QED BY <1>2 DEF ServerMessages, Updates, AckNews

LEMMA ClientsTyped ==
    ASSUME SetupInv
    PROVE  /\ client \in [Clients -> Waiting \cup {"IntroMenu", "MPLobby", "PlayingGame"}]
           /\ id \in [Clients -> Int] /\ hostId \in [Clients -> Int]
           /\ copy \in [Clients -> [players : Rows(given), galaxy : {0, 1}]]
           /\ down \in [Clients -> Seq(ServerMessages(given))]
           /\ up \in [Endpoints -> Seq(ClientMessages(given))]
BY ServerFields DEF SetupInv, CommonInv, Typed, Servers

LEMMA AcknowledgedKeeps ==
    ASSUME SetupInv, NEW c \in Clients, Acknowledged(c)
    PROVE  SetupInv'
<1>. DEFINE h == Head(down[c])
<1>1. PICK type \in {"HostMPAck", "HostSPAck", "JoinAck"} : Receive(c, type)
  BY DEF Acknowledged
<1>2. /\ Received(c, type) /\ up' = up /\ down[c] # <<>> /\ h.type = type
  BY <1>1 DEF Receive, Received
<1>3. /\ client[c] \in Waiting /\ copy' = copy
      /\ client' = [client EXCEPT ![c] = IF h.type = "HostSPAck" THEN "PlayingGame" ELSE "MPLobby"]
      /\ id' = [id EXCEPT ![c] = h.id]
      /\ hostId' = [hostId EXCEPT ![c] = IF h.type \in {"HostMPAck", "HostSPAck"} THEN h.id ELSE @]
  BY DEF Acknowledged, Waiting
<1>4. h.type \in AckNews /\ h.id \in Int
  BY <1>1, <1>2, HeadTyped DEF AckNews
<1>. HIDE DEF h
<1>5. /\ client' \in [Clients -> Waiting \cup {"IntroMenu", "MPLobby", "PlayingGame"}]
      /\ id' \in [Clients -> Int] /\ hostId' \in [Clients -> Int]
      /\ copy' \in [Clients -> [players : Rows(given), galaxy : {0, 1}]]
      /\ \A d \in Clients \ {c} : /\ client'[d] = client[d]
                                  /\ hostId'[d] = hostId[d] /\ copy'[d] = copy[d]
  BY <1>3, <1>4, ClientsTyped
<1>6. /\ client'[c] = IF h.type = "HostSPAck" THEN "PlayingGame" ELSE "MPLobby"
      /\ hostId'[c] = IF h.type \in {"HostMPAck", "HostSPAck"} THEN h.id ELSE hostId[c]
      /\ h.type # "LobbyUpdate"
  BY <1>3, <1>4, ClientsTyped DEF AckNews
<1>7. Showing(c, Tail(down[c]), client'[c], hostId'[c],
              copy'[c].players = lobby \/ SentLast(c)')
  <2>1. SentLast(c) => SentLast(c)'
    BY <1>2, <1>3 DEF SentLast
  <2>2. client'[c] \in Waiting \cup {"MPLobby"} => client'[c] = "MPLobby"
    BY <1>6 DEF Waiting
  <2>. QED BY <1>2, <1>3, <1>4, <1>6, <2>1, <2>2, ReadShows DEF h
<1>. QED BY <1>2, <1>5, <1>7, ReceivedKeeps

LEMMA HostIDKeeps ==
    ASSUME SetupInv, NEW c \in Clients, HostIDReceived(c)
    PROVE  SetupInv'
<1>. DEFINE h == Head(down[c])
<1>1. /\ Received(c, "HostID") /\ up' = up /\ down[c] # <<>> /\ h.type = "HostID"
  BY DEF HostIDReceived, Receive, Received
<1>2. /\ client' = client /\ id' = id /\ copy' = copy
      /\ hostId' = [hostId EXCEPT ![c] = IF client[c] \in {"MPLobby", "PlayingGame"} THEN h.id ELSE @]
  BY DEF HostIDReceived
<1>3. h.type \notin AckNews /\ h.id \in Int
  BY <1>1, HeadTyped DEF AckNews
<1>. HIDE DEF h
<1>4. /\ hostId' \in [Clients -> Int]
      /\ \A d \in Clients \ {c} : hostId'[d] = hostId[d]
      /\ hostId'[c] = IF client[c] \in {"MPLobby", "PlayingGame"} THEN h.id ELSE hostId[c]
  BY <1>2, <1>3, ClientsTyped
<1>5. Showing(c, Tail(down[c]), client'[c], hostId'[c],
              copy'[c].players = lobby \/ SentLast(c)')
  <2>1. SentLast(c) => SentLast(c)'
    BY <1>1, <1>2 DEF SentLast
  <2>2. client[c] \in Waiting \cup {"MPLobby"} =>
           hostId'[c] = IF client[c] = "MPLobby" THEN h.id ELSE hostId[c]
    BY <1>4 DEF Waiting
  <2>. QED BY <1>1, <1>2, <1>3, <2>1, <2>2, ReadShows DEF h
<1>. QED BY <1>1, <1>2, <1>4, <1>5, ClientsTyped, ReceivedKeeps

LEMMA ListReceivedKeeps ==
    ASSUME SetupInv, NEW c \in Clients, LobbyUpdateReceived(c)
    PROVE  SetupInv'
<1>. DEFINE h == Head(down[c])
            n == [players |-> h.players, galaxy |-> h.galaxy]
<1>1. /\ Received(c, "LobbyUpdate") /\ up' = up /\ down[c] # <<>> /\ h.type = "LobbyUpdate"
  BY DEF LobbyUpdateReceived, Receive, Received
<1>2. /\ client' = client /\ id' = id /\ hostId' = hostId
      /\ copy' = [copy EXCEPT ![c] = IF client[c] = "MPLobby" THEN n ELSE @]
  BY DEF LobbyUpdateReceived
<1>3. h.type \notin AckNews /\ n \in [players : Rows(given), galaxy : {0, 1}] /\ n.players = h.players
  BY <1>1, HeadTyped DEF AckNews
<1>. HIDE DEF h, n
<1>4. /\ copy' \in [Clients -> [players : Rows(given), galaxy : {0, 1}]]
      /\ \A d \in Clients \ {c} : copy'[d] = copy[d]
      /\ copy'[c] = IF client[c] = "MPLobby" THEN n ELSE copy[c]
  BY <1>2, <1>3, ClientsTyped
<1>5. Showing(c, Tail(down[c]), client'[c], hostId'[c],
              copy'[c].players = lobby \/ SentLast(c)')
  <2>1. client[c] = "MPLobby" /\ h.players = lobby => copy'[c].players = lobby
    BY <1>3, <1>4
  <2>. QED BY <1>1, <1>2, <1>3, <2>1, ReadShows DEF h
<1>. QED BY <1>1, <1>2, <1>4, <1>5, ClientsTyped, ReceivedKeeps

LEMMA GameStartKeeps ==
    ASSUME SetupInv, NEW c \in Clients, GameStartReceived(c)
    PROVE  SetupInv'
<1>1. /\ Received(c, "GameStart") /\ up' = up
      /\ client' = [client EXCEPT ![c] = "PlayingGame"]
      /\ id' = id /\ hostId' = hostId /\ copy' = copy
  BY DEF GameStartReceived, Receive
<1>2. /\ client' \in [Clients -> Waiting \cup {"IntroMenu", "MPLobby", "PlayingGame"}]
      /\ client'[c] = "PlayingGame" /\ \A d \in Clients \ {c} : client'[d] = client[d]
  BY <1>1, ClientsTyped
<1>3. Showing(c, Tail(down[c]), client'[c], hostId'[c],
              copy'[c].players = lobby \/ SentLast(c)')
  BY <1>2 DEF Showing, Waiting
<1>. QED BY <1>1, <1>2, <1>3, ClientsTyped, ReceivedKeeps

(* Back in the introduction a client shows nothing.                                                            *)
LEMMA IntroKeeps ==
    ASSUME SetupInv, NEW c \in Clients, NEW type, Received(c, type), ToIntroMenu(c),
           up' = up \/ Send(c, [type |-> "Closed"])
    PROVE  SetupInv'
<1>1. /\ client' = [client EXCEPT ![c] = "IntroMenu"] /\ copy' = copy
      /\ id' = [id EXCEPT ![c] = IF client[c] = "PlayingGame" THEN NoPlayer ELSE @]
      /\ hostId' = [hostId EXCEPT ![c] = IF client[c] = "PlayingGame" THEN NoPlayer ELSE @]
  BY DEF ToIntroMenu
<1>2. NoPlayer \in Int
  BY DEF NoPlayer
<1>3. /\ client' \in [Clients -> Waiting \cup {"IntroMenu", "MPLobby", "PlayingGame"}]
      /\ id' \in [Clients -> Int] /\ hostId' \in [Clients -> Int]
      /\ client'[c] = "IntroMenu"
      /\ \A d \in Clients \ {c} : client'[d] = client[d] /\ hostId'[d] = hostId[d]
  BY <1>1, <1>2, ClientsTyped
<1>4. Showing(c, Tail(down[c]), client'[c], hostId'[c],
              copy'[c].players = lobby \/ SentLast(c)')
  BY <1>3 DEF Showing, Waiting
<1>. QED BY <1>1, <1>3, <1>4, ClientsTyped, ReceivedKeeps

LEMMA EndGameKeeps ==
    ASSUME SetupInv, NEW c \in Clients, EndGameReceived(c)
    PROVE  SetupInv'
<1>1. CASE client[c] = "PlayingGame"
  BY <1>1, IntroKeeps DEF EndGameReceived
<1>2. CASE client[c] # "PlayingGame"
  <2>1. /\ Received(c, "EndGame") /\ up' = up /\ client' = client /\ id' = id /\ hostId' = hostId
        /\ copy' = copy /\ down[c] # <<>> /\ Head(down[c]).type = "EndGame"
    BY <1>2 DEF EndGameReceived, Receive, Received
  <2>2. Showing(c, Tail(down[c]), client'[c], hostId'[c],
                copy'[c].players = lobby \/ SentLast(c)')
    <3>1. SentLast(c) => SentLast(c)'
      BY <2>1 DEF SentLast
    <3>. QED BY <2>1, <3>1, ReadShows DEF AckNews
  <2>. QED BY <2>1, <2>2, ClientsTyped, ReceivedKeeps
<1>. QED BY <1>1, <1>2

LEMMA ClientReadsKeeps ==
    ASSUME SetupInv, NEW c \in Clients, ClientReads(c)
    PROVE  SetupInv'
<1>1. CASE Refused(c)
  BY <1>1, IntroKeeps DEF Refused, Receive
<1>. QED BY <1>1, AcknowledgedKeeps, HostIDKeeps, ListReceivedKeeps, GameStartKeeps, EndGameKeeps
        DEF ClientReads

-----------------------------------------------------------------------------
(* A client edits its copy of the lobby, or asks for the game to start.                                        *)

LEMMA EstablishedConnected == ASSUME NEW c \in Established(Server) PROVE c \in connected
BY ServerFields DEF Established

LEMMA UpdateSent ==
    ASSUME SetupInv, NEW c \in Clients, NEW players \in Rows(given), NEW g \in {0, 1},
           SendUpdate(c, players, g)
    PROVE  SetupInv'
<1>. DEFINE m == LobbyData(players, g)
            n == [players |-> players, galaxy |-> g]
<1>1. /\ m \in ClientMessages(given) /\ m.type = "LobbyUpdate" /\ m.players = players
      /\ IsUnnamed(m) => HasUnnamed(players)
  BY DEF LobbyData, ClientMessages, Updates, IsUnnamed
<1>2. n \in [players : Rows(given), galaxy : {0, 1}] /\ n.players = players
  OBVIOUS
<1>3. /\ client[c] = "MPLobby" /\ NamesLast(players) /\ Send(c, m)
      /\ copy' = [copy EXCEPT ![c] = n]
      /\ UNCHANGED serverOnly /\ UNCHANGED <<connected, player, joined>>
      /\ down' = down /\ client' = client /\ id' = id /\ hostId' = hostId
  BY DEF SendUpdate
<1>. HIDE DEF m, n
<1>4. IsUnnamed(m) => Cardinality(OnTheirWay) < Cardinality(AIs \ given)
  BY <1>1, <1>3 DEF NamesLast
<1>5. /\ copy' \in [Clients -> [players : Rows(given), galaxy : {0, 1}]]
      /\ \A d \in Clients \ {c} : copy'[d] = copy[d]
      /\ copy'[c].players = players
  BY <1>2, <1>3, ClientsTyped
<1>6. c \in Endpoints /\ CommonInv
  BY DEF Endpoints, SetupInv
<1>7. Showing(c, down'[c], client'[c], hostId'[c], copy'[c].players = lobby \/ SentLast(c)')
  <2>1. ASSUME fsm = "MPLobby", c \in Established(Server), client'[c] \in Waiting \cup {"MPLobby"}
        PROVE  /\ KnowsHost(down'[c], client'[c], hostId'[c], host)
               /\ KnowsList(down'[c], client'[c], copy'[c].players = lobby \/ SentLast(c)', lobby)
    <3>1. Showing(c, down[c], client[c], hostId[c], copy[c].players = lobby \/ SentLast(c))
      BY ShowingNow
    <3>2. /\ KnowsHost(down[c], client[c], hostId[c], host)
          /\ KnowsList(down[c], client[c], copy[c].players = lobby \/ SentLast(c), lobby)
      BY <1>3, <2>1, <3>1 DEF Showing
    <3>3. Posted(c, m)
      BY <1>3, <1>6, <2>1, Sends, EstablishedConnected
    <3>4. SentLast(c)'
      BY <1>1, <1>5, <1>6, <3>3, SentPosted
    <3>. QED BY <1>3, <3>2, <3>4 DEF KnowsList
  <2>. QED BY <2>1 DEF Showing
<1>. QED BY <1>1, <1>3, <1>4, <1>5, <1>6, <1>7, ClientsTyped, ClientStep

LEMMA CopyTyped ==
    ASSUME SetupInv, NEW c \in Clients
    PROVE  /\ copy[c].players \in Seq(Entries) /\ GoodRows(copy[c].players, given)
           /\ copy[c].players \in Rows(given) /\ copy[c].galaxy \in {0, 1}
<1>1. copy[c] \in [players : Rows(given), galaxy : {0, 1}]
  BY ClientsTyped
<1>. QED BY <1>1 DEF Rows

LEMMA ChangeTypeKeeps ==
    ASSUME SetupInv, NEW c \in Clients, ChangeType(c)
    PROVE  SetupInv'
<1>. DEFINE l == copy[c].players
<1>1. l \in Seq(Entries) /\ GoodRows(l, given) /\ copy[c].galaxy \in {0, 1}
  BY CopyTyped
<1>. HIDE DEF l
<1>2. PICK i \in DOMAIN l, type \in HumanTypes \cup {"Invalid"} :
         /\ l[i].type \in HumanTypes \/ type = "Invalid"
         /\ SendUpdate(c, [l EXCEPT ![i].type = type], copy[c].galaxy)
  BY DEF ChangeType, l
<1>. DEFINE r == [l EXCEPT ![i].type = type]
<1>3. /\ l[i] \in Entries /\ DOMAIN r = DOMAIN l
      /\ r[i] = [l[i] EXCEPT !.type = type]
      /\ \A j \in DOMAIN l \ {i} : r[j] = l[j]
  BY <1>1, <1>2
<1>4. /\ r[i] \in Entries /\ r[i].id = l[i].id /\ r[i].name = l[i].name /\ r[i].type = type
      /\ type # "AI"
  BY <1>2, <1>3 DEF Entries, ClientTypes, HumanTypes
<1>5. r \in Seq(Entries)
  BY <1>1, <1>2, <1>3, <1>4
<1>. HIDE DEF r
<1>6. \A j \in DOMAIN r : r[j].type = "AI" => j # i /\ r[j] = l[j]
  BY <1>3, <1>4
<1>7. \A j \in DOMAIN r : r[j].type \in HumanTypes => l[j].type \in HumanTypes /\ r[j].id = l[j].id
  <2>1. "Invalid" \notin HumanTypes
    BY DEF HumanTypes
  <2>2. type \in HumanTypes => l[i].type \in HumanTypes
    BY <1>2, <2>1
  <2>. QED BY <1>2, <1>3, <1>4, <2>2
<1>8. GoodRows(r, given)
  BY <1>1, <1>3, <1>6, <1>7 DEF GoodRows
<1>. QED BY <1>1, <1>2, <1>5, <1>8, UpdateSent DEF r, Rows

LEMMA AddAIKeeps ==
    ASSUME SetupInv, NEW c \in Clients, AddAI(c)
    PROVE  SetupInv'
<1>. DEFINE l == copy[c].players
            a == Entry(NoPlayer, Unnamed, "AI")
            r == Append(l, a)
<1>1. l \in Seq(Entries) /\ GoodRows(l, given) /\ copy[c].galaxy \in {0, 1}
  BY CopyTyped
<1>2. ~ HasUnnamed(l) /\ SendUpdate(c, r, copy[c].galaxy)
  BY DEF AddAI
<1>3. /\ a \in Entries /\ a.id = NoPlayer /\ a.name = Unnamed /\ a.type = "AI"
      /\ "AI" \notin HumanTypes
  BY DEF Entry, Entries, NoPlayer, ClientTypes, HumanTypes
<1>. HIDE DEF l, a
<1>4. /\ r \in Seq(Entries) /\ DOMAIN l = 1..Len(l) /\ Len(l) \in Nat
      /\ DOMAIN r = 1..Len(l) + 1 /\ r[Len(l) + 1] = a
      /\ \A i \in 1..Len(l) : r[i] = l[i]
  BY <1>1, <1>3
<1>. HIDE DEF r
<1>5. ASSUME NEW i \in DOMAIN r PROVE (i \in DOMAIN l /\ r[i] = l[i]) \/ (i = Len(l) + 1 /\ r[i] = a)
  BY <1>4
<1>6. \A i \in DOMAIN l : l[i].name # Unnamed
  BY <1>2 DEF HasUnnamed
<1>7. GoodRows(r, given)
  <2>1. ASSUME NEW i \in DOMAIN r
        PROVE  /\ r[i].type = "AI" => r[i].id = NoPlayer /\ r[i].name \in given \cup {Unnamed}
               /\ r[i].type \in HumanTypes => r[i].id # NoPlayer
    BY <1>1, <1>3, <1>5 DEF GoodRows
  <2>2. ASSUME NEW i \in DOMAIN r, NEW j \in DOMAIN r,
               r[i].type = "AI", r[j].type = "AI", r[i].name = r[j].name
        PROVE  i = j
    <3>1. CASE i \in DOMAIN l /\ r[i] = l[i] /\ j \in DOMAIN l /\ r[j] = l[j]
      BY <1>1, <2>2, <3>1 DEF GoodRows
    <3>. QED BY <1>3, <1>5, <1>6, <2>2, <3>1
  <2>. QED BY <2>1, <2>2 DEF GoodRows
<1>. QED BY <1>1, <1>2, <1>4, <1>7, UpdateSent DEF Rows

LEMMA GalaxyKeeps ==
    ASSUME SetupInv, NEW c \in Clients, ChangeGalaxy(c)
    PROVE  SetupInv'
<1>1. copy[c].players \in Rows(given) /\ 1 - copy[c].galaxy \in {0, 1}
  BY CopyTyped
<1>. QED BY <1>1, UpdateSent DEF ChangeGalaxy

LEMMA StartAsked ==
    ASSUME SetupInv, NEW c \in Clients, StartGameClicked(c)
    PROVE  SetupInv'
<1>. DEFINE m == [type |-> "Start"]
<1>1. c \in Endpoints /\ m \in ClientMessages(given) /\ m.type = "Start" /\ ~ IsUnnamed(m)
      /\ CommonInv
  BY DEF Endpoints, ClientMessages, IsUnnamed, SetupInv
<1>2. /\ Send(c, m) /\ UNCHANGED serverOnly /\ UNCHANGED <<connected, player, joined>>
      /\ down' = down /\ client' = client /\ id' = id /\ hostId' = hostId /\ copy' = copy
  BY DEF StartGameClicked
<1>. HIDE DEF m
<1>3. Showing(c, down'[c], client'[c], hostId'[c], copy'[c].players = lobby \/ SentLast(c)')
  <2>1. Showing(c, down[c], client[c], hostId[c], copy[c].players = lobby \/ SentLast(c))
    BY ShowingNow
  <2>2. SentLast(c) => SentLast(c)'
    BY <1>1, <1>2, SentKept
  <2>. QED BY <1>2, <2>1, <2>2 DEF Showing, KnowsList
<1>. QED BY <1>1, <1>2, <1>3, ClientsTyped, ClientStep

-----------------------------------------------------------------------------
(* A connection is made, by a client or by an AI.                                                                *)

LEMMA ConnectKeeps ==
    ASSUME SetupInv, NEW e \in Endpoints, NEW m \in ClientMessages(given), Connect(e, m),
           m.type \in {"HostMP", "HostSP", "Join"},
           e \in AIs => m.type = "Join" /\ e \in processes,
           joined' = IF e \in AIs THEN joined \cup {e} ELSE joined,
           UNCHANGED serverOnly, UNCHANGED <<id, hostId, copy>>,
           down' \in [Clients -> Seq(ServerMessages(given))],
           client' \in [Clients -> Waiting \cup {"IntroMenu", "MPLobby", "PlayingGame"}],
           \A d \in Clients \ {e} : down'[d] = down[d] /\ client'[d] = client[d],
           e \in Clients => down'[e] = <<>>
    PROVE  SetupInv'
<1>1. CommonInv /\ connected \in SUBSET Endpoints /\ player \in [Endpoints -> Players]
  BY ServerRoster, ServerFields DEF SetupInv, CommonInv, Typed, Servers
<1>2. /\ e \notin connected /\ connected' = connected \cup {e}
      /\ player' = [player EXCEPT ![e] = Nobody] /\ up' = [up EXCEPT ![e] = <<m>>]
  BY DEF Connect
<1>3. player[e].id = NoPlayer /\ player[e].type = "Invalid"
  BY <1>1, <1>2, ServerFields DEF CommonInv, Identified
<1>4. player' = player
  <2>1. player[e] = Nobody
    BY <1>1, <1>3 DEF Players, Nobody
  <2>. QED BY <1>1, <1>2, <2>1
<1>5. up[e] = <<>>
  BY <1>1, <1>2 DEF CommonInv, AskFirst
<1>6. Posted(e, m)
  <2>1. Append(<<>>, m) = <<m>>
    OBVIOUS
  <2>. QED BY <1>2, <1>5, <2>1 DEF Posted
<1>7. ~ IsUnnamed(m)
  BY DEF IsUnnamed
<1>8. /\ up' \in [Endpoints -> Seq(ClientMessages(given))]
      /\ \A y \in Endpoints : y # e => up'[y] = up[y]
      /\ Cardinality(OnTheirWay') <= Cardinality(OnTheirWay)
      /\ Cardinality(OnTheirWay') \in Nat /\ Cardinality(OnTheirWay) \in Nat
  <2>1. up \in [Endpoints -> Seq(ClientMessages(given))]
    BY ClientsTyped
  <2>2. /\ up' \in [Endpoints -> Seq(ClientMessages(given))]
        /\ ~ IsUnnamed(m) => Cardinality(OnTheirWay') <= Cardinality(OnTheirWay)
        /\ Cardinality(OnTheirWay') \in Nat /\ Cardinality(OnTheirWay) \in Nat
    BY <1>6, <2>1, WayPosted
  <2>3. \A y \in Endpoints : y # e => up'[y] = up[y]
    BY <1>6, <2>1 DEF Posted
  <2>. QED BY <1>7, <2>2, <2>3
<1>9. up'[e] = <<m>>
  BY <1>2, ClientsTyped
<1>10. /\ fsm' = fsm /\ host' = host /\ lobby' = lobby /\ given' = given
  BY DEF serverOnly
<1>11. AskFirst'
  <2>1. ASSUME NEW y \in Endpoints, NEW i \in DOMAIN up'[y],
               up'[y][i].type \in {"HostMP", "HostSP", "Join"}
        PROVE  i = 1 /\ player'[y].id = NoPlayer
    <3>1. CASE y = e
      <4>1. DOMAIN <<m>> = {1}
        OBVIOUS
      <4>. QED BY <1>3, <1>4, <1>9, <2>1, <3>1, <4>1
    <3>2. CASE y # e
      BY <1>1, <1>4, <1>8, <2>1, <3>2 DEF CommonInv, AskFirst
    <3>. QED BY <3>1, <3>2
  <2>2. ASSUME NEW y \in Endpoints, y \notin connected' PROVE up'[y] = <<>>
    BY <1>1, <1>2, <1>8, <2>2 DEF CommonInv, AskFirst
  <2>. QED BY <2>1, <2>2 DEF AskFirst
<1>12. NamesLeft'
  <2>1. Cardinality(AIs \ given) \in Nat
    BY EndpointsAssumption, FS_Difference, FS_CardinalityType
  <2>. QED BY <1>1, <1>8, <1>10, <2>1 DEF CommonInv, NamesLeft
<1>13. /\ Server'.player = player /\ Server'.down = down' /\ Server'.host = host
       /\ Server'.lobby = lobby /\ Server'.connected = connected'
  BY <1>4, <1>10 DEF Server
<1>14. Established(Server') = Established(Server) /\ e \notin Established(Server)
  BY <1>2, <1>3, <1>13, ServerFields DEF Established
<1>15. Strangers(Server)'
  <2>1. ASSUME NEW c \in Clients \cap connected', player[c].id = NoPlayer PROVE Lists(down'[c]) = {}
    <3>1. CASE c = e
      <4>1. DOMAIN <<>> = {}
        OBVIOUS
      <4>. QED BY <3>1, <4>1 DEF Lists, Of
    <3>2. CASE c # e
      BY <1>1, <1>2, <2>1, <3>2, ServerFields DEF CommonInv, Strangers
    <3>. QED BY <3>1, <3>2
  <2>2. Strangers(Server')
    BY <1>13, <2>1 DEF Strangers
  <2>. QED BY <2>2 DEF Strangers
<1>16. ASSUME fsm = "MPLobby" PROVE HostKnown(Server)' /\ ListKnown(Server)'
  <2>1. HostKnown(Server) /\ ListKnown(Server)
    BY <1>16 DEF SetupInv, OpenLobby, LobbyOpen
  <2>2. ASSUME NEW c \in Established(Server), c \in Clients, client'[c] \in Waiting \cup {"MPLobby"}
        PROVE  /\ KnowsHost(down'[c], client'[c], hostId'[c], host)
               /\ KnowsList(down'[c], client'[c], copy'[c].players = lobby \/ SentLast(c)', lobby)
    <3>1. c # e /\ down'[c] = down[c] /\ client'[c] = client[c] /\ hostId'[c] = hostId[c]
          /\ copy'[c] = copy[c]
      BY <1>14, <2>2
    <3>2. KnowsHost(down[c], client[c], hostId[c], host)
      BY <2>1, <2>2, <3>1, ServerFields DEF HostKnown
    <3>3. KnowsList(down[c], client[c], copy[c].players = lobby \/ SentLast(c), lobby)
      BY <2>1, <2>2, <3>1, ServerFields DEF ListKnown
    <3>4. SentLast(c) => SentLast(c)'
      BY <1>1, <1>6, <2>2, <3>1, SentPosted
    <3>. QED BY <3>1, <3>2, <3>3, <3>4 DEF KnowsList
  <2>3. HostKnown(Server)'
    BY <1>13, <1>14, <2>2 DEF HostKnown
  <2>4. ListKnown(Server)'
    BY <1>13, <1>14, <2>2 DEF ListKnown
  <2>. QED BY <2>3, <2>4
<1>17. fsm = "Joiners" => AIsAsk'
  <2>1. ASSUME fsm = "Joiners", NEW a \in connected' \cap AIs, player'[a].id = NoPlayer
        PROVE  up'[a] # <<>> /\ Head(up'[a]).type = "Join"
    <3>1. CASE a = e
      <4>1. <<m>> # <<>> /\ Head(<<m>>) = m
        OBVIOUS
      <4>. QED BY <1>9, <2>1, <3>1, <4>1
    <3>2. CASE a # e
      <4>1. AIsAsk /\ a \in connected /\ a \in Endpoints
        BY <1>2, <2>1, <3>2 DEF SetupInv, Endpoints
      <4>. QED BY <1>4, <1>8, <2>1, <3>2, <4>1 DEF AIsAsk
    <3>. QED BY <3>1, <3>2
  <2>. QED BY <2>1 DEF AIsAsk
<1>18. joined' \in SUBSET processes /\ connected' \cap AIs \subseteq joined'
  BY <1>1, <1>2 DEF CommonInv, ProcessesStarted
<1>19. connected \subseteq connected' /\ connected' \in SUBSET Endpoints
  BY <1>1, <1>2
<1>20. /\ id' \in [Clients -> Int] /\ hostId' \in [Clients -> Int]
       /\ copy' \in [Clients -> [players : Rows(given), galaxy : {0, 1}]]
  BY ClientsTyped
<1>. QED BY <1>4, <1>8, <1>11, <1>12, <1>15, <1>16, <1>17, <1>18, <1>19, <1>20, ClientsKeep

LEMMA ClientConnectsKeeps ==
    ASSUME SetupInv, NEW c \in Clients, NEW m \in ClientMessages(given), NEW waiting \in Waiting,
           ClientConnects(c, m, waiting), m.type \in {"HostMP", "HostSP", "Join"}
    PROVE  SetupInv'
<1>1. c \in Endpoints /\ c \notin AIs
  BY EndpointsFinite DEF Endpoints
<1>2. /\ client' = [client EXCEPT ![c] = waiting] /\ down' = [down EXCEPT ![c] = <<>>]
      /\ Connect(c, m) /\ joined' = joined
      /\ UNCHANGED serverOnly /\ UNCHANGED <<id, hostId, copy>>
  BY DEF ClientConnects
<1>3. /\ down' \in [Clients -> Seq(ServerMessages(given))] /\ down'[c] = <<>>
      /\ client' \in [Clients -> Waiting \cup {"IntroMenu", "MPLobby", "PlayingGame"}]
      /\ \A d \in Clients \ {c} : down'[d] = down[d] /\ client'[d] = client[d]
  <2>1. <<>> \in Seq(ServerMessages(given))
    OBVIOUS
  <2>. QED BY <1>2, <2>1, ClientsTyped
<1>. QED BY <1>1, <1>2, <1>3, ConnectKeeps

LEMMA AsksTyped ==
    /\ [type |-> "Join"] \in ClientMessages(given)
    /\ [type |-> "HostMP"] \in ClientMessages(given)
    /\ \A ais \in SUBSET AIs : [type |-> "HostSP", ais |-> ais] \in ClientMessages(given)
BY DEF ClientMessages

LEMMA ClientActsKeeps ==
    ASSUME SetupInv, NEW c \in Clients, ClientActs(c)
    PROVE  SetupInv'
<1>1. CASE MultiPlayerGame(c)
  <2>1. "WaitingForMPHostAck" \in Waiting /\ "WaitingForMPJoinAck" \in Waiting
    BY DEF Waiting
  <2>. QED BY <1>1, <2>1, AsksTyped, ClientConnectsKeeps DEF MultiPlayerGame
<1>2. CASE NewSinglePlayerGame(c)
  <2>1. PICK ais \in SUBSET AIs :
           ClientConnects(c, [type |-> "HostSP", ais |-> ais], "WaitingForSPHostAck")
    BY <1>2 DEF NewSinglePlayerGame
  <2>2. "WaitingForSPHostAck" \in Waiting
    BY DEF Waiting
  <2>3. [type |-> "HostSP", ais |-> ais] \in ClientMessages(given)
    BY AsksTyped
  <2>. QED BY <2>1, <2>2, <2>3, ClientConnectsKeeps
<1>. QED BY <1>1, <1>2, LeavesKeeps, ChangeTypeKeeps, AddAIKeeps, GalaxyKeeps, StartAsked
        DEF ClientActs, Edit

LEMMA AIConnectsKeeps ==
    ASSUME SetupInv, NEW a \in AIs, AIConnects(a)
    PROVE  SetupInv'
<1>1. a \in Endpoints /\ a \notin Clients
  BY EndpointsFinite DEF Endpoints
<1>2. /\ a \in processes /\ joined' = joined \cup {a} /\ Connect(a, [type |-> "Join"])
      /\ UNCHANGED serverOnly /\ UNCHANGED <<id, hostId, copy>>
      /\ down' = down /\ client' = client
  BY DEF AIConnects
<1>. QED BY <1>1, <1>2, AsksTyped, ClientsTyped, ConnectKeeps

-----------------------------------------------------------------------------
LEMMA InitSetup == Init => SetupInv
<1>. SUFFICES ASSUME Init PROVE SetupInv
  OBVIOUS
<1>1. /\ fsm = "Idle" /\ single = FALSE /\ connected = {} /\ player = [e \in Endpoints |-> Nobody]
      /\ host = NoPlayer /\ lobby = <<>> /\ galaxy = 0
      /\ given = {} /\ processes = {} /\ expectedAIs = {} /\ expected = 0 /\ begun = FALSE
      /\ up = [e \in Endpoints |-> <<>>] /\ down = [c \in Clients |-> <<>>]
      /\ client = [c \in Clients |-> "IntroMenu"] /\ id = [c \in Clients |-> NoPlayer]
      /\ hostId = [c \in Clients |-> NoPlayer] /\ copy = [c \in Clients |-> EmptyCopy]
      /\ joined = {}
  BY DEF Init, SetupInit
<1>2. /\ <<>> \in Seq(Entries) /\ <<>> \in Seq(ServerMessages(given))
      /\ <<>> \in Seq(ClientMessages(given)) /\ DOMAIN <<>> = {}
  OBVIOUS
<1>3. EmptyCopy \in [players : Rows(given), galaxy : {0, 1}]
  BY <1>2 DEF EmptyCopy, Rows, GoodRows
<1>4. Nobody \in Players /\ Nobody.id = NoPlayer /\ Nobody.type = "Invalid" /\ NoPlayer \in Int
  BY DEF Nobody, Players, NoPlayer
<1>5. Typed
  <2>1. Server \in Servers(given)
    BY <1>1, <1>2, <1>4 DEF Server, Servers, States
  <2>. QED BY <1>1, <1>2, <1>3, <1>4, <2>1 DEF Typed
<1>6. Identified(Server)
  BY <1>1, <1>4, ServerFields DEF Identified
<1>7. AskFirst /\ ProcessesStarted
  BY <1>1, <1>2 DEF AskFirst, ProcessesStarted
<1>8. NamesLeft
  <2>1. OnTheirWay = {}
    BY <1>1, <1>2 DEF OnTheirWay, Endpoints
  <2>2. Cardinality(AIs \ given) \in Nat
    BY EndpointsAssumption, FS_Difference, FS_CardinalityType
  <2>. QED BY <2>1, <2>2, FS_EmptySet DEF NamesLeft
<1>9. Strangers(Server) /\ Established(Server) = {}
  BY <1>1, ServerFields DEF Strangers, Established
<1>. QED BY <1>1, <1>5, <1>6, <1>7, <1>8, <1>9 DEF SetupInv, CommonInv

LEMMA NextSetup == SetupInv /\ [Next]_vars => SetupInv'
<1>. SUFFICES ASSUME SetupInv, [Next]_vars PROVE SetupInv'
  OBVIOUS
<1>1. CASE UNCHANGED vars
  <2>1. /\ UNCHANGED <<connected, player, joined, up, down, client, id, hostId, copy>>
        /\ UNCHANGED serverOnly
    BY <1>1 DEF vars, setupVars, clientVars, serverOnly
  <2>2. CommonInv
    BY DEF SetupInv
  <2>3. AskFirst' /\ NamesLeft'
    BY <2>1, <2>2 DEF CommonInv, AskFirst, NamesLeft, OnTheirWay, serverOnly
  <2>4. Server' = Server
    BY <2>1 DEF Server, serverOnly
  <2>5. Strangers(Server)'
    BY <2>2, <2>4 DEF CommonInv, Strangers
  <2>6. fsm = "MPLobby" => HostKnown(Server)' /\ ListKnown(Server)'
    BY <2>1, <2>4 DEF SetupInv, OpenLobby, LobbyOpen, HostKnown, ListKnown, SentLast
  <2>7. fsm = "Joiners" => AIsAsk'
    BY <2>1 DEF SetupInv, AIsAsk
  <2>8. joined' \in SUBSET processes /\ connected' \cap AIs \subseteq joined'
        /\ connected' \in SUBSET Endpoints
    BY <2>1, <2>2, ServerRoster DEF CommonInv, ProcessesStarted
  <2>. QED BY <2>1, <2>3, <2>5, <2>6, <2>7, <2>8, ClientsTyped, ClientsKeep
<1>2. CASE \E e \in Endpoints : ServerReads(e)
  BY <1>2, ServerReadsKeeps
<1>3. CASE \E c \in Clients : ClientReads(c) \/ ClientActs(c)
  BY <1>3, ClientReadsKeeps, ClientActsKeeps
<1>4. CASE \E a \in AIs : AIConnects(a) \/ AICrashes(a)
  BY <1>4, AIConnectsKeeps, CrashKeeps
<1>. QED BY <1>1, <1>2, <1>3, <1>4 DEF Next

(* The setup of a game is in order: every variable is within its values, ids are of one connection each and     *)
(* of no other, the lobby is open as its players are to see it, and the joiners are counted (SetupInv).          *)
THEOREM SetupInvariant == Spec => []SetupInv
<1>1. Init => SetupInv
  BY InitSetup
<1>2. SetupInv /\ [Next]_vars => SetupInv'
  BY NextSetup
<1>. QED BY <1>1, <1>2, PTL DEF Spec

-----------------------------------------------------------------------------
(* What the runs check, for any clients, AIs and bounds.                                                         *)

(* Every variable stays within its values; no unnamed AI gets into the lobby (react(LobbyUpdate)).              *)
THEOREM SetupTypes == Spec => []SetupTypeOK
<1>1. SetupInv => SetupTypeOK
  <2>. SUFFICES ASSUME SetupInv PROVE SetupTypeOK
    OBVIOUS
  <2>1. Server \in Servers(given)
    BY ServerRoster
  <2>2. /\ fsm \in States /\ single \in BOOLEAN /\ begun \in BOOLEAN /\ connected \subseteq Endpoints
        /\ player \in [Endpoints -> Players] /\ host \in Int /\ galaxy \in {0, 1}
        /\ lobby \in Seq(Entries)
    BY <2>1, ServerFields DEF Servers
  <2>3. /\ given \subseteq AIs /\ processes \subseteq AIs /\ expectedAIs \subseteq AIs
        /\ joined \subseteq AIs /\ expected \in Nat
    BY DEF SetupInv, CommonInv, Typed
  <2>4. copy \in [Clients -> [players : Seq(Entries), galaxy : {0, 1}]]
    <3>1. Rows(given) \subseteq Seq(Entries)
      BY DEF Rows
    <3>. QED BY <3>1, ClientsTyped
  <2>5. client \in [Clients -> {"IntroMenu", "WaitingForMPHostAck", "WaitingForMPJoinAck",
                                "WaitingForSPHostAck", "MPLobby", "PlayingGame"}]
    <3>1. Waiting \cup {"IntroMenu", "MPLobby", "PlayingGame"} =
             {"IntroMenu", "WaitingForMPHostAck", "WaitingForMPJoinAck",
              "WaitingForSPHostAck", "MPLobby", "PlayingGame"}
      BY DEF Waiting
    <3>. QED BY <3>1, ClientsTyped
  <2>. QED BY <2>2, <2>3, <2>4, <2>5, ClientsTyped DEF SetupTypeOK, States, Players
<1>. QED BY <1>1, SetupInvariant, PTL

(* A player in the lobby is in the list of players, whatever lists clients with an old copy send                 *)
(* (react(LobbyUpdate), react(Disconnection), react(JoinGame) of MPLobby).                                       *)
THEOREM LobbyListsAll == Spec => []EstablishedAreListed
<1>1. SetupInv => EstablishedAreListed
  BY ServerFields DEF SetupInv, OpenLobby, LobbyOpen, Listed, EstablishedAreListed, EstablishedNow, IsEntryOf
<1>. QED BY <1>1, SetupInvariant, PTL

(* The lobby has one host, a human that is connected (NewPlayerID, SelectNewHost).                               *)
THEOREM LobbyHasOneHost == Spec => []OneConnectedHost
<1>1. SetupInv => OneConnectedHost
  <2>. SUFFICES ASSUME SetupInv, fsm = "MPLobby"
                PROVE  /\ Cardinality({e \in EstablishedNow : player[e].id = host}) = 1
                       /\ \A e \in EstablishedNow : player[e].id = host => player[e].type \in HumanTypes
    BY DEF OneConnectedHost
  <2>1. /\ HasHost(Server) /\ connected \subseteq Clients /\ Identified(Server)
    BY ServerFields DEF SetupInv, CommonInv, OpenLobby, LobbyOpen
  <2>2. PICK h \in EstablishedNow : player[h].id = host
    BY <2>1, ServerFields DEF HasHost, EstablishedNow
  <2>3. \A e \in EstablishedNow : e \in Endpoints /\ e \notin AIs /\ player[e].id # NoPlayer
    BY <2>1, EndpointsFinite, ServerFields DEF EstablishedNow, Established, Endpoints
  <2>4. {e \in EstablishedNow : player[e].id = host} = {h}
    BY <2>1, <2>2, <2>3, ServerFields DEF Identified
  <2>5. \A e \in EstablishedNow : player[e].type \in HumanTypes
    BY <2>1, <2>3, ServerFields DEF Identified
  <2>6. Cardinality({h}) = 1
    BY FS_Singleton
  <2>. QED BY <2>4, <2>5, <2>6
<1>. QED BY <1>1, SetupInvariant, PTL

(* The joiners' states never have more players than the game has entries, those they keep a place for            *)
(* included (react(JoinGame) of WaitingFor(SP|MP)GameJoiners).                                                   *)
THEOREM JoinersFit == Spec => []NeverOverfull
<1>1. SetupInv => NeverOverfull
  BY DEF SetupInv, JoinersCounted, NeverOverfull, EstablishedNow
<1>. QED BY <1>1, SetupInvariant, PTL

(* Once nothing is on its way, every client in the lobby shows the server's list of players and its host,        *)
(* although a sender gets no answer to a list the server has already (react(LobbyUpdate)).                       *)
THEOREM LobbiesAgree == Spec => []PlayersAgreed
<1>1. SetupInv => PlayersAgreed
  <2>. SUFFICES ASSUME SetupInv, fsm = "MPLobby", Quiet, NEW c \in Clients, InLobby(c)
                PROVE  copy[c].players = lobby /\ hostId[c] = host
    BY DEF PlayersAgreed
  <2>1. c \in Established(Server) /\ client[c] = "MPLobby" /\ up[c] = <<>> /\ down[c] = <<>>
    BY DEF InLobby, EstablishedNow, Quiet
  <2>2. /\ KnowsHost(down[c], client[c], hostId[c], host)
        /\ KnowsList(down[c], client[c], copy[c].players = lobby \/ SentLast(c), lobby)
    BY <2>1, ShowingNow DEF Showing
  <2>3. DOMAIN <<>> = {}
    OBVIOUS
  <2>4. Hosts(down[c]) = {} /\ Lists(down[c]) = {} /\ ~ SentLast(c)
    BY <2>1, <2>3 DEF Hosts, Lists, Of, SentLast
  <2>. QED BY <2>2, <2>4 DEF KnowsHost, KnowsList
<1>. QED BY <1>1, SetupInvariant, PTL

(* As long as nobody the game was set up for has left, the joiners' states wait only for AI processes that       *)
(* have yet to connect or to be read: the rows of the list are as many as the humans and the AI processes,       *)
(* and the players established are fewer (react(CheckStartConditions)).                                          *)
THEOREM JoinersProceed == Spec => []NeverStuck
<1>1. SetupInv => NeverStuck
  <2>. SUFFICES ASSUME SetupInv, fsm = "Joiners", HumansPresent, joined \subseteq connected,
                       \A a \in processes : a \in joined /\ up[a] = <<>>
                PROVE  FALSE
    BY DEF NeverStuck
  <2>. DEFINE E == Established(Server)
              H == {i \in DOMAIN lobby : lobby[i].type \in HumanTypes}
              A == {i \in DOMAIN lobby : lobby[i].type = "AI"}
              n == Len(lobby)
  <2>1. /\ JoinersCounted /\ AIsAsk /\ Identified(Server) /\ lobby \in Seq(Entries)
        /\ connected \in SUBSET Endpoints /\ processes \in SUBSET AIs
    BY ServerRoster DEF SetupInv, CommonInv, Typed
  <2>2. Cardinality(H) = Cardinality(HumansLeft) /\ HumansLeft \subseteq E
    BY DEF HumansPresent, HumansLeft, EstablishedNow
  <2>3. IsFiniteSet(E) /\ Cardinality(E) \in Nat
    BY <2>1, EstablishedFinite, ServerFields, FS_CardinalityType
  <2>4. ASSUME NEW a \in processes PROVE a \in E /\ a \notin HumansLeft
    <3>1. a \in connected \cap AIs /\ up[a] = <<>>
      BY <2>1
    <3>2. player[a].id # NoPlayer
      BY <2>1, <3>1 DEF AIsAsk
    <3>3. player[a].type = "AI"
      BY <2>1, <3>1, <3>2, ServerFields DEF Identified
    <3>. QED BY <3>1, <3>2, <3>3, ServerFields DEF Established, HumansLeft, HumanTypes
  <2>5. /\ IsFiniteSet(processes) /\ IsFiniteSet(HumansLeft)
        /\ Cardinality(processes) \in Nat /\ Cardinality(HumansLeft) \in Nat
    <3>1. processes \subseteq E
      BY <2>4
    <3>. QED BY <2>2, <2>3, <3>1, FS_Subset, FS_CardinalityType
  <2>6. Cardinality(processes) + Cardinality(HumansLeft) <= Cardinality(E)
    <3>. DEFINE U == processes \cup HumansLeft
    <3>1. processes \cap HumansLeft = {} /\ U \subseteq E
      BY <2>2, <2>4
    <3>2. Cardinality(U) = Cardinality(processes) + Cardinality(HumansLeft)
      <4>1. Cardinality(U) = Cardinality(processes) + Cardinality(HumansLeft)
                             - Cardinality(processes \cap HumansLeft)
        BY <2>5, FS_Union
      <4>2. Cardinality(processes \cap HumansLeft) = 0
        BY <3>1, FS_EmptySet
      <4>. QED BY <2>5, <4>1, <4>2
    <3>. HIDE DEF U
    <3>3. Cardinality(U) <= Cardinality(E)
      BY <2>3, <3>1, FS_Subset
    <3>. QED BY <3>2, <3>3
  <2>7. /\ processes = AINames(lobby) /\ expected = n /\ Listing(lobby) /\ Cardinality(E) < expected
        /\ \A i, j \in DOMAIN lobby :
              lobby[i].type = "AI" /\ lobby[j].type = "AI" /\ lobby[i].name = lobby[j].name => i = j
    BY <2>1 DEF JoinersCounted
  <2>8. n \in Nat /\ DOMAIN lobby = 1..n /\ \A i \in DOMAIN lobby : lobby[i] \in Entries
    BY <2>1
  <2>. HIDE DEF n, E
  <2>9. H \cup A = 1..n /\ H \cap A = {}
    BY <2>7, <2>8 DEF Listing, Entries, ClientTypes, HumanTypes
  <2>10. IsFiniteSet(1..n) /\ Cardinality(1..n) = n
    BY <2>8, FS_Interval
  <2>11. IsFiniteSet(H) /\ IsFiniteSet(A) /\ Cardinality(H) \in Nat /\ Cardinality(A) \in Nat
    <3>. HIDE DEF H, A
    <3>1. H \subseteq 1..n /\ A \subseteq 1..n
      BY <2>9
    <3>. QED BY <2>10, <3>1, FS_Subset, FS_CardinalityType
  <2>12. Cardinality(H) + Cardinality(A) = n
    <3>. HIDE DEF H, A
    <3>1. Cardinality(H \cup A) = Cardinality(H) + Cardinality(A) - Cardinality(H \cap A)
      BY <2>11, FS_Union
    <3>2. Cardinality(H \cap A) = 0
      BY <2>9, FS_EmptySet
    <3>3. Cardinality(H \cup A) = n
      BY <2>9, <2>10
    <3>. QED BY <2>8, <2>11, <3>1, <3>2, <3>3
  <2>13. Cardinality(A) <= Cardinality(processes)
    <3>. DEFINE f == [i \in A |-> lobby[i].name]
    <3>1. f \in Injection(A, processes)
      <4>1. \A i \in A : f[i] \in processes
        BY <2>7 DEF AINames
      <4>2. \A i, j \in A : f[i] = f[j] => i = j
        BY <2>7
      <4>3. f \in [A -> processes]
        BY <4>1
      <4>. HIDE DEF f, A
      <4>. QED BY <4>2, <4>3 DEF Injection, IsInjective
    <3>. HIDE DEF f, A
    <3>. QED BY <2>5, <3>1, FS_Injection
  <2>. HIDE DEF H, A
  <2>. QED BY <2>2, <2>3, <2>5, <2>6, <2>7, <2>8, <2>11, <2>12, <2>13
<1>. QED BY <1>1, SetupInvariant, PTL
=============================================================================
