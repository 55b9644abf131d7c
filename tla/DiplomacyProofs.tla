---------------------------- MODULE DiplomacyProofs ----------------------------
(***************************************************************************)
(* Proofs about diplomacy for any sets of empires and any number of          *)
(* messages: type correctness, proposals only at war, mutual peace, and      *)
(* clients that show what the server has.                                    *)
(***************************************************************************)
EXTENDS Diplomacy, SequenceTheorems, TLAPS

StandingMessages == DiplomaticMessagesOf({"PEACE_PROPOSAL", "INVALID"})

-----------------------------------------------------------------------------
(* Messages.                                                                 *)

(* The two empires of a message are a pair.                                   *)
LEMMA PairOfMessage ==
    ASSUME NEW types, NEW m \in DiplomaticMessagesOf(types)
    PROVE  /\ m.type \in types
           /\ m.sender \in Empires /\ m.recipient \in Empires
           /\ m.sender # m.recipient
           /\ PairOf(m) \in Pairs
BY DEF DiplomaticMessagesOf, PairOf, Pairs

(* A message made for two empires is a message between them.                  *)
LEMMA MadeMessage ==
    ASSUME NEW e \in Empires, NEW f \in Empires, e # f, NEW types, NEW type \in types
    PROVE  /\ Message(type, e, f) \in DiplomaticMessagesOf(types)
           /\ PairOf(Message(type, e, f)) = {e, f}
BY DEF DiplomaticMessagesOf, PairOf, Message

(* The message ResetDiplomacy enters for a pair is one of that pair.          *)
LEMMA FirstMessageOfPair ==
    ASSUME NEW pair \in Pairs
    PROVE  /\ FirstMessage(pair) \in DiplomaticMessagesOf({"INVALID"})
           /\ FirstMessage(pair) \in StandingMessages
           /\ FirstMessage(pair).type = "INVALID"
           /\ PairOf(FirstMessage(pair)) = pair
<1>1. PICK e \in Empires, f \in Empires : e # f /\ pair = {e, f}
  BY DEF Pairs
<1>2. \E m \in DiplomaticMessagesOf({"INVALID"}) : PairOf(m) = pair
  BY <1>1, MadeMessage
<1>3. /\ FirstMessage(pair) \in DiplomaticMessagesOf({"INVALID"})
      /\ PairOf(FirstMessage(pair)) = pair
  BY <1>2 DEF FirstMessage
<1>. QED BY <1>3 DEF DiplomaticMessagesOf, StandingMessages

(* What the server takes from a connection.                                   *)
LEMMA TakenMessage ==
    ASSUME DiplomacyTypeOK, NEW e \in Empires, toServer[e] # <<>>
    PROVE  /\ Head(toServer[e]) \in DiplomaticMessagesOf(SentTypes)
           /\ Tail(toServer[e]) \in Seq(DiplomaticMessagesOf(SentTypes))
BY HeadTailProperties DEF DiplomacyTypeOK

(* What the server tells the clients keeps its type.                          *)
LEMMA TellType ==
    ASSUME DiplomacyTypeOK, NEW m \in StandingMessages,
           NEW statusUpdates \in Seq(Updates),
           Tell(m, statusUpdates)
    PROVE  toClient' \in [Empires -> Seq(Updates)]
<1>1. MessageUpdate(m) \in Updates
  BY DEF MessageUpdate, Updates, StandingMessages
<1>2. \A e \in Empires :
         toClient[e] \o (IF e \in MessageInformed(m) THEN <<MessageUpdate(m)>> ELSE <<>>)
             \o statusUpdates \in Seq(Updates)
  <2>. TAKE e \in Empires
  <2>. DEFINE told == IF e \in MessageInformed(m) THEN <<MessageUpdate(m)>> ELSE <<>>
  <2>1. told \in Seq(Updates)
    BY <1>1
  <2>2. toClient[e] \in Seq(Updates)
    BY DEF DiplomacyTypeOK
  <2>3. toClient[e] \o told \o statusUpdates \in Seq(Updates)
    <3>. HIDE DEF told
    <3>. QED BY <2>1, <2>2, ConcatProperties
  <2>. QED BY <2>3
<1>. QED BY <1>2 DEF Tell

-----------------------------------------------------------------------------
(* Type correctness.                                                         *)

LEMMA DiplomacyTypeInit == Init => DiplomacyTypeOK
<1>. SUFFICES ASSUME Init PROVE DiplomacyTypeOK
  OBVIOUS
<1>1. m_empire_diplomatic_statuses \in [Pairs -> Statuses]
  BY DEF Init, Statuses
<1>2. /\ m_diplomatic_messages \in [Pairs -> StandingMessages]
      /\ \A pair \in Pairs : PairOf(m_diplomatic_messages[pair]) = pair
  BY FirstMessageOfPair DEF Init
<1>3. wantsPeace \in [Pairs -> SUBSET Empires]
  BY DEF Init, Pairs
<1>4. /\ undeclared \in [Empires -> SUBSET Empires]
      /\ \A e \in Empires : e \notin undeclared[e]
      /\ popup \in [Empires -> SUBSET DiplomaticMessagesOf(SentTypes)]
      /\ sent \in [Empires -> Nat]
      /\ toServer \in [Empires -> Seq(DiplomaticMessagesOf(SentTypes))]
      /\ toClient \in [Empires -> Seq(Updates)]
  BY DEF Init
<1>5. /\ shownStatus \in [HumanEmpires -> [Pairs -> Statuses]]
      /\ shownMessage \in [HumanEmpires -> [Pairs -> StandingMessages]]
  BY <1>1, <1>2 DEF Init
<1>. QED BY <1>1, <1>2, <1>3, <1>4, <1>5 DEF DiplomacyTypeOK, StandingMessages

(* A step that enters a message for its pair keeps the map of messages typed.  *)
LEMMA SetMessageType ==
    ASSUME DiplomacyTypeOK, NEW m \in StandingMessages, SetDiplomaticMessage(m)
    PROVE  /\ m_diplomatic_messages' \in [Pairs -> StandingMessages]
           /\ \A pair \in Pairs : PairOf(m_diplomatic_messages'[pair]) = pair
BY DEF DiplomacyTypeOK, SetDiplomaticMessage, StandingMessages

(* The cases of HandleDiplomaticMessage, on their statuses, messages and news.  *)
LEMMA CasesType ==
    ASSUME DiplomacyTypeOK, NEW m \in DiplomaticMessagesOf(SentTypes),
           WarDeclared(m) \/ PeaceProposed(m) \/ PeaceMade(m) \/ ProposalCancelled(m)
               \/ MessageIgnored(m)
    PROVE  /\ m_empire_diplomatic_statuses' \in [Pairs -> Statuses]
           /\ m_diplomatic_messages' \in [Pairs -> StandingMessages]
           /\ \A pair \in Pairs : PairOf(m_diplomatic_messages'[pair]) = pair
           /\ toClient' \in [Empires -> Seq(Updates)]
<1>1. PairOf(m) \in Pairs /\ m.sender \in Empires /\ m.recipient \in Empires
      /\ m.sender # m.recipient
  BY PairOfMessage
<1>2. NoMessage(m.sender, m.recipient) \in StandingMessages
  BY <1>1, MadeMessage DEF NoMessage, StandingMessages
<1>3. \A s \in Statuses : <<StatusUpdate(PairOf(m), s)>> \in Seq(Updates)
  BY <1>1 DEF StatusUpdate, Updates
<1>4. "DIPLO_WAR" \in Statuses /\ "DIPLO_PEACE" \in Statuses
  BY DEF Statuses
<1>5. \A s \in Statuses : SetDiplomaticStatus(PairOf(m), s) =>
         m_empire_diplomatic_statuses' \in [Pairs -> Statuses]
  BY DEF SetDiplomaticStatus, DiplomacyTypeOK
<1>6. <<>> \in Seq(Updates)
  OBVIOUS
<1>7. CASE WarDeclared(m)
  BY <1>2, <1>3, <1>4, <1>5, <1>7, SetMessageType, TellType
     DEF WarDeclared, RemoveDiplomaticMessage
<1>8. CASE PeaceProposed(m)
  <2>1. m \in StandingMessages
    BY <1>8 DEF PeaceProposed, Proposes, StandingMessages, DiplomaticMessagesOf
  <2>. QED BY <1>6, <1>8, <2>1, SetMessageType, TellType DEF PeaceProposed, DiplomacyTypeOK
<1>9. CASE PeaceMade(m)
  <2>1. (IF AtWar(m) THEN <<StatusUpdate(PairOf(m), "DIPLO_PEACE")>> ELSE <<>>)
           \in Seq(Updates)
    BY <1>3, <1>4, <1>6
  <2>. QED BY <1>2, <1>4, <1>5, <1>9, <2>1, SetMessageType, TellType
           DEF PeaceMade, RemoveDiplomaticMessage
<1>10. CASE ProposalCancelled(m)
  BY <1>2, <1>6, <1>10, SetMessageType, TellType
     DEF ProposalCancelled, RemoveDiplomaticMessage, DiplomacyTypeOK
<1>11. CASE MessageIgnored(m)
  BY <1>11 DEF MessageIgnored, DiplomacyTypeOK, StandingMessages
<1>. QED BY <1>7, <1>8, <1>9, <1>10, <1>11

LEMMA DiplomacyTypeStep == DiplomacyTypeOK /\ [Next]_vars => DiplomacyTypeOK'
<1>. SUFFICES ASSUME DiplomacyTypeOK, [Next]_vars PROVE DiplomacyTypeOK'
  OBVIOUS
<1>1. CASE UNCHANGED vars
  BY <1>1 DEF vars, serverVars, DiplomacyTypeOK, StandingMessages
<1>2. ASSUME NEW e \in Empires, HandleDiplomaticMessage(e)
      PROVE  DiplomacyTypeOK'
  <2>. DEFINE m == Head(toServer[e])
  <2>1. m \in DiplomaticMessagesOf(SentTypes)
        /\ Tail(toServer[e]) \in Seq(DiplomaticMessagesOf(SentTypes))
    BY <1>2, TakenMessage DEF HandleDiplomaticMessage
  <2>2. toServer' \in [Empires -> Seq(DiplomaticMessagesOf(SentTypes))]
    BY <1>2, <2>1 DEF HandleDiplomaticMessage, DiplomacyTypeOK
  <2>3. /\ m_empire_diplomatic_statuses' \in [Pairs -> Statuses]
        /\ m_diplomatic_messages' \in [Pairs -> StandingMessages]
        /\ \A pair \in Pairs : PairOf(m_diplomatic_messages'[pair]) = pair
        /\ toClient' \in [Empires -> Seq(Updates)]
    BY <1>2, <2>1, CasesType DEF HandleDiplomaticMessage
  <2>4. wantsPeace' \in [Pairs -> SUBSET Empires]
    <3>1. Heard(m) /\ m.sender \in Empires
      BY <1>2, <2>1, PairOfMessage DEF HandleDiplomaticMessage
    <3>. QED BY <3>1 DEF Heard, DiplomacyTypeOK
  <2>. QED BY <1>2, <2>2, <2>3, <2>4
           DEF HandleDiplomaticMessage, DiplomacyTypeOK, StandingMessages
<1>3. ASSUME NEW e \in Empires, MenuChosen(e)
      PROVE  DiplomacyTypeOK'
  <2>1. PICK m \in popup[e] : toServer' = [toServer EXCEPT ![e] = Append(@, m)]
    BY <1>3 DEF MenuChosen
  <2>2. m \in DiplomaticMessagesOf(SentTypes)
    BY <2>1 DEF DiplomacyTypeOK
  <2>3. toServer' \in [Empires -> Seq(DiplomaticMessagesOf(SentTypes))]
    BY <2>1, <2>2 DEF DiplomacyTypeOK
  <2>4. /\ popup' \in [Empires -> SUBSET DiplomaticMessagesOf(SentTypes)]
        /\ sent' \in [Empires -> Nat]
    BY <1>3 DEF MenuChosen, DiplomacyTypeOK
  <2>. QED BY <1>3, <2>3, <2>4 DEF MenuChosen, serverVars, DiplomacyTypeOK
<1>4. ASSUME NEW e \in Empires, HumanReceives(e)
      PROVE  DiplomacyTypeOK'
  <2>. DEFINE u == Head(toClient[e])
  <2>1. u \in Updates /\ Tail(toClient[e]) \in Seq(Updates) /\ e \in HumanEmpires
    BY <1>4, HeadTailProperties DEF HumanReceives, DiplomacyTypeOK
  <2>2. toClient' \in [Empires -> Seq(Updates)]
    BY <1>4, <2>1 DEF HumanReceives, DiplomacyTypeOK
  <2>3. shownMessage' \in [HumanEmpires -> [Pairs -> StandingMessages]]
    <3>1. CASE u.kind = "DIPLOMACY"
      <4>1. u.message \in StandingMessages
        BY <2>1, <3>1 DEF Updates, StandingMessages
      <4>2. shownMessage' = [shownMessage EXCEPT ![e][PairOf(u.message)] = u.message]
        BY <1>4, <3>1 DEF HumanReceives
      <4>3. shownMessage \in [HumanEmpires -> [Pairs -> StandingMessages]]
        BY DEF DiplomacyTypeOK, StandingMessages
      <4>. HIDE DEF u
      <4>. QED BY <2>1, <4>1, <4>2, <4>3
    <3>2. CASE u.kind # "DIPLOMACY"
      BY <1>4, <3>2 DEF HumanReceives, DiplomacyTypeOK, StandingMessages
    <3>. QED BY <3>1, <3>2
  <2>4. shownStatus' \in [HumanEmpires -> [Pairs -> Statuses]]
    <3>1. CASE u.kind = "DIPLOMACY"
      BY <1>4, <3>1 DEF HumanReceives, DiplomacyTypeOK
    <3>2. CASE u.kind # "DIPLOMACY"
      <4>1. u.status \in Statuses
        BY <2>1, <3>2 DEF Updates
      <4>2. shownStatus' = [shownStatus EXCEPT ![e][u.pair] = u.status]
        BY <1>4, <3>2 DEF HumanReceives
      <4>3. shownStatus \in [HumanEmpires -> [Pairs -> Statuses]]
        BY DEF DiplomacyTypeOK
      <4>. HIDE DEF u
      <4>. QED BY <2>1, <4>1, <4>2, <4>3
    <3>. QED BY <3>1, <3>2
  <2>. QED BY <1>4, <2>2, <2>3, <2>4
           DEF HumanReceives, serverVars, DiplomacyTypeOK, StandingMessages
<1>5. ASSUME NEW e \in Empires, AIReceives(e)
      PROVE  DiplomacyTypeOK'
  <2>. DEFINE u == Head(toClient[e])
  <2>1. u \in Updates /\ Tail(toClient[e]) \in Seq(Updates)
    BY <1>5, HeadTailProperties DEF AIReceives, DiplomacyTypeOK
  <2>2. toClient' \in [Empires -> Seq(Updates)]
    BY <1>5, <2>1 DEF AIReceives, DiplomacyTypeOK
  <2>3. toServer' \in [Empires -> Seq(DiplomaticMessagesOf(SentTypes))]
    <3>1. CASE ProposedTo(e, u)
      <4>1. u.message \in StandingMessages /\ u.message.recipient = e
        BY <2>1, <3>1 DEF ProposedTo, Updates, StandingMessages
      <4>2. u.message.sender \in Empires /\ u.message.sender # e
        BY <4>1, PairOfMessage DEF StandingMessages
      <4>3. Message("ACCEPT_PROPOSAL", e, u.message.sender)
               \in DiplomaticMessagesOf(SentTypes)
        BY <4>2, MadeMessage DEF SentTypes
      <4>. DEFINE reply == Message("ACCEPT_PROPOSAL", e, u.message.sender)
      <4>4. \/ toServer' = [toServer EXCEPT ![e] = Append(@, reply)]
            \/ UNCHANGED toServer
        BY <1>5 DEF AIReceives
      <4>5. toServer \in [Empires -> Seq(DiplomaticMessagesOf(SentTypes))]
        BY DEF DiplomacyTypeOK
      <4>6. reply \in DiplomaticMessagesOf(SentTypes)
        BY <4>3
      <4>. HIDE DEF u, reply
      <4>7. CASE UNCHANGED toServer
        BY <4>5, <4>7
      <4>8. CASE toServer' = [toServer EXCEPT ![e] = Append(@, reply)]
        <5>1. Append(toServer[e], reply) \in Seq(DiplomaticMessagesOf(SentTypes))
          BY <4>5, <4>6, AppendProperties
        <5>. QED BY <4>5, <4>8, <5>1
      <4>. QED BY <4>4, <4>7, <4>8
    <3>2. CASE ~ProposedTo(e, u)
      BY <1>5, <3>2 DEF AIReceives, DiplomacyTypeOK
    <3>. QED BY <3>1, <3>2
  <2>. QED BY <1>5, <2>2, <2>3 DEF AIReceives, serverVars, DiplomacyTypeOK
<1>6. ASSUME NEW e \in Empires, NEW f \in Empires, PlayerRightClicked(e, f)
      PROVE  DiplomacyTypeOK'
  <2>1. PICK type \in Offer(e, f) : popup' = [popup EXCEPT ![e] = {Message(type, e, f)}]
    BY <1>6 DEF PlayerRightClicked
  <2>2. Message(type, e, f) \in DiplomaticMessagesOf(SentTypes)
    BY <1>6, <2>1, MadeMessage DEF Offer, PlayerRightClicked
  <2>3. popup' \in [Empires -> SUBSET DiplomaticMessagesOf(SentTypes)]
    BY <2>1, <2>2 DEF DiplomacyTypeOK
  <2>. QED BY <1>6, <2>3 DEF PlayerRightClicked, serverVars, DiplomacyTypeOK
<1>7. ASSUME NEW e \in Empires, NEW f \in Empires, DeclareWar(e, f)
      PROVE  DiplomacyTypeOK'
  <2>1. e # f
    BY <1>7 DEF DeclareWar, DiplomacyTypeOK
  <2>2. Message("WAR_DECLARATION", e, f) \in DiplomaticMessagesOf(SentTypes)
    BY <2>1, MadeMessage DEF SentTypes
  <2>3. /\ toServer' \in [Empires -> Seq(DiplomaticMessagesOf(SentTypes))]
        /\ undeclared' \in [Empires -> SUBSET Empires]
        /\ \A g \in Empires : g \notin undeclared'[g]
    BY <1>7, <2>2 DEF DeclareWar, DiplomacyTypeOK
  <2>. QED BY <1>7, <2>3 DEF DeclareWar, serverVars, DiplomacyTypeOK
<1>8. ASSUME NEW e \in Empires, MenuClosed(e)
      PROVE  DiplomacyTypeOK'
  <2>1. popup' \in [Empires -> SUBSET DiplomaticMessagesOf(SentTypes)]
    BY <1>8 DEF MenuClosed, DiplomacyTypeOK
  <2>. QED BY <1>8, <2>1 DEF MenuClosed, serverVars, DiplomacyTypeOK
<1>. QED BY <1>1, <1>2, <1>3, <1>4, <1>5, <1>6, <1>7, <1>8 DEF Next

(* The values stay within their types, and no pair of empires ever loses its    *)
(* entry in the maps of EmpireManager.                                          *)
THEOREM DiplomacyTypeCorrect == Spec => []DiplomacyTypeOK
BY DiplomacyTypeInit, DiplomacyTypeStep, PTL DEF Spec

-----------------------------------------------------------------------------
(* Peace.                                                                    *)

(* A standing proposal was heard, and not withdrawn; it is what makes the       *)
(* answer of the other empire a mutual peace.                                  *)
ProposerWantsPeace ==
    \A pair \in Pairs :
        m_diplomatic_messages[pair].type = "PEACE_PROPOSAL" =>
            m_diplomatic_messages[pair].sender \in wantsPeace[pair]

OnlyThePairWants == \A pair \in Pairs : wantsPeace[pair] \subseteq pair

PeaceInv ==
    /\ ProposalsOnlyAtWar
    /\ PeaceIsMutual
    /\ ProposerWantsPeace
    /\ OnlyThePairWants

LEMMA PeaceInit == Init => PeaceInv
<1>. SUFFICES ASSUME Init PROVE PeaceInv
  OBVIOUS
<1>1. \A pair \in Pairs : m_diplomatic_messages[pair].type = "INVALID"
  BY FirstMessageOfPair DEF Init
<1>2. \A pair \in Pairs : wantsPeace[pair] = pair
  BY DEF Init
<1>. QED BY <1>1, <1>2
         DEF PeaceInv, ProposalsOnlyAtWar, PeaceIsMutual, ProposerWantsPeace, OnlyThePairWants

(* One message handled, at its own pair; the others are as they were.           *)
LEMMA PeaceCase ==
    ASSUME DiplomacyTypeOK, PeaceInv, NEW m \in DiplomaticMessagesOf(SentTypes),
           Heard(m),
           WarDeclared(m) \/ PeaceProposed(m) \/ PeaceMade(m) \/ ProposalCancelled(m)
               \/ MessageIgnored(m)
    PROVE  PeaceInv'
<1>. DEFINE pm == PairOf(m)
            no == NoMessage(m.sender, m.recipient)
<1>1. /\ pm \in Pairs /\ m.sender \in Empires /\ m.recipient \in Empires
      /\ m.sender # m.recipient /\ pm = {m.sender, m.recipient} /\ m.type \in SentTypes
  BY PairOfMessage DEF PairOf
<1>2. no.type = "INVALID" /\ PairOf(no) = pm
  BY DEF NoMessage, Message, PairOf
<1>3. \A pair \in Pairs : pair # pm =>
         /\ m_empire_diplomatic_statuses'[pair] = m_empire_diplomatic_statuses[pair]
         /\ m_diplomatic_messages'[pair] = m_diplomatic_messages[pair]
         /\ wantsPeace'[pair] = wantsPeace[pair]
  <2>1. \A pair \in Pairs : pair # pm => wantsPeace'[pair] = wantsPeace[pair]
    BY DEF Heard, DiplomacyTypeOK
  <2>2. CASE WarDeclared(m)
    BY <1>2, <2>1, <2>2 DEF WarDeclared, RemoveDiplomaticMessage, SetDiplomaticMessage,
          SetDiplomaticStatus, DiplomacyTypeOK
  <2>3. CASE PeaceProposed(m)
    BY <2>1, <2>3 DEF PeaceProposed, SetDiplomaticMessage, DiplomacyTypeOK
  <2>4. CASE PeaceMade(m)
    BY <1>2, <2>1, <2>4 DEF PeaceMade, RemoveDiplomaticMessage, SetDiplomaticMessage,
          SetDiplomaticStatus, DiplomacyTypeOK
  <2>5. CASE ProposalCancelled(m)
    BY <1>2, <2>1, <2>5 DEF ProposalCancelled, RemoveDiplomaticMessage,
          SetDiplomaticMessage, DiplomacyTypeOK
  <2>6. CASE MessageIgnored(m)
    BY <2>1, <2>6 DEF MessageIgnored
  <2>. QED BY <2>2, <2>3, <2>4, <2>5, <2>6
<1>. DEFINE st == m_empire_diplomatic_statuses[pm]
            ms == m_diplomatic_messages[pm]
            wp == wantsPeace[pm]
            stN == m_empire_diplomatic_statuses'[pm]
            msN == m_diplomatic_messages'[pm]
            wpN == wantsPeace'[pm]
<1>4. wpN = IF st # "DIPLO_WAR"
            THEN IF m.type = "WAR_DECLARATION" THEN {} ELSE wp
            ELSE CASE m.type \in {"PEACE_PROPOSAL", "ACCEPT_PROPOSAL"} -> wp \cup {m.sender}
                   [] m.type = "CANCEL_PROPOSAL" -> wp \ {m.sender}
                   [] OTHER -> wp
  BY <1>1 DEF Heard, AtWar, DiplomacyTypeOK
<1>5. /\ ms.type = "PEACE_PROPOSAL" => st = "DIPLO_WAR" /\ ms.sender \in wp
      /\ st = "DIPLO_PEACE" => wp = pm
      /\ wp \subseteq pm
      /\ st \in Statuses
      /\ ms \in StandingMessages
  BY <1>1 DEF PeaceInv, ProposalsOnlyAtWar, PeaceIsMutual, ProposerWantsPeace,
              OnlyThePairWants, DiplomacyTypeOK, StandingMessages
<1>6. /\ msN.type = "PEACE_PROPOSAL" => stN = "DIPLO_WAR" /\ msN.sender \in wpN
      /\ stN = "DIPLO_PEACE" => wpN = pm
      /\ wpN \subseteq pm
  <2>1. wpN \subseteq pm
    BY <1>1, <1>4, <1>5 DEF SentTypes
  <2>2. CASE WarDeclared(m)
    <3>1. stN = "DIPLO_WAR" /\ msN = no
      BY <1>1, <1>2, <2>2 DEF WarDeclared, RemoveDiplomaticMessage,
            SetDiplomaticMessage, SetDiplomaticStatus, DiplomacyTypeOK
    <3>. QED BY <1>2, <2>1, <3>1
  <2>3. CASE PeaceProposed(m)
    <3>1. stN = st /\ st = "DIPLO_WAR" /\ msN = m /\ m.type = "PEACE_PROPOSAL"
      BY <1>1, <2>3 DEF PeaceProposed, Proposes, AtWar, SetDiplomaticMessage,
            DiplomacyTypeOK
    <3>. QED BY <1>4, <2>1, <3>1
  <2>4. CASE PeaceMade(m)
    <3>1. stN = "DIPLO_PEACE" /\ msN = no
      BY <1>1, <1>2, <2>4 DEF PeaceMade, RemoveDiplomaticMessage,
            SetDiplomaticMessage, SetDiplomaticStatus, DiplomacyTypeOK
    <3>2. /\ ms.type = "PEACE_PROPOSAL" /\ ms.sender = m.recipient
          /\ m.type \in {"PEACE_PROPOSAL", "ACCEPT_PROPOSAL"}
      BY <2>4 DEF PeaceMade, Agrees, ProposalBy, Existing
    <3>3. wpN = wp \cup {m.sender} /\ m.recipient \in wp
      BY <1>4, <1>5, <3>2
    <3>. QED BY <1>1, <1>2, <2>1, <3>1, <3>3
  <2>5. CASE ProposalCancelled(m)
    <3>1. stN = st /\ msN = no
      BY <1>1, <1>2, <2>5 DEF ProposalCancelled, RemoveDiplomaticMessage,
            SetDiplomaticMessage, DiplomacyTypeOK
    <3>2. st = "DIPLO_WAR"
      BY <1>5, <2>5 DEF ProposalCancelled, Cancels, ProposalBy, Existing
    <3>. QED BY <1>2, <2>1, <3>1, <3>2
  <2>6. CASE MessageIgnored(m)
    <3>1. stN = st /\ msN = ms
      BY <2>6 DEF MessageIgnored
    <3>2. CASE st = "DIPLO_PEACE"
      <4>1. m.type # "WAR_DECLARATION"
        BY <2>6, <3>2 DEF MessageIgnored, Declares, AtWar
      <4>. QED BY <1>4, <1>5, <3>1, <3>2, <4>1
    <3>3. CASE st = "DIPLO_WAR"
      <4>1. ms.type = "PEACE_PROPOSAL" =>
               ~(m.type = "CANCEL_PROPOSAL" /\ m.sender = ms.sender)
        BY <2>6 DEF MessageIgnored, Cancels, ProposalBy, Existing
      <4>. QED BY <1>1, <1>4, <1>5, <2>1, <3>1, <3>3, <4>1 DEF SentTypes
    <3>. QED BY <1>5, <3>2, <3>3 DEF Statuses
  <2>. QED BY <2>2, <2>3, <2>4, <2>5, <2>6
<1>7. \A pair \in Pairs :
         /\ m_diplomatic_messages'[pair].type = "PEACE_PROPOSAL" =>
               /\ m_empire_diplomatic_statuses'[pair] = "DIPLO_WAR"
               /\ m_diplomatic_messages'[pair].sender \in wantsPeace'[pair]
         /\ m_empire_diplomatic_statuses'[pair] = "DIPLO_PEACE" => wantsPeace'[pair] = pair
         /\ wantsPeace'[pair] \subseteq pair
  <2>. TAKE pair \in Pairs
  <2>1. CASE pair = pm
    BY <1>6, <2>1
  <2>2. CASE pair # pm
    BY <1>3, <2>2 DEF PeaceInv, ProposalsOnlyAtWar, PeaceIsMutual, ProposerWantsPeace,
                      OnlyThePairWants
  <2>. QED BY <2>1, <2>2
<1>. QED BY <1>7 DEF PeaceInv, ProposalsOnlyAtWar, PeaceIsMutual, ProposerWantsPeace,
                     OnlyThePairWants

LEMMA PeaceStep == DiplomacyTypeOK /\ PeaceInv /\ [Next]_vars => PeaceInv'
<1>. SUFFICES ASSUME DiplomacyTypeOK, PeaceInv, [Next]_vars PROVE PeaceInv'
  OBVIOUS
<1>1. CASE UNCHANGED serverVars
  BY <1>1 DEF serverVars, PeaceInv, ProposalsOnlyAtWar, PeaceIsMutual,
              ProposerWantsPeace, OnlyThePairWants
<1>2. ASSUME NEW e \in Empires, HandleDiplomaticMessage(e)
      PROVE  PeaceInv'
  BY <1>2, TakenMessage, PeaceCase DEF HandleDiplomaticMessage
<1>3. UNCHANGED serverVars \/ \E e \in Empires : HandleDiplomaticMessage(e)
  BY DEF Next, vars, MenuChosen, MenuClosed, HumanReceives, AIReceives, PlayerRightClicked, DeclareWar
<1>. QED BY <1>1, <1>2, <1>3

THEOREM PeaceInvariant == Spec => []PeaceInv
<1>1. DiplomacyTypeOK /\ PeaceInv /\ [Next]_vars => PeaceInv'
  BY PeaceStep
<1>. QED BY <1>1, PeaceInit, DiplomacyTypeCorrect, PTL DEF Spec

(* A peace proposal stands only between empires at war, so that accepting one,   *)
(* which does not look at the status, ends a war.                               *)
THEOREM NoProposalAtPeace == Spec => []ProposalsOnlyAtWar
<1>1. PeaceInv => ProposalsOnlyAtWar
  BY DEF PeaceInv
<1>. QED BY <1>1, PeaceInvariant, PTL

(* Whatever stale menus and crossing messages the clients send, two empires are  *)
(* at peace only when both have asked for it since war was declared.            *)
THEOREM MutualPeace == Spec => []PeaceIsMutual
<1>1. PeaceInv => PeaceIsMutual
  BY DEF PeaceInv
<1>. QED BY <1>1, PeaceInvariant, PTL

-----------------------------------------------------------------------------
(* Copies. A copy is on its way to a value when the last update about it in the  *)
(* channel brings the value, or none is there and it has the value already.      *)

Settled(s, about, u, shown) ==
    \/ shown /\ \A i \in DOMAIN s : s[i] \notin about
    \/ \E i \in DOMAIN s : /\ s[i] = u
                           /\ \A j \in DOMAIN s : j > i => s[j] \notin about

(* What is said last settles it.                                               *)
LEMMA SettledBySaying ==
    ASSUME NEW S, NEW s \in Seq(S), NEW about, NEW u \in S, NEW shown \in BOOLEAN
    PROVE  Settled(s \o <<u>>, about, u, shown)
<1>. DEFINE t == s \o <<u>>
<1>1. Len(t) = Len(s) + 1 /\ t[Len(s) + 1] = u /\ DOMAIN t = 1 .. Len(s) + 1
      /\ Len(s) \in Nat
  BY ConcatProperties, LenProperties
<1>. HIDE DEF t
<1>2. Settled(t, about, u, shown)
  BY <1>1 DEF Settled
<1>. QED BY <1>2 DEF t

(* Saying something else changes nothing.                                      *)
LEMMA SettledAfterOther ==
    ASSUME NEW S, NEW s \in Seq(S), NEW about, NEW u \in S, NEW shown \in BOOLEAN,
           NEW x \in S, x \notin about,
           Settled(s, about, u, shown)
    PROVE  Settled(s \o <<x>>, about, u, shown)
<1>. DEFINE t == s \o <<x>>
<1>1. /\ Len(t) = Len(s) + 1 /\ t[Len(s) + 1] = x
      /\ DOMAIN t = 1 .. Len(s) + 1 /\ DOMAIN s = 1 .. Len(s) /\ Len(s) \in Nat
      /\ \A i \in 1 .. Len(s) : t[i] = s[i]
  BY ConcatProperties, LenProperties
<1>. HIDE DEF t
<1>2. CASE shown /\ \A i \in DOMAIN s : s[i] \notin about
  <2>1. \A i \in DOMAIN t : t[i] \notin about
    BY <1>1, <1>2
  <2>2. Settled(t, about, u, shown)
    BY <1>2, <2>1 DEF Settled
  <2>. QED BY <2>2 DEF t
<1>3. ASSUME NEW i \in DOMAIN s, s[i] = u,
             \A j \in DOMAIN s : j > i => s[j] \notin about
      PROVE  Settled(s \o <<x>>, about, u, shown)
  <2>1. i \in DOMAIN t /\ t[i] = u /\ \A j \in DOMAIN t : j > i => t[j] \notin about
    BY <1>1, <1>3
  <2>2. Settled(t, about, u, shown)
    BY <2>1 DEF Settled
  <2>. QED BY <2>2 DEF t
<1>. QED BY <1>2, <1>3 DEF Settled

(* Handling the first update leaves the copy on its way.                        *)
LEMMA SettledAfterHead ==
    ASSUME NEW S, NEW s \in Seq(S), s # <<>>, NEW about, NEW u \in S,
           NEW shown \in BOOLEAN, NEW shownNext \in BOOLEAN,
           Head(s) \in about => (Head(s) = u => shownNext),
           Head(s) \notin about => (shown => shownNext),
           u \in about,
           Settled(s, about, u, shown)
    PROVE  Settled(Tail(s), about, u, shownNext)
<1>. DEFINE t == Tail(s)
<1>1. /\ Len(t) = Len(s) - 1 /\ DOMAIN t = 1 .. Len(s) - 1 /\ DOMAIN s = 1 .. Len(s)
      /\ Len(s) \in Nat /\ Len(s) > 0 /\ s[1] = Head(s)
      /\ \A i \in 1 .. Len(s) - 1 : t[i] = s[i + 1]
  BY HeadTailProperties, LenProperties, EmptySeq
<1>. HIDE DEF t
<1>2. CASE shown /\ \A i \in DOMAIN s : s[i] \notin about
  <2>1. \A i \in DOMAIN t : t[i] \notin about
    BY <1>1, <1>2
  <2>2. shownNext
    BY <1>1, <1>2
  <2>3. Settled(t, about, u, shownNext)
    BY <2>1, <2>2 DEF Settled
  <2>. QED BY <2>3 DEF t
<1>3. ASSUME NEW i \in DOMAIN s, s[i] = u,
             \A j \in DOMAIN s : j > i => s[j] \notin about
      PROVE  Settled(Tail(s), about, u, shownNext)
  <2>1. CASE i = 1
    <3>1. shownNext
      BY <1>1, <1>3, <2>1
    <3>2. \A j \in DOMAIN t : t[j] \notin about
      BY <1>1, <1>3, <2>1
    <3>3. Settled(t, about, u, shownNext)
      BY <3>1, <3>2 DEF Settled
    <3>. QED BY <3>3 DEF t
  <2>2. CASE i # 1
    <3>1. /\ i - 1 \in DOMAIN t /\ t[i - 1] = u
          /\ \A j \in DOMAIN t : j > i - 1 => t[j] \notin about
      BY <1>1, <1>3, <2>2
    <3>2. Settled(t, about, u, shownNext)
      BY <3>1 DEF Settled
    <3>. QED BY <3>2 DEF t
  <2>. QED BY <2>1, <2>2
<1>. QED BY <1>2, <1>3 DEF Settled

(* The updates about the status of a pair, and about its message.               *)
AboutStatus(pair) == {StatusUpdate(pair, s) : s \in Statuses}
AboutMessage(pair) == {MessageUpdate(m) : m \in {n \in StandingMessages : PairOf(n) = pair}}

StatusSettled(e, pair) ==
    Settled(toClient[e], AboutStatus(pair),
            StatusUpdate(pair, m_empire_diplomatic_statuses[pair]),
            shownStatus[e][pair] = m_empire_diplomatic_statuses[pair])
MessageSettled(e, pair) ==
    Settled(toClient[e], AboutMessage(pair),
            MessageUpdate(m_diplomatic_messages[pair]),
            shownMessage[e][pair] = m_diplomatic_messages[pair])

CopyInv ==
    \A e \in HumanEmpires : \A pair \in Pairs :
        /\ StatusSettled(e, pair)
        /\ e \in pair => MessageSettled(e, pair)

LEMMA CopyInit == Init => CopyInv
<1>. SUFFICES ASSUME Init, NEW e \in HumanEmpires, NEW pair \in Pairs
              PROVE  StatusSettled(e, pair) /\ MessageSettled(e, pair)
  BY DEF CopyInv
<1>1. /\ toClient[e] = <<>>
      /\ shownStatus[e] = m_empire_diplomatic_statuses
      /\ shownMessage[e] = m_diplomatic_messages
  BY DEF Init, Empires
<1>2. \A i \in DOMAIN toClient[e] : FALSE
  BY <1>1
<1>. QED BY <1>1, <1>2 DEF StatusSettled, MessageSettled, Settled

(* Which updates are about what.                                               *)
LEMMA AboutUpdates ==
    ASSUME NEW pair \in Pairs, NEW p \in Pairs, NEW s \in Statuses,
           NEW m \in StandingMessages
    PROVE  /\ StatusUpdate(p, s) \in Updates /\ MessageUpdate(m) \in Updates
           /\ StatusUpdate(p, s) \in AboutStatus(pair) <=> p = pair
           /\ MessageUpdate(m) \in AboutMessage(pair) <=> PairOf(m) = pair
           /\ StatusUpdate(p, s) \notin AboutMessage(pair)
           /\ MessageUpdate(m) \notin AboutStatus(pair)
<1>1. StatusUpdate(p, s) \in Updates /\ MessageUpdate(m) \in Updates
  BY DEF StatusUpdate, MessageUpdate, Updates, StandingMessages
<1>2. \A t \in Statuses : StatusUpdate(p, s) = StatusUpdate(pair, t) => p = pair
  BY DEF StatusUpdate
<1>3. \A n \in StandingMessages : MessageUpdate(m) = MessageUpdate(n) => m = n
  BY DEF MessageUpdate
<1>4. \A n \in StandingMessages : StatusUpdate(p, s) # MessageUpdate(n)
  BY DEF MessageUpdate, StatusUpdate
<1>5. \A t \in Statuses : StatusUpdate(pair, t) # MessageUpdate(m)
  BY DEF MessageUpdate, StatusUpdate
<1>. QED BY <1>1, <1>2, <1>3, <1>4, <1>5 DEF AboutStatus, AboutMessage

(* A changed message goes to both empires of the pair.                          *)
Said(e, n) == toClient[e] \o (IF e \in MessageInformed(n) THEN <<MessageUpdate(n)>> ELSE <<>>)

LEMMA SaidSettled ==
    ASSUME DiplomacyTypeOK, CopyInv, NEW n \in StandingMessages,
           SetDiplomaticMessage(n),
           NEW e \in HumanEmpires, NEW pair \in Pairs
    PROVE  /\ Said(e, n) \in Seq(Updates)
           /\ Settled(Said(e, n), AboutStatus(pair),
                      StatusUpdate(pair, m_empire_diplomatic_statuses[pair]),
                      shownStatus[e][pair] = m_empire_diplomatic_statuses[pair])
           /\ e \in pair =>
                 Settled(Said(e, n), AboutMessage(pair),
                         MessageUpdate(m_diplomatic_messages'[pair]),
                         shownMessage[e][pair] = m_diplomatic_messages'[pair])
<1>. DEFINE p == PairOf(n)
<1>1. /\ p \in Pairs /\ MessageInformed(n) = p
      /\ toClient[e] \in Seq(Updates)
      /\ m_empire_diplomatic_statuses[pair] \in Statuses
      /\ m_diplomatic_messages[pair] \in StandingMessages
      /\ PairOf(m_diplomatic_messages[pair]) = pair
  BY PairOfMessage DEF MessageInformed, StandingMessages, DiplomacyTypeOK, Empires
<1>2. /\ m_diplomatic_messages'[pair] = IF pair = p THEN n ELSE m_diplomatic_messages[pair]
  BY <1>1 DEF SetDiplomaticMessage, DiplomacyTypeOK
<1>3. StatusSettled(e, pair) /\ (e \in pair => MessageSettled(e, pair))
  BY DEF CopyInv
<1>4. /\ StatusUpdate(pair, m_empire_diplomatic_statuses[pair]) \in Updates
      /\ MessageUpdate(m_diplomatic_messages[pair]) \in Updates
      /\ MessageUpdate(n) \in Updates
      /\ MessageUpdate(n) \notin AboutStatus(pair)
      /\ MessageUpdate(n) \in AboutMessage(pair) <=> p = pair
  BY <1>1, AboutUpdates
<1>5. CASE e \notin p
  <2>1. Said(e, n) = toClient[e]
    BY <1>1, <1>5 DEF Said
  <2>2. e \in pair => pair # p
    BY <1>5
  <2>. QED BY <1>1, <1>2, <1>3, <2>1, <2>2 DEF StatusSettled, MessageSettled
<1>6. CASE e \in p
  <2>1. Said(e, n) = toClient[e] \o <<MessageUpdate(n)>>
    BY <1>1, <1>6 DEF Said
  <2>2. Said(e, n) \in Seq(Updates)
    BY <1>1, <1>4, <2>1
  <2>3. Settled(Said(e, n), AboutStatus(pair),
                StatusUpdate(pair, m_empire_diplomatic_statuses[pair]),
                shownStatus[e][pair] = m_empire_diplomatic_statuses[pair])
    <3>1. Settled(toClient[e] \o <<MessageUpdate(n)>>, AboutStatus(pair),
                  StatusUpdate(pair, m_empire_diplomatic_statuses[pair]),
                  shownStatus[e][pair] = m_empire_diplomatic_statuses[pair])
      BY <1>1, <1>3, <1>4, SettledAfterOther DEF StatusSettled
    <3>. QED BY <2>1, <3>1
  <2>4. CASE pair = p
    <3>1. Settled(toClient[e] \o <<MessageUpdate(n)>>, AboutMessage(pair),
                  MessageUpdate(n), shownMessage[e][pair] = m_diplomatic_messages'[pair])
      BY <1>1, <1>4, SettledBySaying
    <3>. QED BY <1>2, <2>1, <2>2, <2>3, <2>4, <3>1
  <2>5. ASSUME pair # p, e \in pair
        PROVE  Settled(Said(e, n), AboutMessage(pair),
                       MessageUpdate(m_diplomatic_messages'[pair]),
                       shownMessage[e][pair] = m_diplomatic_messages'[pair])
    <3>1. Settled(toClient[e] \o <<MessageUpdate(n)>>, AboutMessage(pair),
                  MessageUpdate(m_diplomatic_messages[pair]),
                  shownMessage[e][pair] = m_diplomatic_messages[pair])
      BY <1>1, <1>3, <1>4, <2>5, SettledAfterOther DEF MessageSettled
    <3>2. m_diplomatic_messages'[pair] = m_diplomatic_messages[pair]
      BY <1>2, <2>5
    <3>. QED BY <2>1, <3>1, <3>2
  <2>. QED BY <2>2, <2>3, <2>4, <2>5
<1>. QED BY <1>5, <1>6

(* A step that changes the message of a pair and tells its empires.             *)
LEMMA CopyMessage ==
    ASSUME DiplomacyTypeOK, CopyInv, NEW n \in StandingMessages,
           SetDiplomaticMessage(n), Tell(n, <<>>),
           UNCHANGED <<m_empire_diplomatic_statuses, shownStatus, shownMessage>>
    PROVE  CopyInv'
<1>. SUFFICES ASSUME NEW e \in HumanEmpires, NEW pair \in Pairs
              PROVE  StatusSettled(e, pair)' /\ (e \in pair => MessageSettled(e, pair)')
  BY DEF CopyInv
<1>1. Said(e, n) \in Seq(Updates)
  BY SaidSettled
<1>2. toClient'[e] = Said(e, n)
  <2>1. toClient'[e] = Said(e, n) \o <<>>
    BY DEF Tell, Said, Empires
  <2>. QED BY <1>1, <2>1, ConcatEmptySeq
<1>. QED BY <1>2, SaidSettled DEF StatusSettled, MessageSettled

(* A step that changes the status of the pair too, and tells everybody.         *)
LEMMA CopyStatus ==
    ASSUME DiplomacyTypeOK, CopyInv, NEW n \in StandingMessages, NEW s \in Statuses,
           SetDiplomaticMessage(n), SetDiplomaticStatus(PairOf(n), s),
           Tell(n, <<StatusUpdate(PairOf(n), s)>>),
           UNCHANGED <<shownStatus, shownMessage>>
    PROVE  CopyInv'
<1>. SUFFICES ASSUME NEW e \in HumanEmpires, NEW pair \in Pairs
              PROVE  StatusSettled(e, pair)' /\ (e \in pair => MessageSettled(e, pair)')
  BY DEF CopyInv
<1>. DEFINE p == PairOf(n)
            su == StatusUpdate(p, s)
<1>1. p \in Pairs
  BY PairOfMessage DEF StandingMessages
<1>2. Said(e, n) \in Seq(Updates)
  BY SaidSettled
<1>3. toClient'[e] = Said(e, n) \o <<su>>
  BY DEF Tell, Said, Empires
<1>4. m_empire_diplomatic_statuses'[pair] =
         IF pair = p THEN s ELSE m_empire_diplomatic_statuses[pair]
  BY <1>1 DEF SetDiplomaticStatus, DiplomacyTypeOK
<1>5. /\ m_empire_diplomatic_statuses[pair] \in Statuses
      /\ m_diplomatic_messages'[pair] \in StandingMessages
  BY SetMessageType DEF DiplomacyTypeOK
<1>6. /\ StatusUpdate(pair, m_empire_diplomatic_statuses[pair]) \in Updates
      /\ MessageUpdate(m_diplomatic_messages'[pair]) \in Updates
      /\ su \in Updates
      /\ su \notin AboutMessage(pair)
      /\ su \in AboutStatus(pair) <=> p = pair
  BY <1>1, <1>5, AboutUpdates
<1>7. e \in pair => MessageSettled(e, pair)'
  <2>1. e \in pair =>
           Settled(Said(e, n) \o <<su>>, AboutMessage(pair),
                   MessageUpdate(m_diplomatic_messages'[pair]),
                   shownMessage[e][pair] = m_diplomatic_messages'[pair])
    BY <1>2, <1>6, SaidSettled, SettledAfterOther
  <2>. QED BY <1>3, <2>1 DEF MessageSettled
<1>8. StatusSettled(e, pair)'
  <2>1. CASE pair = p
    <3>1. Settled(Said(e, n) \o <<su>>, AboutStatus(pair), su,
                  shownStatus[e][pair] = m_empire_diplomatic_statuses'[pair])
      BY <1>2, <1>6, SettledBySaying
    <3>. QED BY <1>3, <1>4, <2>1, <3>1 DEF StatusSettled
  <2>2. CASE pair # p
    <3>1. Settled(Said(e, n) \o <<su>>, AboutStatus(pair),
                  StatusUpdate(pair, m_empire_diplomatic_statuses[pair]),
                  shownStatus[e][pair] = m_empire_diplomatic_statuses[pair])
      BY <1>2, <1>6, <2>2, SaidSettled, SettledAfterOther
    <3>. QED BY <1>3, <1>4, <2>2, <3>1 DEF StatusSettled
  <2>. QED BY <2>1, <2>2
<1>. QED BY <1>7, <1>8

(* HandleDiplomaticMessage changes nothing without telling the clients.         *)
LEMMA CopyCase ==
    ASSUME DiplomacyTypeOK, CopyInv, NEW m \in DiplomaticMessagesOf(SentTypes),
           WarDeclared(m) \/ PeaceProposed(m) \/ PeaceMade(m) \/ ProposalCancelled(m)
               \/ MessageIgnored(m),
           UNCHANGED <<shownStatus, shownMessage>>
    PROVE  CopyInv'
<1>. DEFINE no == NoMessage(m.sender, m.recipient)
<1>1. PairOf(m) \in Pairs /\ no \in StandingMessages /\ PairOf(no) = PairOf(m)
  <2>1. /\ m.sender \in Empires /\ m.recipient \in Empires /\ m.sender # m.recipient
        /\ PairOf(m) \in Pairs /\ PairOf(m) = {m.sender, m.recipient}
    BY PairOfMessage DEF PairOf
  <2>2. no \in StandingMessages /\ PairOf(no) = {m.sender, m.recipient}
    BY <2>1, MadeMessage DEF NoMessage, StandingMessages
  <2>. QED BY <2>1, <2>2
<1>2. "DIPLO_WAR" \in Statuses /\ "DIPLO_PEACE" \in Statuses
  BY DEF Statuses
<1>3. CASE WarDeclared(m)
  BY <1>1, <1>2, <1>3, CopyStatus DEF WarDeclared, RemoveDiplomaticMessage
<1>4. CASE PeaceProposed(m)
  <2>1. m \in StandingMessages
    BY <1>4 DEF PeaceProposed, Proposes, StandingMessages, DiplomaticMessagesOf
  <2>. QED BY <1>4, <2>1, CopyMessage DEF PeaceProposed
<1>5. CASE PeaceMade(m)
  <2>1. CASE AtWar(m)
    BY <1>1, <1>2, <1>5, <2>1, CopyStatus DEF PeaceMade, RemoveDiplomaticMessage
  <2>2. CASE ~AtWar(m)
    <3>1. m_empire_diplomatic_statuses[PairOf(m)] = "DIPLO_PEACE"
      BY <1>1, <2>2 DEF AtWar, DiplomacyTypeOK, Statuses
    <3>2. UNCHANGED m_empire_diplomatic_statuses
      BY <1>1, <1>5, <3>1 DEF PeaceMade, SetDiplomaticStatus, DiplomacyTypeOK
    <3>. QED BY <1>1, <1>5, <2>2, <3>2, CopyMessage DEF PeaceMade, RemoveDiplomaticMessage
  <2>. QED BY <2>1, <2>2
<1>6. CASE ProposalCancelled(m)
  BY <1>1, <1>6, CopyMessage DEF ProposalCancelled, RemoveDiplomaticMessage
<1>7. CASE MessageIgnored(m)
  BY <1>7 DEF MessageIgnored, CopyInv, StatusSettled, MessageSettled
<1>. QED BY <1>3, <1>4, <1>5, <1>6, <1>7

(* A client that handles an update stores what it says.                         *)
LEMMA CopyReceived ==
    ASSUME DiplomacyTypeOK, CopyInv, NEW f \in Empires, HumanReceives(f)
    PROVE  CopyInv'
<1>. SUFFICES ASSUME NEW e \in HumanEmpires, NEW pair \in Pairs
              PROVE  StatusSettled(e, pair)' /\ (e \in pair => MessageSettled(e, pair)')
  BY DEF CopyInv
<1>. DEFINE u == Head(toClient[f])
            st == m_empire_diplomatic_statuses[pair]
            ms == m_diplomatic_messages[pair]
<1>1. /\ UNCHANGED <<m_empire_diplomatic_statuses, m_diplomatic_messages>>
      /\ f \in HumanEmpires /\ toClient[f] # <<>>
  BY DEF HumanReceives, serverVars
<1>2. StatusSettled(e, pair) /\ (e \in pair => MessageSettled(e, pair))
  BY DEF CopyInv
<1>3. CASE e # f
  <2>1. /\ toClient'[e] = toClient[e]
        /\ shownStatus'[e] = shownStatus[e]
        /\ shownMessage'[e] = shownMessage[e]
    BY <1>3 DEF HumanReceives, DiplomacyTypeOK, Empires
  <2>. QED BY <1>1, <1>2, <2>1 DEF StatusSettled, MessageSettled
<1>4. CASE e = f
  <2>1. toClient[e] \in Seq(Updates) /\ u \in Updates /\ toClient'[e] = Tail(toClient[e])
    BY <1>1, <1>4, HeadTailProperties DEF HumanReceives, DiplomacyTypeOK
  <2>2. /\ st \in Statuses /\ ms \in StandingMessages /\ PairOf(ms) = pair
    BY DEF DiplomacyTypeOK, StandingMessages
  <2>3. /\ StatusUpdate(pair, st) \in Updates /\ StatusUpdate(pair, st) \in AboutStatus(pair)
        /\ MessageUpdate(ms) \in Updates /\ MessageUpdate(ms) \in AboutMessage(pair)
    BY <2>2, AboutUpdates
  <2>4. /\ u \in AboutStatus(pair) => (u = StatusUpdate(pair, st) => shownStatus'[e][pair] = st)
        /\ u \notin AboutStatus(pair) =>
              (shownStatus[e][pair] = st => shownStatus'[e][pair] = st)
    <3>1. CASE u.kind = "DIPLOMACY"
      <4>1. u # StatusUpdate(pair, st)
        BY <3>1 DEF StatusUpdate
      <4>2. shownStatus' = shownStatus
        BY <1>4, <3>1 DEF HumanReceives
      <4>. QED BY <4>1, <4>2
    <3>2. CASE u.kind # "DIPLOMACY"
      <4>1. u.pair \in Pairs /\ u.status \in Statuses /\ u = StatusUpdate(u.pair, u.status)
        BY <2>1, <3>2 DEF Updates, StatusUpdate
      <4>2. shownStatus' = [shownStatus EXCEPT ![f][u.pair] = u.status]
        BY <3>2 DEF HumanReceives
      <4>3. shownStatus'[e][pair] = IF u.pair = pair THEN u.status ELSE shownStatus[e][pair]
        BY <1>4, <4>1, <4>2 DEF DiplomacyTypeOK
      <4>4. u.pair = pair => u \in AboutStatus(pair)
        BY <4>1 DEF AboutStatus
      <4>5. u = StatusUpdate(pair, st) => u.pair = pair /\ u.status = st
        BY DEF StatusUpdate
      <4>. QED BY <4>3, <4>4, <4>5
    <3>. QED BY <3>1, <3>2
  <2>5. /\ u \in AboutMessage(pair) => (u = MessageUpdate(ms) => shownMessage'[e][pair] = ms)
        /\ u \notin AboutMessage(pair) =>
              (shownMessage[e][pair] = ms => shownMessage'[e][pair] = ms)
    <3>1. CASE u.kind # "DIPLOMACY"
      <4>1. u # MessageUpdate(ms)
        BY <3>1 DEF MessageUpdate
      <4>2. shownMessage' = shownMessage
        BY <1>4, <3>1 DEF HumanReceives
      <4>. QED BY <4>1, <4>2
    <3>2. CASE u.kind = "DIPLOMACY"
      <4>1. u.message \in StandingMessages /\ u = MessageUpdate(u.message)
        BY <2>1, <3>2 DEF Updates, MessageUpdate, StandingMessages
      <4>2. PairOf(u.message) \in Pairs
        BY <4>1, PairOfMessage DEF StandingMessages
      <4>3. shownMessage' = [shownMessage EXCEPT ![f][PairOf(u.message)] = u.message]
        BY <3>2 DEF HumanReceives
      <4>4. shownMessage'[e][pair] =
               IF PairOf(u.message) = pair THEN u.message ELSE shownMessage[e][pair]
        BY <1>4, <4>2, <4>3 DEF DiplomacyTypeOK
      <4>5. PairOf(u.message) = pair => u \in AboutMessage(pair)
        BY <4>1 DEF AboutMessage
      <4>6. u = MessageUpdate(ms) => u.message = ms
        BY DEF MessageUpdate
      <4>. QED BY <2>2, <4>4, <4>5, <4>6
    <3>. QED BY <3>1, <3>2
  <2>6. StatusSettled(e, pair)'
    <3>1. Settled(Tail(toClient[e]), AboutStatus(pair), StatusUpdate(pair, st),
                  shownStatus'[e][pair] = st)
      BY <1>1, <1>2, <1>4, <2>1, <2>3, <2>4, SettledAfterHead DEF StatusSettled
    <3>. QED BY <1>1, <2>1, <3>1 DEF StatusSettled
  <2>7. e \in pair => MessageSettled(e, pair)'
    <3>1. e \in pair =>
             Settled(Tail(toClient[e]), AboutMessage(pair), MessageUpdate(ms),
                     shownMessage'[e][pair] = ms)
      BY <1>1, <1>2, <1>4, <2>1, <2>3, <2>5, SettledAfterHead DEF MessageSettled
    <3>. QED BY <1>1, <2>1, <3>1 DEF MessageSettled
  <2>. QED BY <2>6, <2>7
<1>. QED BY <1>3, <1>4

LEMMA CopyStep == DiplomacyTypeOK /\ CopyInv /\ [Next]_vars => CopyInv'
<1>. SUFFICES ASSUME DiplomacyTypeOK, CopyInv, [Next]_vars PROVE CopyInv'
  OBVIOUS
<1>. DEFINE unchanged ==
        /\ UNCHANGED <<m_empire_diplomatic_statuses, m_diplomatic_messages,
                       shownStatus, shownMessage>>
        /\ \A e \in HumanEmpires : toClient'[e] = toClient[e]
<1>1. CASE unchanged
  BY <1>1 DEF CopyInv, StatusSettled, MessageSettled
<1>2. ASSUME NEW e \in Empires, HandleDiplomaticMessage(e)
      PROVE  CopyInv'
  BY <1>2, TakenMessage, CopyCase DEF HandleDiplomaticMessage
<1>3. ASSUME NEW e \in Empires, HumanReceives(e)
      PROVE  CopyInv'
  BY <1>3, CopyReceived
<1>4. ASSUME NEW e \in Empires, AIReceives(e)
      PROVE  unchanged
  <2>1. e \notin HumanEmpires
    BY <1>4, EmpiresAssumption DEF AIReceives
  <2>. QED BY <1>4, <2>1 DEF AIReceives, serverVars, DiplomacyTypeOK, Empires
<1>5. ASSUME NEW e \in Empires, MenuChosen(e) \/ MenuClosed(e)
      PROVE  unchanged
  BY <1>5 DEF MenuChosen, MenuClosed, serverVars
<1>6. ASSUME NEW e \in Empires, NEW f \in Empires,
             PlayerRightClicked(e, f) \/ DeclareWar(e, f)
      PROVE  unchanged
  BY <1>6 DEF PlayerRightClicked, DeclareWar, serverVars
<1>7. CASE UNCHANGED vars
  BY <1>1, <1>7 DEF vars, serverVars
<1>. QED BY <1>1, <1>2, <1>3, <1>4, <1>5, <1>6, <1>7 DEF Next

(* However the updates of several changes queue up, a client that has handled    *)
(* all of them shows the statuses and messages the server has.                  *)
THEOREM CopiesConverge == Spec => []ReplicasConverge
<1>1. DiplomacyTypeOK /\ CopyInv /\ [Next]_vars => CopyInv'
  BY CopyStep
<1>2. DiplomacyTypeOK /\ CopyInv => ReplicasConverge
  <2>. SUFFICES ASSUME DiplomacyTypeOK, CopyInv, NEW e \in HumanEmpires,
                       toClient[e] = <<>>
                PROVE  /\ shownStatus[e] = m_empire_diplomatic_statuses
                       /\ \A pair \in Pairs :
                             e \in pair => shownMessage[e][pair] = m_diplomatic_messages[pair]
    BY DEF ReplicasConverge
  <2>1. \A pair \in Pairs :
           /\ shownStatus[e][pair] = m_empire_diplomatic_statuses[pair]
           /\ e \in pair => shownMessage[e][pair] = m_diplomatic_messages[pair]
    BY DEF CopyInv, StatusSettled, MessageSettled, Settled
  <2>. QED BY <2>1 DEF DiplomacyTypeOK
<1>. QED BY <1>1, <1>2, CopyInit, DiplomacyTypeCorrect, PTL DEF Spec

===============================================================================
