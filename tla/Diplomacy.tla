------------------------------- MODULE Diplomacy -------------------------------
(***************************************************************************)
(* Diplomacy between empires: EmpireManager on the server keeps a status     *)
(* and at most one message per pair of empires, clients send messages and    *)
(* keep copies of what the server tells them (Empire/EmpireManager.cpp,      *)
(* ServerApp::HandleDiplomatic*Change, UI/PlayerListWnd.cpp).                *)
(*                                                                          *)
(* The deferral of Diplomacy events while the server saves or processes a    *)
(* turn keeps their order and is part of the delay of toServer; TURN_UPDATE  *)
(* repeats, in the same FIFO, what the updates said. Players who leave, and  *)
(* interactive combat, during which a client defers DIPLOMACY, are left out. *)
(***************************************************************************)
EXTENDS Naturals, Sequences, FiniteSets

CONSTANTS HumanEmpires, AIEmpires,
          MaxSent           \* bound: messages each human sends

ASSUME EmpiresAssumption == /\ HumanEmpires \cap AIEmpires = {}
                            /\ MaxSent \in [HumanEmpires -> Nat]

Empires == HumanEmpires \cup AIEmpires
Pairs == {pair \in SUBSET Empires : \E e, f \in pair : e # f /\ pair = {e, f}}

VARIABLES
    m_empire_diplomatic_statuses, m_diplomatic_messages,  \* the server's, by pair
    shownStatus, shownMessage,  \* each human client's copies of them
    popup,          \* the message the open popup menu of a client would send
    undeclared,     \* the empires an AI is still to declare war on
    sent,           \* number of messages sent by each human
    toServer, toClient,         \* FIFO connections, by empire
    wantsPeace      \* history: the empires of each pair whose last word in the
                    \* present or last war, as the server heard it, was for peace

serverVars == <<m_empire_diplomatic_statuses, m_diplomatic_messages, wantsPeace>>
vars == <<serverVars, shownStatus, shownMessage, popup, undeclared, sent,
          toServer, toClient>>

-----------------------------------------------------------------------------
SentTypes == {"WAR_DECLARATION", "PEACE_PROPOSAL", "ACCEPT_PROPOSAL", "CANCEL_PROPOSAL"}
DiplomaticMessagesOf(types) ==
    {m \in [type : types, sender : Empires, recipient : Empires] : m.sender # m.recipient}
Statuses == {"DIPLO_WAR", "DIPLO_PEACE"}

Message(type, e, f) == [type |-> type, sender |-> e, recipient |-> f]
NoMessage(e, f) == Message("INVALID", e, f)
PairOf(m) == {m.sender, m.recipient}

(* What the server sends a client.                                            *)
MessageUpdate(m) == [kind |-> "DIPLOMACY", message |-> m]
StatusUpdate(pair, s) == [kind |-> "DIPLOMATIC_STATUS", pair |-> pair, status |-> s]
Updates == [kind : {"DIPLOMACY"}, message : DiplomaticMessagesOf({"PEACE_PROPOSAL", "INVALID"})]
      \cup [kind : {"DIPLOMATIC_STATUS"}, pair : Pairs, status : Statuses]

-----------------------------------------------------------------------------
(* The signals of EmpireManager: a changed message goes to the players of its *)
(* two empires, a changed status to everybody.                                *)
RecipientInformed(m) == {m.recipient}                                \* a mutant
MessageInformed(m) == PairOf(m)

TellPair(m, statusUpdates) ==                                        \* a mutant
    toClient' = [e \in Empires |->
                    toClient[e]
                    \o (IF e \in MessageInformed(m) THEN <<MessageUpdate(m)>> \o statusUpdates
                                                    ELSE <<>>)]
Tell(m, statusUpdates) ==
    toClient' = [e \in Empires |->
                    toClient[e]
                    \o (IF e \in MessageInformed(m) THEN <<MessageUpdate(m)>> ELSE <<>>)
                    \o statusUpdates]

SetDiplomaticMessage(m) ==
    m_diplomatic_messages' = [m_diplomatic_messages EXCEPT ![PairOf(m)] = m]

(* RemoveDiplomaticMessage keeps the entry of the pair, as an invalid message. *)
EraseDiplomaticMessage(e, f) ==                                      \* a mutant
    m_diplomatic_messages' = [p \in Pairs \ {{e, f}} |-> m_diplomatic_messages[p]]
RemoveDiplomaticMessage(e, f) == SetDiplomaticMessage(NoMessage(e, f))

SetDiplomaticStatus(pair, s) ==
    m_empire_diplomatic_statuses' = [m_empire_diplomatic_statuses EXCEPT ![pair] = s]

AtWar(m) == m_empire_diplomatic_statuses[PairOf(m)] = "DIPLO_WAR"
Existing(m) == m_diplomatic_messages[PairOf(m)]

ProposalBy(m, e) == Existing(m).type = "PEACE_PROPOSAL" /\ Existing(m).sender = e

(* The cases of HandleDiplomaticMessage. ACCEPT_PROPOSAL does not look at the  *)
(* status.                                                                     *)
Declares(m) == m.type = "WAR_DECLARATION" /\ ~AtWar(m)
ProposesAnytime(m) ==                                                \* a mutant
    m.type = "PEACE_PROPOSAL" /\ Existing(m).type = "INVALID"
Proposes(m) == m.type = "PEACE_PROPOSAL" /\ AtWar(m) /\ Existing(m).type = "INVALID"
AgreesWithAny(m) ==                                                  \* a mutant
    /\ \/ m.type = "PEACE_PROPOSAL" /\ AtWar(m)
       \/ m.type = "ACCEPT_PROPOSAL"
    /\ Existing(m).type = "PEACE_PROPOSAL"
Agrees(m) ==
    /\ \/ m.type = "PEACE_PROPOSAL" /\ AtWar(m)
       \/ m.type = "ACCEPT_PROPOSAL"
    /\ ProposalBy(m, m.recipient)
Cancels(m) == m.type = "CANCEL_PROPOSAL" /\ ProposalBy(m, m.sender)

WarDeclared(m) ==
    /\ Declares(m)
    /\ RemoveDiplomaticMessage(m.sender, m.recipient)
    /\ SetDiplomaticStatus(PairOf(m), "DIPLO_WAR")
    /\ Tell(NoMessage(m.sender, m.recipient), <<StatusUpdate(PairOf(m), "DIPLO_WAR")>>)

PeaceProposed(m) ==
    /\ Proposes(m)
    /\ SetDiplomaticMessage(m)
    /\ Tell(m, <<>>)
    /\ UNCHANGED m_empire_diplomatic_statuses

PeaceMade(m) ==
    /\ Agrees(m)
    /\ RemoveDiplomaticMessage(m.sender, m.recipient)
    /\ SetDiplomaticStatus(PairOf(m), "DIPLO_PEACE")
    /\ Tell(NoMessage(m.sender, m.recipient),
            IF AtWar(m) THEN <<StatusUpdate(PairOf(m), "DIPLO_PEACE")>> ELSE <<>>)

ProposalCancelled(m) ==
    /\ Cancels(m)
    /\ RemoveDiplomaticMessage(m.sender, m.recipient)
    /\ Tell(NoMessage(m.sender, m.recipient), <<>>)
    /\ UNCHANGED m_empire_diplomatic_statuses

MessageIgnored(m) ==
    /\ ~(Declares(m) \/ Proposes(m) \/ Agrees(m) \/ Cancels(m))
    /\ UNCHANGED <<m_empire_diplomatic_statuses, m_diplomatic_messages, toClient>>

(* The history: what a message says, whatever the server makes of it.          *)
Heard(m) ==
    wantsPeace' = [wantsPeace EXCEPT ![PairOf(m)] =
        IF ~AtWar(m)
        THEN IF m.type = "WAR_DECLARATION" THEN {} ELSE @
        ELSE CASE m.type \in {"PEACE_PROPOSAL", "ACCEPT_PROPOSAL"} -> @ \cup {m.sender}
               [] m.type = "CANCEL_PROPOSAL" -> @ \ {m.sender}
               [] OTHER -> @]

HandleDiplomaticMessage(e) ==
    /\ toServer[e] # <<>>
    /\ toServer' = [toServer EXCEPT ![e] = Tail(@)]
    /\ LET m == Head(toServer[e]) IN
          /\ \/ WarDeclared(m)
             \/ PeaceProposed(m)
             \/ PeaceMade(m)
             \/ ProposalCancelled(m)
             \/ MessageIgnored(m)
          /\ Heard(m)
    /\ UNCHANGED <<shownStatus, shownMessage, popup, undeclared, sent>>

-----------------------------------------------------------------------------
(* PlayerListWnd::PlayerRightClicked: the menu offers what the client's copies *)
(* allow when it is opened; messages go on being handled while it is open      *)
(* (PopupMenu::Run pumps them), and its choice is sent however they changed,   *)
(* unless the menu is closed without one.                                      *)
Offer(e, f) ==
    LET status == shownStatus[e][{e, f}]
        existing == shownMessage[e][{e, f}]
    IN {type \in SentTypes :
           \/ /\ type = "WAR_DECLARATION"
              /\ status = "DIPLO_PEACE" /\ existing.type = "INVALID"
           \/ /\ type = "PEACE_PROPOSAL"
              /\ status = "DIPLO_WAR" /\ existing.type = "INVALID"
           \/ /\ type = "ACCEPT_PROPOSAL"
              /\ status = "DIPLO_WAR" /\ existing.type = "PEACE_PROPOSAL"
              /\ existing.sender = f
           \/ /\ type = "CANCEL_PROPOSAL"
              /\ status = "DIPLO_WAR" /\ existing.type = "PEACE_PROPOSAL"
              /\ existing.sender = e}

PlayerRightClicked(e, f) ==
    /\ e \in HumanEmpires
    /\ e # f
    /\ popup[e] = {}
    /\ sent[e] < MaxSent[e]
    /\ \E type \in Offer(e, f) :
          popup' = [popup EXCEPT ![e] = {Message(type, e, f)}]
    /\ UNCHANGED <<serverVars, shownStatus, shownMessage, undeclared, sent,
                   toServer, toClient>>

MenuChosen(e) ==
    /\ \E m \in popup[e] : toServer' = [toServer EXCEPT ![e] = Append(@, m)]
    /\ popup' = [popup EXCEPT ![e] = {}]
    /\ sent' = [sent EXCEPT ![e] = @ + 1]
    /\ UNCHANGED <<serverVars, shownStatus, shownMessage, undeclared, toClient>>

MenuClosed(e) ==
    /\ popup[e] # {}
    /\ popup' = [popup EXCEPT ![e] = {}]
    /\ UNCHANGED <<serverVars, shownStatus, shownMessage, undeclared, sent,
                   toServer, toClient>>

(* HumanClientFSM, PlayingGame::react(Diplomacy) and (DiplomaticStatusUpdate).  *)
HumanReceives(e) ==
    /\ e \in HumanEmpires
    /\ toClient[e] # <<>>
    /\ toClient' = [toClient EXCEPT ![e] = Tail(@)]
    /\ LET u == Head(toClient[e]) IN
          IF u.kind = "DIPLOMACY"
          THEN /\ shownMessage' = [shownMessage EXCEPT ![e][PairOf(u.message)] = u.message]
               /\ UNCHANGED shownStatus
          ELSE /\ shownStatus' = [shownStatus EXCEPT ![e][u.pair] = u.status]
               /\ UNCHANGED shownMessage
    /\ UNCHANGED <<serverVars, popup, undeclared, sent, toServer>>

(* The AI script declares war on everybody in its first turn, and may accept a  *)
(* peace proposal made to it; between turns it keeps no copies.                 *)
DeclareWar(e, f) ==
    /\ f \in undeclared[e]
    /\ undeclared' = [undeclared EXCEPT ![e] = @ \ {f}]
    /\ toServer' = [toServer EXCEPT ![e] = Append(@, Message("WAR_DECLARATION", e, f))]
    /\ UNCHANGED <<serverVars, shownStatus, shownMessage, popup, sent, toClient>>

ProposedTo(e, u) == /\ u.kind = "DIPLOMACY"
                    /\ u.message.type = "PEACE_PROPOSAL"
                    /\ u.message.recipient = e

AIReceives(e) ==
    /\ e \in AIEmpires
    /\ undeclared[e] = {}
    /\ toClient[e] # <<>>
    /\ toClient' = [toClient EXCEPT ![e] = Tail(@)]
    /\ LET u == Head(toClient[e]) IN
          \/ /\ ProposedTo(e, u)
             /\ toServer' = [toServer EXCEPT ![e] =
                    Append(@, Message("ACCEPT_PROPOSAL", e, u.message.sender))]
          \/ UNCHANGED toServer
    /\ UNCHANGED <<serverVars, shownStatus, shownMessage, popup, undeclared, sent>>

-----------------------------------------------------------------------------
(* EmpireManager::ResetDiplomacy when the empires are created: all at peace,    *)
(* and GAME_START gives every client these values.                              *)
FirstMessage(pair) == CHOOSE m \in DiplomaticMessagesOf({"INVALID"}) : PairOf(m) = pair

Init ==
    /\ m_empire_diplomatic_statuses = [pair \in Pairs |-> "DIPLO_PEACE"]
    /\ m_diplomatic_messages = [pair \in Pairs |-> FirstMessage(pair)]
    /\ shownStatus = [e \in HumanEmpires |-> m_empire_diplomatic_statuses]
    /\ shownMessage = [e \in HumanEmpires |-> m_diplomatic_messages]
    /\ popup = [e \in Empires |-> {}]
    /\ undeclared = [e \in Empires |-> IF e \in AIEmpires THEN Empires \ {e} ELSE {}]
    /\ sent = [e \in Empires |-> 0]
    /\ toServer = [e \in Empires |-> <<>>]
    /\ toClient = [e \in Empires |-> <<>>]
    /\ wantsPeace = [pair \in Pairs |-> pair]

Next == \E e \in Empires :
    \/ HandleDiplomaticMessage(e)
    \/ MenuChosen(e)
    \/ MenuClosed(e)
    \/ HumanReceives(e)
    \/ AIReceives(e)
    \/ \E f \in Empires : PlayerRightClicked(e, f) \/ DeclareWar(e, f)

Spec == Init /\ [][Next]_vars

-----------------------------------------------------------------------------
(* The values every variable stays within; a pair never loses its entry.        *)
DiplomacyTypeOK ==
    /\ m_empire_diplomatic_statuses \in [Pairs -> Statuses]
    /\ m_diplomatic_messages \in
          [Pairs -> DiplomaticMessagesOf({"PEACE_PROPOSAL", "INVALID"})]
    /\ \A pair \in Pairs : PairOf(m_diplomatic_messages[pair]) = pair
    /\ shownStatus \in [HumanEmpires -> [Pairs -> Statuses]]
    /\ shownMessage \in
          [HumanEmpires -> [Pairs -> DiplomaticMessagesOf({"PEACE_PROPOSAL", "INVALID"})]]
    /\ popup \in [Empires -> SUBSET DiplomaticMessagesOf(SentTypes)]
    /\ undeclared \in [Empires -> SUBSET Empires]
    /\ \A e \in Empires : e \notin undeclared[e]
    /\ sent \in [Empires -> Nat]
    /\ toServer \in [Empires -> Seq(DiplomaticMessagesOf(SentTypes))]
    /\ toClient \in [Empires -> Seq(Updates)]
    /\ wantsPeace \in [Pairs -> SUBSET Empires]

(* A peace proposal stands only between empires at war: none is left over when  *)
(* peace is made or war declared, so ACCEPT_PROPOSAL, which does not look at    *)
(* the status, can only end a war (EmpireManager::HandleDiplomaticMessage).     *)
ProposalsOnlyAtWar ==
    \A pair \in Pairs :
        m_diplomatic_messages[pair].type = "PEACE_PROPOSAL" =>
            m_empire_diplomatic_statuses[pair] = "DIPLO_WAR"

(* Peace is mutual: since the declaration that began the last war between the   *)
(* two empires each has asked for peace or accepted it, and not cancelled that,  *)
(* however proposals, answers and cancellations crossed on their way, and        *)
(* however old the menu was that sent them (HandleDiplomaticMessage).           *)
PeaceIsMutual ==
    \A pair \in Pairs :
        m_empire_diplomatic_statuses[pair] = "DIPLO_PEACE" => wantsPeace[pair] = pair

(* A client with no update on its way shows what the server has: every status,  *)
(* and the messages of its own pairs (HandleDiplomaticStatusChange and          *)
(* HandleDiplomaticMessageChange tell everybody who must know).                 *)
ReplicasConverge ==
    \A e \in HumanEmpires : toClient[e] = <<>> =>
        /\ shownStatus[e] = m_empire_diplomatic_statuses
        /\ \A pair \in Pairs :
              e \in pair => shownMessage[e][pair] = m_diplomatic_messages[pair]
===============================================================================
