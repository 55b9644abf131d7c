----------------------------- MODULE TurnBarrier -----------------------------
(***************************************************************************)
(* What the turn cycle promises, whatever the messages, saves and lost      *)
(* connections around it: a turn is closed once every empire has submitted  *)
(* orders for it, or while a moderator is in the game; nothing is submitted *)
(* to a closed turn; and processing executes exactly the order set each     *)
(* empire submitted last. Moderators leave for good, and the whole may stop *)
(* at any step.                                                             *)
(***************************************************************************)
EXTENDS Naturals

CONSTANT Empires
VARIABLES turn, submitted, pending, executed,
          phase,        \* the turn is "open" or "closed", or all has "stopped"
          moderated     \* a moderator is in the game

barrierVars == <<turn, submitted, pending, executed, phase, moderated>>

BarrierInit ==
    /\ turn = 1
    /\ submitted = {}
    /\ pending = [e \in Empires |-> {}]
    /\ executed = [e \in Empires |-> {}]
    /\ phase = "open"
    /\ moderated \in BOOLEAN

(* The step goes on in the phase next, or is the last one.                    *)
Onwards(next) == \/ phase' = next /\ UNCHANGED moderated
                 \/ phase' = "stopped" /\ moderated' = FALSE

Submit(e) ==
    /\ phase = "open"
    /\ submitted' = submitted \cup {e}
    /\ pending'[e] \in SUBSET Nat
    /\ pending' = [pending EXCEPT ![e] = pending'[e]]
    /\ Onwards("open")
    /\ UNCHANGED <<turn, executed>>

CloseTurn ==
    /\ phase = "open"
    /\ submitted = Empires \/ moderated
    /\ phase' = "closed"
    /\ UNCHANGED <<turn, submitted, pending, executed, moderated>>

EndOfTurn ==
    /\ phase = "closed"
    /\ executed' = pending
    /\ pending' = [e \in Empires |-> {}]
    /\ submitted' = {}
    /\ turn' = turn + 1
    /\ Onwards("open")

ModeratorsLeave ==
    /\ phase = "open"
    /\ moderated' = FALSE
    /\ UNCHANGED <<turn, submitted, pending, executed, phase>>

Stop ==
    /\ phase' = "stopped"
    /\ moderated' = FALSE
    /\ UNCHANGED <<turn, submitted, pending, executed>>

BarrierNext ==
    \/ CloseTurn \/ EndOfTurn \/ ModeratorsLeave \/ Stop
    \/ \E e \in Empires : Submit(e)
BarrierSpec == BarrierInit /\ [][BarrierNext]_barrierVars
=============================================================================
