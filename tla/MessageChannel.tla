---------------------------- MODULE MessageChannel ----------------------------
(***************************************************************************)
(* What ClientNetworking promises the rest of a client: messages come in    *)
(* the order in which the server sent them, each at most once, but a caller *)
(* of SendSynchronousMessage is given the first synchronous response there  *)
(* is, out of its order. Losing the connection loses the messages that have *)
(* not been handled from some point on, never one before another that comes.*)
(***************************************************************************)
EXTENDS Naturals, Sequences

VARIABLES pending,   \* sent by the server, not yet handled
          handled,   \* what the client has taken, in order
          waiting    \* the client is inside SendSynchronousMessage

channelVars == <<pending, handled, waiting>>

FirstSynchronousResponse(q, i) ==
    /\ i \in DOMAIN q
    /\ q[i].synchronous
    /\ \A j \in DOMAIN q : j < i => ~q[j].synchronous

Without(q, i) == SubSeq(q, 1, i - 1) \o SubSeq(q, i + 1, Len(q))

ChannelInit == pending = <<>> /\ handled = <<>> /\ waiting = FALSE

Delivered ==
    /\ Len(pending') = Len(pending) + 1
    /\ SubSeq(pending', 1, Len(pending)) = pending
    /\ UNCHANGED <<handled, waiting>>

Taken ==
    /\ ~waiting
    /\ pending # <<>>
    /\ handled' = Append(handled, Head(pending))
    /\ pending' = Tail(pending)
    /\ UNCHANGED waiting

Asked == ~waiting /\ waiting' = TRUE /\ UNCHANGED <<pending, handled>>

Answered ==
    /\ waiting
    /\ \E i \in DOMAIN pending :
          /\ FirstSynchronousResponse(pending, i)
          /\ handled' = Append(handled, pending[i])
          /\ pending' = Without(pending, i)
    /\ waiting' = FALSE

Lost ==
    /\ \E n \in 0 .. Len(pending) : pending' = SubSeq(pending, 1, n)
    /\ UNCHANGED <<handled, waiting>>

ChannelNext == Delivered \/ Taken \/ Asked \/ Answered \/ Lost

ChannelSpec == ChannelInit /\ [][ChannelNext]_channelVars
=============================================================================
