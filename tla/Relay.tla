-------------------------------- MODULE Relay --------------------------------
(***************************************************************************)
(* What a proxy promises about one direction of a connection: the far end  *)
(* receives the messages that were sent, unaltered, each at most once and  *)
(* in the order of sending.  It does not promise that all of them arrive:  *)
(* the connection may be closed first.                                     *)
(***************************************************************************)
EXTENDS Sequences

CONSTANT Messages

VARIABLES pending,    \* sent and not delivered yet, oldest first
          delivered   \* everything the far end has received

Init == pending = <<>> /\ delivered = <<>>

Send(m) ==
    /\ pending' = Append(pending, m)
    /\ UNCHANGED delivered

Deliver ==
    /\ pending # <<>>
    /\ delivered' = Append(delivered, Head(pending))
    /\ pending' = Tail(pending)

Next == Deliver \/ \E m \in Messages : Send(m)

Spec == Init /\ [][Next]_<<pending, delivered>>
==============================================================================
