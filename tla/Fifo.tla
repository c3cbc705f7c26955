-------------------------------- MODULE Fifo --------------------------------
(***************************************************************************)
(* A bounded queue: what Process.messages is to the code around it.  "out"  *)
(* is the message that left the queue last; a closed queue only empties.    *)
(***************************************************************************)
EXTENDS Integers, Sequences

CONSTANTS Message, Capacity
VARIABLES items, out, open
fvars == <<items, out, open>>

FInit == items = <<>> /\ out \in Message /\ open = TRUE

Put(m) == /\ open /\ Len(items) < Capacity
          /\ items' = Append(items, m)
          /\ UNCHANGED <<out, open>>

Take == /\ items # <<>>
        /\ items' = Tail(items) /\ out' = Head(items)
        /\ UNCHANGED open

Close == open /\ open' = FALSE /\ UNCHANGED <<items, out>>

(* Whoever closed the queue may forget it only when it is empty.            *)
Reopen == /\ ~open /\ items = <<>>
          /\ open' = TRUE /\ UNCHANGED <<items, out>>

FNext == (\E m \in Message : Put(m)) \/ Take \/ Close \/ Reopen
FSpec == FInit /\ [][FNext]_fvars
=============================================================================
