------------------------------ MODULE Mailbox -------------------------------
(***************************************************************************)
(* What the message system calls promise the programs that make them,       *)
(* without a scheduler, threads or counters: every process owns a bounded   *)
(* FIFO mailbox; SEND and interrupts put a message in the box, or hand it   *)
(* straight to an owner that waits; RECEIVE takes the oldest message, or    *)
(* waits for the next one.  A call gets exactly one answer, the one the     *)
(* comments of system_call list (proc.c:361-367 and 421-426).               *)
(***************************************************************************)
EXTENDS Integers, Sequences

CONSTANTS Owner,       \* every process there can be
          Initially,   \* those that exist at the start
          Deaf,        \* processes SEND never finds
          Source,      \* what a message can name as its source
          IRQ,         \* the source of an interrupt's message
          PENDING,     \* "not answered yet"
          Capacity     \* messages a box holds

VARIABLES alive, box, waiting, reply
mvars == <<alive, box, waiting, reply>>

Said(c, r) == [call |-> c, ret |-> r]
Idle(p)    == p \in alive \ waiting

MInit ==
  /\ alive = Initially
  /\ box = [p \in Owner |-> <<>>]
  /\ waiting = {}
  /\ reply = [p \in Owner |-> Said("START", PENDING)]

(* A call refused for its address: -2.                                      *)
Refused(p, c) ==
  /\ Idle(p) /\ reply' = [reply EXCEPT ![p] = Said(c, -2)]
  /\ UNCHANGED <<alive, box, waiting>>

Unreachable(p, q) ==
  /\ Idle(p) /\ q \notin alive \ Deaf
  /\ reply' = [reply EXCEPT ![p] = Said("SEND", -1)]
  /\ UNCHANGED <<alive, box, waiting>>

(* The message m reaches q: into its hands when it waits, else into its box *)
(* if there is room.  r is every reply but the receiver's.                  *)
Reach(q, m, r) ==
  /\ q \in alive \ Deaf
  /\ UNCHANGED alive
  /\ \/ /\ q \in waiting
        /\ waiting' = waiting \ {q}
        /\ reply' = [r EXCEPT ![q] = Said("RECEIVE", m)]
        /\ UNCHANGED box
     \/ /\ q \notin waiting /\ Len(box[q]) < Capacity
        /\ box' = [box EXCEPT ![q] = Append(@, m)]
        /\ reply' = r
        /\ UNCHANGED waiting

Send(p, q, m) ==
  /\ Idle(p) /\ Reach(q, m, [reply EXCEPT ![p] = Said("SEND", 1)])

Full(p, q) ==
  /\ Idle(p) /\ q \in alive \ Deaf /\ q \notin waiting /\ Len(box[q]) >= Capacity
  /\ reply' = [reply EXCEPT ![p] = Said("SEND", 0)]
  /\ UNCHANGED <<alive, box, waiting>>

Interrupt(q) == Reach(q, IRQ, reply)

Take(p) ==
  /\ Idle(p) /\ box[p] # <<>>
  /\ box' = [box EXCEPT ![p] = Tail(@)]
  /\ reply' = [reply EXCEPT ![p] = Said("RECEIVE", Head(box[p]))]
  /\ UNCHANGED <<alive, waiting>>

Wait(p) ==
  /\ Idle(p) /\ box[p] = <<>>
  /\ waiting' = waiting \cup {p}
  /\ reply' = [reply EXCEPT ![p] = Said("RECEIVE", PENDING)]
  /\ UNCHANGED <<alive, box>>

(* Anything else an owner does; its last answer is then one of another call.*)
Other(p) ==
  /\ Idle(p)
  /\ reply'[p].call \in {"START", "CREATE_THREAD", "DISPOSE_THREAD", "NICE"}
  /\ reply' = [reply EXCEPT ![p] = reply'[p]]
  /\ UNCHANGED <<alive, box, waiting>>

Appear(p) ==
  /\ p \notin alive
  /\ alive' = alive \cup {p}
  /\ box' = [box EXCEPT ![p] = <<>>]
  /\ waiting' = waiting \ {p}
  /\ reply' = [reply EXCEPT ![p] = Said("START", PENDING)]

(* Only an owner that runs disappears, never one that waits for an answer.  *)
Vanish(p) ==
  /\ Idle(p)
  /\ alive' = alive \ {p}
  /\ box' = [box EXCEPT ![p] = <<>>]
  /\ reply' = [reply EXCEPT ![p] = Said("START", PENDING)]
  /\ UNCHANGED waiting

MNext ==
  \E p \in Owner :
    \/ Refused(p, "SEND") \/ Refused(p, "RECEIVE")
    \/ \E q \in Owner : \/ Unreachable(p, q) \/ Full(p, q)
                        \/ \E m \in Source : Send(p, q, m)
    \/ Interrupt(p) \/ Take(p) \/ Wait(p) \/ Other(p) \/ Appear(p) \/ Vanish(p)

MSpec == MInit /\ [][MNext]_mvars
=============================================================================
