------------------------------ MODULE MCTables ------------------------------
(* The two structures the kernel keeps in Process besides its fields: the   *)
(* ring of messages and the lists of processes and threads, each examined   *)
(* by itself.  They share no variable in the code.  The nodes of the lists  *)
(* are interchangeable: no operation compares two of them.                  *)
EXTENDS MsgRing, IdList, TLC

MCSymmetry == Permutations(Node)

VARIABLE examined   \* which of the two moves

Still == CHOOSE m \in Message : TRUE   \* in a ring that does not move
TablesInit == /\ RInit /\ LInit
              /\ \/ examined = "ring"
                 \/ examined = "list" /\ messages = [s \in Slot |-> Still] /\ out = Still
TablesNext == /\ \/ examined = "ring" /\ RNext /\ UNCHANGED lvars
                 \/ examined = "list" /\ LNext /\ UNCHANGED rvars
              /\ UNCHANGED examined
TablesSpec == TablesInit /\ [][TablesNext]_<<rvars, lvars, examined>>
=============================================================================
