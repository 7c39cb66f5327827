------------------------------ MODULE MCStats ------------------------------
(***************************************************************************)
(* Instance of Stats: a validator, another agent and two messages, a clock *)
(* of two units in a second.  MaxTime lets a reception come two seconds    *)
(* after the sending, LogEnd one message be useful and another one not;    *)
(* 16 bytes are too few for a packet.  The IDs are interchangeable.        *)
(***************************************************************************)
EXTENDS Stats, TLC

MessageSymmetry == Permutations(Msgs)
=============================================================================
