--------------------------- MODULE MonotonicHeads ---------------------------
(***************************************************************************)
(* What a freshness witness promises, without saying how: one register per *)
(* object, and every change of a register carries an epoch larger than any *)
(* epoch handed out before, for any object of the vault.                   *)
(***************************************************************************)
EXTENDS Naturals

CONSTANTS Object, Version, NoVersion

VARIABLES reg,   \* object -> the acknowledged version and its epoch
          top    \* the largest epoch handed out so far

hvars == <<reg, top>>

Empty == [version |-> NoVersion, epoch |-> 0]

Init ==
    /\ reg = [o \in Object |-> Empty]
    /\ top = 0

Advance(o) ==
    /\ top' > top
    /\ \E v \in Version :
          reg' = [reg EXCEPT ![o] = [version |-> v, epoch |-> top']]

Next == \E o \in Object : Advance(o)

Spec == Init /\ [][Next]_hvars
=============================================================================
