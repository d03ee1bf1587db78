---------------------------- MODULE OrderLifecycle ----------------------------
(***************************************************************************)
(* What an order promises, whatever carries it out: it is accepted once    *)
(* with a volume and a margin reserve, is worked off in fills that never   *)
(* exceed what is left of either, and ends exactly once, filled or         *)
(* cancelled.  The fill that completes an order uses up its reserve to the *)
(* last unit, and a cancellation returns all that is left of it.           *)
(***************************************************************************)
EXTENDS Integers

CONSTANT OrderIds

VARIABLE book         \* [OrderIds -> entry]

Phases == {"none", "working", "filled", "cancelled"}

Entry == [phase : Phases, left : Nat, done : Nat, margin : Nat]

Blank == [phase |-> "none", left |-> 0, done |-> 0, margin |-> 0]

Init == book = [o \in OrderIds |-> Blank]

Accept(o) ==
    /\ book[o].phase = "none"
    /\ book'[o] \in [phase : {"working"}, left : Nat \ {0}, done : {0}, margin : Nat]
    /\ book' = [book EXCEPT ![o] = book'[o]]

\* A fill of some of the volume with its part of the reserve.
Fill(o) ==
    /\ book[o].phase = "working"
    /\ \E volume \in 1 .. book[o].left, used \in 0 .. book[o].margin :
          /\ volume = book[o].left => used = book[o].margin
          /\ book' = [book EXCEPT ![o] =
                         [phase  |-> IF volume = book[o].left THEN "filled" ELSE "working",
                          left   |-> book[o].left - volume,
                          done   |-> book[o].done + volume,
                          margin |-> book[o].margin - used]]

Cancel(o) ==
    /\ book[o].phase = "working"
    /\ book' = [book EXCEPT ![o] = [phase |-> "cancelled", left |-> 0,
                                    done |-> book[o].done, margin |-> 0]]

Next == \E o \in OrderIds : Accept(o) \/ Fill(o) \/ Cancel(o)

Spec == Init /\ [][Next]_book

=============================================================================
