---------------------------- MODULE SubtreeWalk -----------------------------
(***************************************************************************)
(* What a walk promises, whoever carries it out: the varbinds of the       *)
(* subtree are shown once each and in order, and the walk is complete when *)
(* all of them have been.  It may give up at any time, but then says so.   *)
(***************************************************************************)
EXTENDS Naturals, Sequences

CONSTANT Item

VARIABLES
    target, \* the varbinds of the subtree, in order
    seen,   \* those shown so far
    ended   \* "no", "complete" or "gave up"

vars == <<target, seen, ended>>

Init == target \in Seq(Item) /\ seen = << >> /\ ended = "no"

ShowNext ==
    /\ ended = "no" /\ Len(seen) < Len(target)
    /\ seen' = Append(seen, target[Len(seen) + 1])
    /\ UNCHANGED <<target, ended>>

Complete ==
    /\ ended = "no" /\ seen = target
    /\ ended' = "complete"
    /\ UNCHANGED <<target, seen>>

GiveUp ==
    /\ ended = "no"
    /\ ended' = "gave up"
    /\ UNCHANGED <<target, seen>>

Next == ShowNext \/ Complete \/ GiveUp

Spec == Init /\ [][Next]_vars
=============================================================================
