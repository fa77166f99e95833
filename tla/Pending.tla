-------------------------------- MODULE Pending --------------------------------
(***************************************************************************)
(* What the client's history makes of the requests on their way when the   *)
(* server answers or another user's operation arrives.  A request is a     *)
(* record of the operation, its reverse, and whether the history tracks it *)
(* (it does not when there is no reverse).  Used by the modules of the     *)
(* panels; Collab checks the protocol itself.                              *)
(***************************************************************************)
EXTENDS Integers, Sequences, SequencesExt

Tracked(calls) == FoldLeft(LAMBDA kept, c : IF c.tracked THEN Append(kept, c) ELSE kept, <<>>, calls)
Forward(calls) == [k \in DOMAIN calls |-> calls[k].op]
Backward(calls) == Reverse([k \in DOMAIN calls |-> calls[k].reverse])

\* Another user's operation goes below the predictions: they are reverted and
\* made again, and the first of them is forgotten.
Around(calls, op) == Backward(Tracked(calls)) \o <<op>> \o Forward(Tracked(calls))
FirstForgotten(calls) ==
    LET k == SelectInSeq(calls, LAMBDA c : c.tracked)
    IN  IF k = 0 THEN calls ELSE [calls EXCEPT ![k].tracked = FALSE]

\* A refusal takes all predictions back and makes all but the refused again.
\* Requests are answered in order.
AfterRefusal(calls) ==
    IF Head(calls).tracked
    THEN Backward(Tracked(calls)) \o Forward(Tail(Tracked(calls)))
    ELSE <<>>
=============================================================================
