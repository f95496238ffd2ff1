------------------------------ MODULE MCParts ------------------------------
(* Parts with a few trajectories, recordings and camera frames.              *)
EXTENDS Parts, TLC

\* A trajectory that may be sent, and one whose times do not increase.
MCTrajectory ==
  {<<[t |-> 1, width |-> 2], [t |-> 2, width |-> 2]>>,
   <<[t |-> 2, width |-> 2], [t |-> 2, width |-> 2]>>}

\* Record times: equal ones, decreasing ones, a gap.
MCEpisode == {<<1, 1, 3>>, <<2, 1>>, <<0, 2>>}

\* Actions out of order, where the second arm comes last; joint states, as
\* they are used without actions; nothing.
At(t, p, x) == [t |-> t, poses |-> p :> x]
MCRecordings ==
  {[actions |-> <<At(1, "arm", "a"), At(3, "arm2", "b"), At(2, "arm", "b"),
                  At(2, "grip", "b")>>,
    states |-> <<>>],
   [actions |-> <<>>,
    states |-> <<[t |-> 2, poses |-> [p \in {"arm", "arm2"} |-> "b"]],
                 [t |-> 1, poses |-> [p \in {"arm", "arm2"} |-> "a"]],
                 [t |-> 3, poses |-> <<>>]>>],
   [actions |-> <<>>, states |-> <<>>]}

\* A frame that is too short, and one padded after its end marker.
MCFrame == {<<"xx">>, <<"FF", "D8", "xx", "FF", "D9", "xx">>}
=============================================================================
