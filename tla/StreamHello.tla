----------------------------- MODULE StreamHello -----------------------------
(***************************************************************************)
(* What the stream promises across reconnects, with the history variable   *)
(* the promise needs: where the client started from.                       *)
(***************************************************************************)
EXTENDS MCStream

VARIABLE start      \* history: the id of the first frame the client received

HelloInit == Init /\ start = 0

HelloNext ==
    /\ Next
    /\ start' = IF start = 0 /\ lastId = 0 THEN lastId' ELSE start

HelloSpec == HelloInit /\ [][HelloNext]_<<vars, start>>

\* ChangesSince's comment: it "backs SSE reconnect replay (Last-Event-ID) so a client
\* misses nothing across a dropped stream".  So a client whose stream has dropped does
\* not stand past a change it was never told of: it would resume after that change.
MissesNothing ==
    phase = "closed" => \A s \in OwnSeqs : start < s /\ s <= lastId => s \in seen
=============================================================================
