------------------------------ MODULE MCSeries ------------------------------
(* Series for TLC: one series of three occurrences, by COUNT or without end. *)
EXTENDS Series

Plain == [start |-> 1, count |-> {}, until |-> {}, ex |-> {}, over |-> {}]
GivenSeries == {Plain, [Plain EXCEPT !.count = {2}]}
=============================================================================
