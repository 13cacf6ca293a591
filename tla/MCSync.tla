------------------------------- MODULE MCSync -------------------------------
EXTENDS Sync, TLC

\* Concurrent requests are interchangeable, and so are rooms.
Symmetry == Permutations(Writers) \cup Permutations(Rooms)

\* Bound: with rows of other trees than the timeline's, numbers up to 2.
Bounded ==
  counter > 2 => /\ \A x \in rows \cup removed : x.tree = "pdu"
                 /\ \A w \in Writers : writer[w].pc # "idle" => writer[w].tree = "pdu"
=============================================================================
