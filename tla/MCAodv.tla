------------------------------- MODULE MCAodv -------------------------------
\* A chain of four nodes, the shortest in which a packet has come further than
\* it has to go when its last link breaks, which local repair needs.
EXTENDS Aodv

Flow == {<<0, 3>>, <<1, 3>>}
Budget == {[data |-> 2, changes |-> 1, expiries |-> 0],
           [data |-> 1, changes |-> 1, expiries |-> 1]}
=============================================================================
