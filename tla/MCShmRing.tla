------------------------------ MODULE MCShmRing ------------------------------
(* TLC instance of ShmRing: a ring of eleven cells, heads of two cells, and   *)
(* messages of two small sizes, one longer than half of the ring and one      *)
(* longer than the ring.                                                      *)
EXTENDS ShmRing

CONSTANTS short1, short2, medium, long, tooLong, p1

MCSize(m) == CASE m \in {short1, short2} -> 1 [] m = medium -> 3 [] m = long -> 8 [] m = tooLong -> 10

\* app_shm writes thirteen bytes.
AppSize(m) == 13
==============================================================================
