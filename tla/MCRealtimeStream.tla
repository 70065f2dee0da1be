-------------------------- MODULE MCRealtimeStream --------------------------
(* Small instances of RealtimeStream.                                        *)
EXTENDS RealtimeStream

CONSTANTS w1, w2, w3, e1, e2, e3, x, y, c1

Event(id, content) == [id |-> id, content |-> content]

(* Two transactions carry the event e2 with the same values; the one that    *)
(* ends the session appends a second event. A third reuses the identity of   *)
(* e2 with other values after an event of its own.                           *)
MCWork ==
  [t \in Writers |-> CASE t = w1 -> <<Event(e2, x)>>
                       [] t = w2 -> <<Event(e2, x), Event(e3, x)>>
                       [] t = w3 -> <<Event(e1, x), Event(e2, y)>>]
=============================================================================
