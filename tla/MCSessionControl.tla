-------------------------- MODULE MCSessionControl --------------------------
(* Small instances of SessionControl. *)
EXTENDS SessionControl

CONSTANTS pause, resume, cancel, directive, s1, s2, d1

MCKindOf ==
  [c \in Commands |-> CASE c = pause -> "PAUSE"
                        [] c = resume -> "RESUME"
                        [] c = cancel -> "CANCEL"
                        [] c = directive -> "HUMAN_INPUT"]
=============================================================================
