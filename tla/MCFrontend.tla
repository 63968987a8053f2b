----------------------------- MODULE MCFrontend -----------------------------
(* One browser that connects twice; a call of it and a background call,    *)
(* which has no browser in its context.                                    *)
EXTENDS FrontendInference

CONSTANTS tabA, fallback, w1, w2, ca, cb

MCCalls == {ca, cb}
MCCallClient == [c \in MCCalls |-> IF c = ca THEN tabA ELSE fallback]

OneTabConns == {w1, w2}
OneTabConnClient == [w \in OneTabConns |-> tabA]
=============================================================================
