--------------------------- MODULE MCBotEventSeq ---------------------------
EXTENDS BotEventSeq, TLC

CONSTANTS p1, p2, w1, w2

\* Two goroutines, of two replicas or of one.
ApartOrTogether == {(w1 :> p1) @@ (w2 :> p2), (w1 :> p1) @@ (w2 :> p1)}
=============================================================================
