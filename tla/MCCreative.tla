----------------------------- MODULE MCCreative -----------------------------
EXTENDS Creative

CONSTANTS w1, w2

MCWorkers == {w1, w2}
MCIds == 1..2
=============================================================================
