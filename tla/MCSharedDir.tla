------------------------------ MODULE MCSharedDir ------------------------------
EXTENDS SharedDir, TLC

CONSTANTS f, g, n

\* Two files of one name.
Names == (f :> n) @@ (g :> n)
=============================================================================
