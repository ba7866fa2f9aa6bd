------------------------------ MODULE MCReplacer ------------------------------
EXTENDS Replacer, TLC

CONSTANTS a, b, w   \* two paths outside, one word that names a place inside

Maps == {Empty, a :> b, a :> w, b :> w}
MapOfFiles == a :> b
Words == {<<a>>, <<b, a>>}
WordsOfConf == <<a, w>>
=============================================================================
