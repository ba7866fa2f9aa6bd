------------------------------ MODULE MCService ------------------------------
EXTENDS Service, TLC

CONSTANTS a, b   \* a path outside, the place inside

MapOfFiles == a :> b
Maps == {MapOfFiles}
Words == {<<a>>}
WordsOfConf == <<>>
=============================================================================
