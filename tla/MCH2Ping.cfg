SPECIFICATION FairSpec
CONSTANT MaxPings = 2
INVARIANTS OneUserPing NoLostPong PongsExact
PROPERTIES UserHears
