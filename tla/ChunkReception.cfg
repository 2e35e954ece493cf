SPECIFICATION Spec
CONSTANTS
    Packets <- MCPackets
    Chunks <- MCChunks
INVARIANTS
    ChunksAreReadAsSent
    DamageCostsOnePacket
