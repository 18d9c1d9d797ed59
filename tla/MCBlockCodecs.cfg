SPECIFICATION MCSpec
INVARIANTS
    TypeOK
    RoundTrip
    RoomSuffices
