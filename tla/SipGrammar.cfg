SPECIFICATION Spec
CONSTANT MaxPieces <- MCMaxPieces
INVARIANTS NothingHidden OnlyTheMatchWrites ThrowsOnlyOn IPv6GroupsFit HostIsTheAuthority ContactsStandAlone RoundTrip
CHECK_DEADLOCK FALSE
