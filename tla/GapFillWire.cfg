SPECIFICATION SpecWire
INVARIANT
    AuthTriedIsSavedOnWire
