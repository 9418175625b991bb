\* One bit of a latch bank, from every power-up state.
SPECIFICATION Spec
INVARIANT CellInv
PROPERTIES Transparent ClosedOutputStill
