\* One cell on its own, from every power-up state.
CONSTANT PartnersWait = TRUE
SPECIFICATION Spec
INVARIANT CellInv
PROPERTIES FollowsCElement ResetClears CopiesInputs
