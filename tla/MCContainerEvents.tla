------------------------- MODULE MCContainerEvents -------------------------
EXTENDS ContainerEvents, TLC

AllKinds == {"event", "unknown", "overflow", "empty", "reset", "silent"}
=============================================================================
