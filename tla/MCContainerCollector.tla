------------------------ MODULE MCContainerCollector ------------------------
\* Two containers for TLC.
EXTENDS ContainerCollector

CONSTANTS web, db, a1, a2
=============================================================================
