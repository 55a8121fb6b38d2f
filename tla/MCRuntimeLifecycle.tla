------------------------- MODULE MCRuntimeLifecycle -------------------------
EXTENDS RuntimeLifecycle

CONSTANTS r1, m1, c1, c2
MCRuntimes == {r1}
MCModels == {m1}
MCContexts == {c1, c2}
MCAdmitters == {m1, c1}
=============================================================================
