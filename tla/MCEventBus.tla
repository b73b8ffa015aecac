----------------------------- MODULE MCEventBus -----------------------------
EXTENDS EventBus

CONSTANTS e1, e2, e3, s1, s2

\* e1 goes to both subscriptions, e2 and e3 to one.
Topics == {<<e1, s1>>, <<e1, s2>>, <<e2, s2>>, <<e3, s2>>}
=============================================================================
