---------------------------- MODULE MCAppLifecycle ----------------------------
EXTENDS AppLifecycle

CONSTANTS main, t1, t2

==============================================================================
