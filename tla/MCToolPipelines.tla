--------------------------- MODULE MCToolPipelines ---------------------------
EXTENDS ToolPipelines

CONSTANTS r1, r2, r3, esp

\* Two runs of Synthesis and one of xEdit on Synthesis.esp: xEdit locks the name
\* of its target, which is the RESOURCE_ID of Synthesis.
OneEsp == [s \in Run |-> esp]
SynthesisTwice == [s \in Run |-> IF s = r3 THEN "xedit" ELSE "synthesis"]
LodTwice == [s \in Run |-> IF s = r3 THEN "xedit" ELSE "dyndolod"]
AgentOfService == [s \in Run |-> ServiceOf[s]]

\* xEdit on Synthesis.esp locks "Synthesis.esp" like Synthesis itself; xEdit on
\* DynDOLOD.esp locks "DynDOLOD.esp", the pipeline "dyndolod-pipeline".
SameName == [s \in Run |-> "Synthesis.esp"]
OwnNames == [s \in Run |-> IF ServiceOf[s] = "xedit" THEN "DynDOLOD.esp" ELSE "dyndolod-pipeline"]

Existing == [f \in File |-> Original]

AllAwaits == Await
NotBeginMark == Await \ {"begin", "mark"}
==============================================================================
