------------------------ MODULE MCProgramResources ------------------------
\* The program with its resources, on inputs of a few frames.
EXTENDS ProgramResources
=============================================================================
