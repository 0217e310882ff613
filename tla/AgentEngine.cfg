SPECIFICATION FairEngineSpec
CONSTANTS
    MaxSteps = 4
    LocalTools = {"search_rag"}
    McpTools = {"mcp:fetch"}
    Replies <- MCReplies
    Judges = {1, 2, 3}
CHECK_DEADLOCK FALSE
PROPERTIES
    EndsOrLoops
