--------------------------- MODULE MCTerminalServer ---------------------------
EXTENDS TerminalServer, TLC
MCPipeline == <<[verb |-> "unknown", params |-> TRUE],
                [verb |-> "ping", params |-> FALSE],
                [verb |-> "stop", params |-> TRUE]>>
MCAsks == "c1" :> {"attach", "subscribe", "write", "query"}
MCHandlers == <<"Status", "Probe">>
=============================================================================
