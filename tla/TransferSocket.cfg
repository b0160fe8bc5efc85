SPECIFICATION SocketSpec
CONSTANTS
    Modes = {"list", "download", "upload", "resumetest"}
    Handshakes = {"fine", "ask", "refuse"}
    Units = 4
    BufferSize = 2
    MaxIterations = 2
    EarlyConnections = TRUE
INVARIANTS SuccessIsComplete ConsentComesFirst ReadsAndWritesWaitForEvents
PROPERTY TransfersEnd
CHECK_DEADLOCK FALSE
