\* Two clients over two proxies with one slot each; a strict session and none.
CONSTANTS
    Clients = {c1, c2}
    Proxies = {p1, p2}
    Sessions = {s1}
    Strict = {s1}
    NoSession = NoSession
    NoProxy = NoProxy
    Changing = {p1}
    Limit = 1
    Attempts = 2
    MaxFailures = 1
    OwnTask = FALSE
\* A closed listener stops.
CHECK_DEADLOCK FALSE
SPECIFICATION LiveGateway
INVARIANTS SlotsReturned SocketsClosed
PROPERTIES StrictStays ConnectSettles
