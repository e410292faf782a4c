SPECIFICATION Spec
CONSTANTS
    Conns <- TwoConns
    maxRecords = 1
    MaxId = 2
    Replays = {2}
    WireSize = 1
    PublishSize = 1
    ListenerSize = 1
    Undecodable <- NoneOrOne
    MaxTurns = 1
    Queries <- AnyQuery
INVARIANTS TypeOK ShownUnlessMissed TimedUnlessMissed TwiceOnlyAroundSnapshot ViewsAgree
           PanicsOnlyOnEarlyLeave
PROPERTIES InOrder
CHECK_DEADLOCK FALSE
