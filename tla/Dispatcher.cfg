SPECIFICATION DispatcherSpec
CONSTANTS
    e1 = e1
    e2 = e2
    EventBuf = 3
    Events <- MCEvents
    Zero = Zero
    MaxEvents = 2
    Retry = 2
PROPERTIES
    ImplementsPollLog
    PushesCounted
    DeliveryEnds
