SPECIFICATION LiveSpec
CONSTANTS
    TickThreads = {t1, t2}
    InvoiceThreads = {i}
    RequestThreads = {r}
INVARIANTS
    TypeOK
    OnlyAfterStart
    StopsOnceUnlessAbandoned
    FailsOnlyOnceDisposing
PROPERTIES
    HonoursPluginContract
    StopAsyncReturns
    DisposeReturnsOnceStopped
    DeliveryCeases
