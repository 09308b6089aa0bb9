SPECIFICATION Spec
CONSTANTS
    TickThreads = {t}
    InvoiceThreads = {i}
    RequestThreads = {r}
PROPERTY
    NothingDeliveredWhileStopping
