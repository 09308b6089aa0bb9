SPECIFICATION Spec
CONSTANTS
    Fields = {"greeting", "verbose", "limit"}
    Schema <- FormSchema
    Names <- FormNames
    Inputs <- FormInputs
    HostNumbers <- LongNumbers
    FromValues = TRUE
    Absent = Absent
INVARIANTS
    UntouchedFormChangesNothing
    ValidationsAgree
