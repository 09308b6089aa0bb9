SPECIFICATION Spec
CONSTANTS
    Fields = {"apiKey", "repeat", "network"}
    Schema <- FormSchema
    Names <- FormNames
    Inputs <- FormInputs
    HostNumbers <- LongNumbers
    FromValues = FALSE
    Absent = Absent
INVARIANTS
    TypeOK
    RestartKeepsSettings
    UntouchedFormChangesNothing
    ValidationsAgree
    SavedFormsCanBeSavedAgain
PROPERTY
    OmittedSecretIsKept
