SPECIFICATION Spec
CONSTANTS
    Submitters = {s1, s2}
    Fields = {"repeat", "verbosity"}
    Texts <- HelloTexts
    HostTakes <- HelloHostTakes
    PluginTakes <- HelloPluginTakes
    Rewritten <- HelloRewritten
    Defaults <- HelloDefaults
    Unset = Unset
    NoForm = NoForm
    NoWriter = NoWriter
SYMMETRY SubmitterSymmetry
INVARIANTS
    TypeOK
    RejectedValuesNeverApply
    UndisturbedSavesAgree
