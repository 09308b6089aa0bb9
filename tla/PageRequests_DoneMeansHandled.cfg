SPECIFICATION Spec
CONSTANTS
    Operators = {o1, o2}
    Feeders = {f1}
    Plugins = {"hello", "template", "other"}
    OtherPages <- SomePages
    Inputs <- AllInputs
    Verbosities <- HelloVerbosities
    None = None
    Names <- AllNames
    Rows = 1
    MaxSeen = 2
INVARIANT DoneMeansHandled
SYMMETRY OperatorSymmetry
CONSTRAINTS
    OneVisitor
    OneSubmitter
