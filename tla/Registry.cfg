\* The generic model, one or two more, two goroutines; a device of its own id and
\* devices that are assigned one, up to three.
SPECIFICATION InputSpec
CONSTANTS
    c1 = c1
    c2 = c2
    Models = {1}
    ModelAutoIDs = TRUE
    Names = {"connection", "link", "gain"}
    Link = {"connection", "link"}
    HashOf <- HashTable
    Declarations <- Declared
    DeviceIds = {0, 2}
    Callers = {c1, c2}
    MaxModels = 3
    MaxDeclarations = 2
    MaxDevices = 2
    Configs <- SomeConfigs
    Sent <- SomeAddresses
    Details <- SomeDetails
    Texts <- SomeTexts
    Ranges <- SomeRanges
SYMMETRY CallersAlike
INVARIANTS TypeOK OneIdPerName  ConnectionDeclared StatesHaveInfo GettersAgree
INVARIANTS AddressesAreExact AcceptedIsManageable FineStepsAreSent TextsSplitRight RangesFit
PROPERTIES DetailsFrozen NothingReplaced
CHECK_DEADLOCK FALSE
