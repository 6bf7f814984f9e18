CONSTANTS
    Configurations <- MCConfigurations
    ExtensionLists <- MCExtensionLists
    HELLO = 3
    MaxFrames = 3
    MaxDatagrams = 2
    STRIDE = 2
    Octets = {0, 1, 3, 64}
    MaxBytes = 6
    MaxChunk = 3
    MAX_DATAGRAM_CAPSULE_VALUE = 2
    Unset = Unset
    Default <- MCDefault
    KeyChoices <- MCChoices
    MaxEdits = 2
    Granted = {3, 4, 8}
    FdLimits = {Unset, 1024, 65600}
    STATIC_TABLE <- MCStaticTable
    CODE_BITS <- MCCodeBits
    INT_BITS = 16
    max_section_size = 70
    MAX_FIELD_SECTION_SIZE = 65536
    None = None
    PORT_MAX = 10
SPECIFICATION Spec
CHECK_DEADLOCK FALSE
INVARIANTS
    GateIsExact
    HoldsOneCapsule
    AcceptedServes
    SectionIsReadBack
    SettingsAreUnordered
    RequestIsReadOneWay
    TargetIsWritten
    SecretIsHidden
PROPERTIES
    DecodesWhole
