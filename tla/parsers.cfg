SPECIFICATION ParserSpec
CONSTANTS
    Words <- MC_Words
    FoundationWords <- MC_Foundations
    ComponentWords <- MC_Components
    TransportWords <- MC_Transports
    PriorityWords <- MC_Priorities
    AddressWords <- MC_Addresses
    PortWords <- MC_Ports
    TypeWords <- MC_Types
    Usual <- MC_Usual
    Packets <- MC_Packets
    PayloadMap = {0}
    Locals = {0, 1, 255, 256, 65535}
    ComponentIds = {1, 2, 255, 256}
    Modulus = 10
    MaxUnusual = 2
    MaxName = 5
INVARIANTS FqdnIsLabels CandidateIsGrammar UnknownIsIgnored PacketPartitioned PriorityIsLexicographic TimesOrdered
CHECK_DEADLOCK FALSE
