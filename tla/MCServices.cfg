SPECIFICATION Spec
CONSTANTS
    Radix = 8
    Payloads <- ThePayloads
    MaskingKeys <- TheKeys
    max_frame_size = 65
    Fields <- TheFields
    Announced <- TheCapabilities
    MaxFields = 3
    Keys = {"k1", "k2"}
    Accept <- TheAccepts
    Urls <- TheUrls
    Clients = {c1, c2}
    Saver = saver
    Coordinates <- TheCoordinates
    Contents = {1, 2}
    Limits = {1, 2}
    max_memory_size_bytes = 3
    max_disk_cache_size = 1
    save_batch_size = 2
    Policies = {"LRU", "LFU", "FIFO"}
    MaxUses = 3
    Threads = {t1, t2}
    Links = {1, 2}
    Owners = {"p"}
    MaxStatements = 2
    Texts <- TheTexts
    Fillings <- TheFillings
    Documents <- TheDocuments
    Paths <- ThePaths
    Leaves <- TheLeaves
    MaxSettings = 2
    FieldValues <- TheFieldValues
    JsonTexts <- TheJsonTexts
    Leftovers <- TheLeftovers
    Attack <- TheAttack
    Talk <- TheTalk
    Commands <- TheCommands
INVARIANTS
    WireInv
    CacheInv
    SqlInv
    ConfigInv
SYMMETRY Alike
CHECK_DEADLOCK FALSE
