SPECIFICATION Spec
CONSTANTS
    MAX_LEVEL = 4
    MAX_ACTIVE_QUESTS = 1
    MAX_BUFFS = 2
    MAX_FRIENDS = 1
    CalculateExperienceRequired <- TheExperience
    Wearables = {"axe"}
    BodySlots = {"hand"}
    Buffs = {"rage"}
    Strength <- TheStrength
    Abilities = {"bash"}
    Quests = {"rats", "cats"}
    Others = {"friend"}
    Damages = {90}
    Experiences = {160, 400, 1000000000}
    MaxDeeds = 4
    InvPlayers = {"p1", "p2"}
    Items = {"potion", "sword"}
    Stack <- TheStack
    Slot <- TheSlot
    Consumable = {"potion"}
    Loot <- TheLoot
    maxInventorySize = 2
    MaxGold = 3
    Amounts = {0, 1, 2}
    GoldAmounts = {2}
    MaxOps = 6
    Sessions = {s1, s2}
    Guests = {}
    NPCs = {"villager"}
    Kind <- TheKind
    Nobody = nobody
    Zones = {"meadow"}
    maxMobs <- TheMobs
    MaxAttacks = 4
    MaxInputId = 3
    MAX_INPUT_HISTORY = 2
    BufferSize = 2
    MaxMessages = 5
    Drawers = {d1, d2}
    Tables <- TheTables
    PlayerLevels = {3, 25}
    Reputations <- TheReputations
    MaxLootCalls = 3
INVARIANTS
    CharacterInv
    ItemsInv
    CreaturesInv
    MovementInv
PROPERTIES
    ExperienceCounts
    ItemsKept
CHECK_DEADLOCK FALSE
