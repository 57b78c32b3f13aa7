SPECIFICATION Spec
CONSTANTS
    Learners = {"p1"}
    Spells = {"beam", "nova", "aura"}
    max_level <- TheLevels
    Toggleable = {"aura"}
    Channeled = {"beam", "nova"}
    Active = {"nova"}
    Cooled = {"beam"}
    RequiredSkill <- TheRequirements
    MAX_EQUIPPED_SKILLS = 2
    Trees = {"fire"}
    MaxCasts = 6
    Callers = {t1, t2}
    Definition <- TheQuests
    Chains <- TheChains
    Happenings = {"rat", "elder"}
    MAX_QUESTS = 1
    MaxCalls = 4
    Travellers = {"ann", "bob"}
    Places = {0, 3}
    Columns = {4}
    preloadRadius = 1
    view_distance = 1
    unload_distance = 2
    max_active_chunks = 4
    MaxMoves = 2
    Size = 2
    Built <- TheCells
    Grounds <- TheGrounds
    Biomes = {"plains"}
    Distances = {30, 1300}
    MaxChanges = 2
    Bodies = {1, 2}
    Heavy = {2}
    Centers <- TheCenters
    Radii = {0, 1}
    Sizes = {1, 2}
    Bounds <- TheBounds
    ChunkColumns = {0}
    CHUNK_WIDTH = 2
    Meshes = {{}, {1}}
    Types = {"ITEM"}
    Spots <- TheSpots
    MaxEntities = 2
    chunk_size = 2
    Walkers = {"eve", "fay"}
    cell_size_ = 2
    Ranges = {1, 3}
    Tiles = {0, 1, 2}
    Views <- TheViews
    Loaders = {l1, l2}
    Unloaders = {u1}
    load_radius = 1
    load_distance = 2
    high_distance = 0
    Cached = {2}
    initial_pool_size_ = 1
    max_pool_size_ = 2
    MaxFutures = 2
    MaxViews = 1
    MaxUnloads = 1
INVARIANTS
    LandInv
    SkillsInv
    QuestsInv
    CollisionInv
    EntitiesInv
    StreamInv
SYMMETRY Alike
CHECK_DEADLOCK FALSE
