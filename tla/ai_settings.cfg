SPECIFICATION SettingsSpec
CONSTANTS
    alice = alice
    special = special
    plain = plain
    combo = combo
    w1 = w1
    w2 = w2
    w3 = w3
    Users = {alice}
    Writers = {w1, w2, w3}
    Calls = {c1}
    WrittenKeys = {"ai.chat.provider", "ai.provider", "ai.model", "ai.audio.model"}
    WrittenValues = {"groq", "omniroute", "cloudflare", "junk", plain, combo}
    CallKinds = {"text", "audio", "chat"}
    Models = {special, plain, combo}
    Aliases = {combo}
    DefaultModels <- Defaults
    Configured = {"gemini", "omniroute", "cloudflare"}
    MaxIds = 3
    None = None
SYMMETRY Symmetry
INVARIANTS
    CallResolves
CHECK_DEADLOCK FALSE
