SPECIFICATION ClaimSpec
CONSTANTS
    Slots <- MCSlots
    Subjects = {tenant, other}
    Owner = tenant
    None = None
    Window = 1
    MaxTime = 1
    MaxBoots = 2
INVARIANT CleanupConfirmsExit
