\* The shortest way to a hook nobody remembers.
SPECIFICATION AdaptersSpec
CONSTANTS
    Adapter = {a1, a2}
    NoAdapter = none
    Modules <- MCModules
    Broken <- MCBroken
    Unreadable = {}
    MaxLoaded = 2
    MaxHooks = 2
INVARIANT OnlyActiveIsWired
