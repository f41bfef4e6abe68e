SPECIFICATION Spec
CONSTANT HardStallFailStreak = 2
PROPERTIES
    ChatInjectedOnce
