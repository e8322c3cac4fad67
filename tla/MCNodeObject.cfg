SPECIFICATION FairSpec
CONSTANTS
    HostUpgrades = HostUpgrades
    HostUpgradesReboot = HostUpgradesReboot
    UpToDate = UpToDate
    Rebooting = Rebooting
    Keys = {drain, reboot}
    Conditions <- MCConditions
    Reasons <- MCReasons
    Changes <- MCChanges
    Steps = 4
INVARIANTS
    TypeOK
PROPERTIES
    ImplementsService
    CallsEnd
