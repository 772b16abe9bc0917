SPECIFICATION FairMigrationSpec
CONSTANTS
  Procs = {"daemon", "replay", "second"}
  MaxCrashes = 2
INVARIANTS MigrationTypeOK OpenMeansComplete
PROPERTY EveryoneOpens
