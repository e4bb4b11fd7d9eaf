\* Two containers and a deploy command on a fresh database.
SPECIFICATION FairSpec
CONSTANTS
  deploy = deploy
  old = old
  new = new
  NoOne = NoOne
  Migrators = {deploy, old, new}
  Serving = {old, new}
  Known <- MCKnown
INVARIANTS
  TypeOK
  SchemaIsRecorded
  NoneTripsOverAnother
  ServesOnItsSchema
PROPERTIES
  AllComeUp
