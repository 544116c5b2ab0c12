CONSTANTS
  Archives = {a1}
  Readers = {reader}
  Loader = loader
  NoArchive = NoArchive
  Chunks = 2
  Conditions <- Undisturbed
  MaxEvents = 3
SPECIFICATION Spec
INVARIANT GenerationSpecific
