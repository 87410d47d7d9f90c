CONSTANTS
  Word <- MCWord
  Letter <- MCLetter
  First <- MCFirst
  Discriminator = {"state"}
  Catalogs <- MCCatalogs
  StartTolerance = 30
  EditionDays = 30
  TextDays = 10
SPECIFICATION Spec
CHECK_DEADLOCK FALSE
INVARIANTS OneToOne LostForCause HedgePays LinesKeepTheirGame
