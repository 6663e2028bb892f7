SPECIFICATION Spec
CONSTANTS
  x = x
  y = y
  d1 = d1
  d2 = d2
  e2 = e2
  e1 = e1
  w1 = w1
  Nowhere = Nowhere
  State <- MCState
  Derived <- MCDerived
  Effect <- MCEffect
  When <- MCWhen
  Created <- MCCreated
  Reads <- MCReads
  Writes <- MCWrites
  Resets <- MCResets
  Disposable <- MCGone
  Once <- MCWhen
  UserData <- MCData
  BatchSize = 16
  MaxChanges = 2
INVARIANTS
  TypeOK
  LinksAgree
  DerivedCurrent
  EffectsSettled
PROPERTIES
  RollbackRestores
  OnceFiresOnce
