SPECIFICATION Spec
CONSTANT nprocs = 7
INVARIANTS
  OnlyLearnedModelsTravel
  CollectsSubtree
  AllAgainstMaster
PROPERTY Termination
