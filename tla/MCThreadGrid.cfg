SPECIFICATION Spec
CONSTANT Kernel <- AllKernels
INVARIANTS
  TypeOK
  RaceFree
  ResultRight
  NoBankConflict
  KernelsSeparated
PROPERTY AllThreadsFinish
