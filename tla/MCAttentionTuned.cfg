SPECIFICATION Spec
CONSTANT Kernel <- TunedKernels
INVARIANT ResultRight
