SPECIFICATION Spec
CONSTANT Cores = {"ARCH1"}
INVARIANT EnabledStays
