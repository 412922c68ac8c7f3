SPECIFICATION Spec
CONSTANT Cores = {"ARCH1", "ISS"}
INVARIANTS TypeOK SectionsHold TrapJustified EnabledStaysOnIss
