CONSTANTS
    Objects = {l1, l2}
    f1 = f1
    f2 = f2
    Functions <- MCFunctions
    Recompilable = {f1}
    Undefined = Undefined
    Unborn = Unborn
    MaxInsns <- MCMaxInsns
    MaxBuilds = 1
SPECIFICATION Spec
SYMMETRY Symmetry
INVARIANTS TypeOK LabelsAgree
PROPERTIES LabelStable
CHECK_DEADLOCK FALSE
