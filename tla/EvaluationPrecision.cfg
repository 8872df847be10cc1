CONSTANTS
    Need = {n1, n2}
    DocId = {d1, d2, d3}
    MAX_RES_NEED = 3
    AtK = 2
SPECIFICATION Spec
INVARIANTS PrecisionOfTheLastPoint
SYMMETRY EvaluationSymmetry
CHECK_DEADLOCK FALSE
