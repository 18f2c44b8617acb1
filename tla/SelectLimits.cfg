\* Up to four Limits of 0 to 2 Cpus and Gpus, 0 to 3 available.
SPECIFICATION Spec
CONSTANTS
    cpu = cpu
    gpu = gpu
    Dims = {cpu, gpu}
    Width = 2
    Requests = {0, 1, 2}
    MaxLimits = 4
SYMMETRY Symmetry
INVARIANTS
    SelectedFits
    SelectedIsBest
\* The function is called once.
CHECK_DEADLOCK FALSE
