\* Two tool calls on a machine in seven states.
SPECIFICATION Spec
CONSTANTS
    old = old
    new = new
    system = system
    jdk = jdk
    Calls = {c1, c2}
    NoEngine = NoEngine
    SearchRoots <- MCSearchRoots
    Machines <- MCMachines
    Layouts <- MCLayouts
SYMMETRY Symmetry
INVARIANTS
    TypeOK
    EngineOfLibrary
    FreshReport
    HealthTruthful
    SchemaSaid
