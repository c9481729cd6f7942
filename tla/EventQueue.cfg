SPECIFICATION Spec
CONSTANTS
    p1 = p1
    p2 = p2
    p3 = p3
    Particle = {p1, p2, p3}
    NoParticle = NoParticle
    ProcessStar = ProcessStar
    Level = {1, 2}
    EventUse <- DepthLevels
    PlainUse <- NoDepths
    MaxLinks = 3
SYMMETRY AnyParticle
INVARIANTS
    StoreIsAccounted
PROPERTIES
    ImplementsSortedQueue
    ParticlesDieOnce
