SPECIFICATION MCSpec
CONSTANTS
    Records = {d1, d2}
    Appliers = {a1, a2}
    Writers = {w1, w2}
    Configs = {c1}
    Off = Off
    QueueCapacity = 1
    BatchSize = 1
    None = None
INVARIANT OneWriter
