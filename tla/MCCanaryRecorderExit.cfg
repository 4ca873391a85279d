CONSTANTS
    Main = Main
    t1 = t1
    t2 = t2
    t3 = t3
    x = x
    m1 = m1
    m2 = m2
    NoOwner = NoOwner
    SVs = {x}
    Mutexes = {m1, m2}
    Threads = {Main, t1}
    Program <- ExitRaceProgram
    Race = FALSE
SPECIFICATION Spec
PROPERTY NoHookAfterDelete
