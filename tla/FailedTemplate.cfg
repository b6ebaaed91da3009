CONSTANTS
    t1 = t1
    t2 = t2
    Thread = {t1, t2}
    Deployments <- Failing
    Script = {s1, s2}
    Tip = {T1, T2}
    MaxTemplates = 4
    None = None
SPECIFICATION Spec
INVARIANTS
    TemplatesKept
