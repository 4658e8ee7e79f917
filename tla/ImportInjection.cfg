CONSTANTS
    a = a  b = b  f = f  g = g
    useGas = useGas  fadd = fadd  fmul = fmul
    t1 = t1  t2 = t2
    None = None
    Own = {a, b}
    Def = {f, g}
    Injected = {useGas, fadd, fmul}
    UseGas = useGas
    Type = {t1, t2}
    Sig <- MCSig
    Module <- MCModule
    MaxCode = 3
SPECIFICATION Spec
INVARIANTS
    TargetsKept
    ImportsExact
