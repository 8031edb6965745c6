SPECIFICATION Spec
CONSTANTS
    g1 = g1  g2 = g2  g3 = g3  s1 = s1  s2 = s2
    v1beta1 = v1beta1  v1beta2 = v1beta2
    mA = mA  mB = mB
    net = net  uncategorized = uncategorized
    hostA = hostA  hostB = hostB
    enabled = enabled  ignored = ignored
    Goroutine = {g1, g2}
    Server = {s1}
    ServerOf <- OneServerOf
    Api = {v1beta1, v1beta2}
    ModelID = {mA, mB}
    ApiOf <- ApiOfModel
    CategoryName = {net, uncategorized}
    DefaultCategory = uncategorized
    NoName = NoName
    Host = {hostA, hostB}
    e1 = e1  e2 = e2
    EntityID = {e1, e2}
    Status = {enabled, ignored}
    Requests <- TwoHosts
    Faults = {}
    Nil = Nil
INVARIANTS
    CreatesOnlyMissingModel
