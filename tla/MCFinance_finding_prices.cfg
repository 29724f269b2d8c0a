SPECIFICATION MCSpec
CONSTANTS
    Workers = {w1, w2}
    t1 = t1
    t2 = t2
    a1 = a1
    a2 = a2
    v1 = v1
    ab = ab
    AB = AB
    Tenants = {t1, t2}
    Accounts = {a1, a2}
    Owner <- MCOwner
    Initial <- MCInitial
    Amounts = {1}
    MaxBalance = 1
    MaxTx = 2
    MaxBatches = 3
    Vendors = {v1}
    Numbers = {1}
    Ttc = 2
    Payments <- MCPayments
    MaxPaid = 3
    Written = {ab, AB}
    Capitals <- MCCapitals
    Entities = {e1, e2}
    Users = {u1}
    MaxRows = 2
    p1 = p1
    p2 = p2
    Products = {p1, p2}
    InvoiceNos = {1, 2}
    Files <- MCFiles
    MaxInvoices = 2
    MaxRuns = 2
    MaxCount = 2
    DocNumbers = {1, 2, 3}
    NoNumber = 0
    MaxPages = 3
    Categories = {c1, c2}
    NoCategory = NoCategory
    Scans <- MCScans
    BatchSize = 2
    MaxUploads = 4
    Bills = {i1, i2}
    Places = {1, 2}
    MaxImports = 3
    oil = oil
    m1 = m1
    m2 = m2
    o1 = o1
    o2 = o2
    Dishware = {oil}
    Goods = {m1, m2, o1, o2}
    MetroGoods = {m1, m2}
    DimNumber <- MCDimNumber
    Keywords <- MCKeywords
    Found <- MCFound
    MaxPerRun = 2
    NoArticle = NoArticle
    MaxNumber = 3
    MaxMade = 2
    rice = rice
    RICE = RICE
    stew = stew
    SpelledNames = {rice, RICE, oil, stew}
    LowerCase <- MCLowerCase
    Template <- MCTemplate
    FileIngredients <- MCFileIngredients
    FileDishes <- MCFileDishes
    FileLines <- MCFileLines
    MaxIds = 4
    Backup <- MCBackup
    Bought = {101, 102}
    NoProduct = 0
    MaxScripts = 4
    n1 = n1
    n2 = n2
    Pdfs <- MCPdfs
    Refs = {1, 2, 3}
    NoRef = 0
    MaxEditions = 3
SYMMETRY Symmetry
CHECK_DEADLOCK FALSE
PROPERTY PriceOfLinked
