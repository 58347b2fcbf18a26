CONSTANTS
    t1 = t1
    t2 = t2
    s1 = s1
    tb1 = tb1
    n1 = n1
    sh1 = sh1
    sh2 = sh2
    NoSchema = NoSchema
    NoTable = NoTable
    Threads <- MCThreads
    SchemaNames <- MCSchemaNames
    TableNames <- MCTableNames
    NodeNames <- MCNodeNames
    Shards <- MCShards
    Leases <- MCLeases
    Topology <- MCTopology
    MaxID <- MCMaxID

SPECIFICATION Spec

PROPERTY DropTableReturnsDropped
