\* Five identifiers, three names, pages of one.
CONSTANTS
    Id = {1, 2, 3, 4, 5}
    Name = {"a", "b", "c"}
    PageSize = 1
    MaxFailures = 1
SPECIFICATION FairSpec
INVARIANTS TypeOK FindIsAtomic
PROPERTIES FindReturns
