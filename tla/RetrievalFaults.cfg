SPECIFICATION RetrievalSpec
CONSTANTS
    i1 = i1  i2 = i2  here = here  there = there  f = f
    Ingesters = {i1, i2}
    Stores = {here, there}
    Sources = {f}
    Roots <- MCRoots
    Texts <- MCTexts
    Torn = Torn
    ChunkSize = 2
    ChunkOverlap = 1
    MaxFaults = 2
INVARIANTS IndexedWhole CollectionSound
PROPERTIES IngestEnds
