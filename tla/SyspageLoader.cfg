\* Up to four items; a page of four bytes and a load offset that is not 0.
SPECIFICATION RamSpec
CONSTANTS
    Page = 4
    Base = 6
    Sizes <- SomeSizes
    MaxItems = 4
INVARIANTS
    AliasIsIntact
