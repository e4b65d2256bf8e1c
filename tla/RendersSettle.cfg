SPECIFICATION SavedFairSpec
CONSTANTS
    Places = {"a"}
    MaxSaved = 1
PROPERTY RendersSettle
