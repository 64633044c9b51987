SPECIFICATION BulkSpec
CONSTANTS
    MaxModifications = 4
    MaxPublications = 5
INVARIANT
    NoOverwriteOfHeld
