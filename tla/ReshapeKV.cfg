SPECIFICATION Spec
CONSTANTS
    MaxRows = 4
    MaxKV = 5
    Zero = Zero
    Cell <- MCCell
    Contents <- MCContents
INVARIANTS TypeOK ValidTokensPreserved ComputesRestride
