\* The signers of a cosigner and of a data provider, with and without an API key.
SPECIFICATION Spec
CONSTANTS
    Files <- Signers
    Envs <- MCEnvs
    Zero = "0"
    HashOf <- MCHashOf
    TooLong = 99
    Requests <- MCRequests
INVARIANTS
    AcceptableStarts
CHECK_DEADLOCK FALSE
