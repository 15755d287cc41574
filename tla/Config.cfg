\* Tables of two verifiers, addresses, parameters and signers of every kind.
SPECIFICATION Spec
CONSTANTS
    Files <- MCFiles
    Envs <- MCEnvs
    Zero = "0"
    HashOf <- MCHashOf
    TooLong = 99
    Requests <- MCRequests
INVARIANTS
    StartsIffAcceptable
    RoutedAsConfigured
CHECK_DEADLOCK FALSE
