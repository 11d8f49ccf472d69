CONSTANTS
    Passphrase = {w1, w2}
    NoPassphrase = NoPassphrase
    Path = {b1}
    Output = {o1}
    Restorer = {r1, r2}
    MaxContent = 1
    Faults = {"crash", "power", "Storage", "InvalidInput", "remove"}
SYMMETRY Symmetry
SPECIFICATION Spec
INVARIANTS
    FTypeOK
    PassphraseKnown
    BackupKept
    PublishedWhole
    RestoredAsManifest
    FilesInv
PROPERTIES
    NeverOverwritten
