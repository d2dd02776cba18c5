SPECIFICATION ParserSpec
CONSTANTS
    MaxFailures = 3
    MaxCooldown = 2880
    MinCooldown = 1
    RequestScopedCooldown = 4
    TransportShort = 1
    TransportLong = 2
    JitterPercents = {85, 115}
    Texts <- MCTexts
    Hints <- MCHints
    HttpStatuses <- MCStatuses
INVARIANTS HintsNeverShorten HintsAreHonoured
PROPERTY FreeTierIsScoped
