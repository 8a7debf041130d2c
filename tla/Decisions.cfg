SPECIFICATION Spec
INVARIANTS BodiesClean SentAsAllowed CredentialUnambiguous ExpandsOnce  BootsVerified HomeIsNamed CredentialInMemory ChangeIsHeard PlanForetells RouteVarsWin
SYMMETRY Alike
\* A decision tries one input and stops; a store stops at its bound.
CHECK_DEADLOCK FALSE
CONSTANTS
Spellings <- MCSpellings
Secrets <- MCSecrets
ScanLetters <- MCScanLetters
RedactLetters = {"x", "y"}
AnchorLen = 2
MaxBody = 5
MaxPiece = 2
SamplePaths <- MCSamplePaths
DocPaths <- MCDocPaths
MaxLeaves = 2
Injects <- MCInjects
Guests <- MCGuests
Creds <- MCCreds
Writers = {w1, w2}
MaxWrites = 3
Boots = {b1, b2}
Digests = {1, 2, 3}
Signed = {1, 2}
Bundles = {1, 2}
Own = 9
MaxMoves = 4
KeptNames = {"h", "k"}
Profiles <- MCProfiles
Pieces = 2
Projects = {"p", "r"}
Contents <- MCContents
Budget = 2
MaxGuest = 2
GuestWords = {"X", "T", "U", "own", "text", "empty"}
