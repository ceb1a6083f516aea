SPECIFICATION SpecAll
CONSTANTS
    None = None
    Raises = Raises
    Huge = Huge
    NotFinite = NotFinite
    Texts <- MCTexts
    DecimalOf <- MCDecimalOf
    ExponentOf <- MCExponentOf
    DecimalTexts <- MCDecimalTexts
    FloatOf <- MCFloatOf
    NearestFloat <- MCNearestFloat
    VersionOf <- MCVersionOf
    DateOf <- MCDateOf
    IndexOf <- MCIndexOf
    Blank = {"", " "}
    StartsWith <- MCStartsWith
    EndsWith <- MCEndsWith
    Inputs <- MCInputs
    ValidKinds = {"user", "org", "a", "ab", "b"}
    TrueTexts = {"true", "True"}
    FalseTexts = {"false"}
    IntOf <- MCIntOf
    JsonOf <- MCJsonOf
    Slot <- MCSlot
    Plus <- MCPlus
    MaxEdits = 1
    StrOfFloat <- MCStrOfFloat
    TooLong = TooLong
    Options <- MCOptions
    FileOf <- MCFileOf
    ValuesOf <- MCValuesOf
    Defaults <- MCDefaults
INVARIANTS FirstMatchWins ServedOnlyWhenConditionsHold ZeroShareUnreachable
INVARIANTS RolloutKeepsItsContexts ComparisonsConsistent OfflineValuesComeBack
CHECK_DEADLOCK FALSE
