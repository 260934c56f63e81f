SPECIFICATION VoiceSpec
CONSTANTS
    Modems = {"gtm900b", "g600", "uc864e"}
    Words = {"p", "super"}
    Super = "super"
VIEW VoiceView
INVARIANTS
    VoiceTypeOK
    CallIsHeld
    CallHasPhone
    AckedIsStored
PROPERTIES
    PhoneDownEndsCall
    CommandAnswered
    EventEnds
