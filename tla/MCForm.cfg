CONSTANTS
  NestingLimit = 2
  Mode = "MODE"
  KbLayout = "USB_KB_LAYOUT"
  Strings <- MCStrings
  Texts <- MCTexts
  Keys <- MCKeys
  Folded <- MCFolded
  Atoi <- MCAtoi
  LowerCopy <- MCLowerCopy
  BeginsYT <- MCBeginsYT
  Default <- MCDefault
  Held <- MCHeld
  Raws <- MCRaws
SPECIFICATION FairSpec
INVARIANTS
  FormTypeOK
  AllOwned
  ParsesJson
  SavedAsAsked
  DecodesJson
PROPERTIES
  Answered
CHECK_DEADLOCK FALSE
