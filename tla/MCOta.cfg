CONSTANTS
  Tools = {t1, t2}  NoTool = NoTool
  Configs <- MCConfigs
  CardKeys <- MCCardKeys
  CardTars <- MCCardTars
  Unrelated <- MCUnrelated
  MaxProactive = 2
  MaxChannel = 1
SPECIFICATION Spec
CHECK_DEADLOCK FALSE
INVARIANTS
  CommandArrives
  SignedAnswerIsMine
  AnswerArrives
