CONSTANTS
  Tasks = {t1, t2}
  Vectored = {t2}
  KEY_BUFFER_SIZE = 2
  Codes = {28, 30, 54}
  NoOne = NoOne
  UartBusy = TRUE
  MaxRead = 2
  MaxKeys = 3
SPECIFICATION FairSpec
INVARIANT KeysSound
PROPERTY KeysDrain
