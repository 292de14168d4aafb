\* A thread that writes and the user thread: an up ring of two slots, a down ring of
\* three and a command buffer of two characters.  Each ring wraps, fills and empties;
\* read cuts lines up, one call brings several, and a line may fill the buffer.
SPECIFICATION FairConsole
CONSTANTS
  t1 = t1
  t2 = t2
  b1 = b1
  CR = CR
  NoByte = NoByte
  Writers = {t1}
  Readers = {t2}
  user = t2
  Bytes = {b1, CR}
  Calibrate <- CalibrateLine
  UpSize = 2
  DownSize = 3
  MaxLen = 2
  LineSize = 2
INVARIANTS TypeOK ReadNeverWaits
PROPERTIES UpIsQueue DownIsQueue LinesAreInput InputConsumed
