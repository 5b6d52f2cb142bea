SPECIFICATION LSpec
CONSTANTS
  ROW = 2
  COL = 4
  TAB = 2
  WIDTH = 13
  BILLION = 1000
  MAXSTR = 80
  BUFFERSIZE = 10
  MaxOutput = 6
  MaxElements = 7
  Elements = {1, 2, 3}
  MaxLine = 8
  MaxString = 5
  StringSize = 9
INVARIANTS EndsOfInput ScreenIsWindow SortsInPlace PrintedReadsBack WordsOfLine
