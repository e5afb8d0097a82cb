SPECIFICATION LiveSpec
CONSTANTS
  k1 = k1
  h1 = h1
  h2 = h2
  w1 = w1
  w2 = w2
  Keys = {k1}
  Handlers = {h1, h2}
  Passes = {w1, w2}
  MaxAttempts <- Attempts
  MaxResends = 1
  MaxDeaths = 2
  LostAnswers = FALSE
  Prompt = TRUE
INVARIANT TypeOK OneSender SentAtMostOnce
PROPERTY RetriesEnd
CHECK_DEADLOCK FALSE
