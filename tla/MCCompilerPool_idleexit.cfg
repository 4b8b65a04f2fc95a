SPECIFICATION PromptSpec
CONSTANTS
  Workers = {w1}
  Requests = {r1}
  Closers = {c1}
  QueueCapacity = 1
  None = None
  w1 = w1
  r1 = r1
  c1 = c1
PROPERTIES
  ExitedIsReplaced
