SPECIFICATION Spec
CONSTANTS
  p1 = p1  p2 = p2  p3 = p3  c1 = c1  c2 = c2  NoOne = NoOne
  Primitives = {p1}
  SequenceOf <- OneSequence
  Honoured = {p1}
  FirstSequence = 1
  MaxPrimitives = 2
  MaxQueueDepth = 2
  Callers = {c1}
  Hold = 1  Slack = 1  Envelope = 2
  Horizon = 2  MaxTime = 2
  ReleaseOutcomes = {TRUE, FALSE}
  CooperativeSink = TRUE
PROPERTIES ClosedIsTerminal
