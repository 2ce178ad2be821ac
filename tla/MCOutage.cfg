CONSTANTS
  Threshold = 3
  CoolDown = 2
  Handlers = {h1, h2}
  Poller = poller
  Symbols = {s1}
  OutageAnswers = {"empty"}
SPECIFICATION Spec
PROPERTIES OutageNoticed
