CONSTANTS
  Contributors = {broker}
  Live = {}
  Notifiers = {broker}
  Readers = {r1}
  Asked = {"ready", "live"}
  Main = Main
  Nobody = Nobody
  Process = Process
  Concurrent = TRUE
  Flaky = FALSE
  CacheTTL = 1
  MaxNow = 0
SPECIFICATION Spec
PROPERTIES PushedStateServed
