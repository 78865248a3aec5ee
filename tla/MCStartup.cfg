SPECIFICATION Spec
CONSTANTS
  Threads = {t1, t2, t3}
  t1 = t1
  t2 = t2
  t3 = t3
  Nobody = Nobody
  DotEnv <- EnvFile
  Preset = {"retries"}
  Traits = {"installFails", "buildFails"}
CHECK_DEADLOCK FALSE
INVARIANTS TypeOK SettingsSeen BuiltWithProvider OneClient
PROPERTIES RaceIsNoError CallsReturn
