SPECIFICATION Spec
CONSTANTS
  config = config
  volume1 = volume1
  volume2 = volume2
  varA = varA
  secret1 = secret1
  secret2 = secret2
  path = path
  tz = tz
  v1 = v1
  v2 = v2
  run = run
  perform = perform
  OwnMounts <- MCOwnMounts
  VolumeMounts <- MCVolumeMounts
  EnvCreds <- MCEnvCreds
  FileCreds <- MCFileCreds
  OtherVars <- MCOtherVars
  Values <- MCValues
  Missing = Missing
  OwnEnv <- MCOwnEnv
  ImageEnv <- MCImageEnv
  OwnArgv = run
  Argvs <- MCArgvs
  Unset = Unset
  NoLabel = NoLabel
  Configs <- MCConfigs
PROPERTIES RecreatedForChangesOnly
