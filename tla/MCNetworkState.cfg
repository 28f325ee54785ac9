SPECIFICATION NetworkSpec
CONSTANTS
  u1 = u1
  u2 = u2
  n0 = n0
  n1 = n1
  n2 = n2
  n3 = n3
  chan1 = chan1
  chan2 = chan2
  acct = acct
  t0 = t0
  t1 = t1
  Bot = Bot
  Off = Off
  NoNick = NoNick
  NoTopic = t0
  NoAccount = NoAccount
  BotNick = n0
  Nicks <- MCNicks
  Chans <- MCChans
  Others <- MCOthers
  Accounts <- MCAccounts
  Home <- MCHome
  OpModes <- MCOpModes
  VoiceModes <- MCVoiceModes
  Topics <- TwoTopics
  Starts <- MCStarts
  Concerns <- MCConcerns
  MaxWire = 1
INVARIANTS
  PictureIsTrue
  PictureIsSound
CHECK_DEADLOCK FALSE
