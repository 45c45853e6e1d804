SPECIFICATION Spec
CONSTANTS
  Configs <- ThreeConfigs
  Mails <- SomeMails
  MaxEmails = 4
  Garbled = Garbled
INVARIANT TypeOK
INVARIANT TransferJoinsBothAccounts
INVARIANT CouplesMeet
INVARIANT BestHintDecides
CHECK_DEADLOCK FALSE
