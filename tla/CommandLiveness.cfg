SPECIFICATION FairSpec
CONSTANTS
  None = None
  c1 = c1  c2 = c2
  Consumer = {c1, c2}
  MessageCount = 2
  Mails <- LiveMails
  MessageId = {"a", "b"}
  Wallet = {"w1", "w2"}
  Key = {"k1", "k2"}
  Request = {"x", "y"}
  MaxReceive = 2
PROPERTIES
  EventuallySettled
