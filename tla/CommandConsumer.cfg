SPECIFICATION Spec
CONSTANTS
  None = None
  c1 = c1  c2 = c2
  Consumer = {c1, c2}
  MessageCount = 2
  Mails <- TwoMails
  MessageId = {"a", "b"}
  Wallet = {"w1", "w2"}
  Key = {"k1", "k2"}
  Request = {"x", "y"}
  MaxReceive = 3
SYMMETRY Symmetric
INVARIANTS
  TypeOK
  InboxIsExact
  CommandsOrdered
PROPERTIES
  ImplementsDelivery
