SPECIFICATION Alone
CONSTANTS
  Designs = {"rose"}
  Others = {"mug"}
  Threshold = 2
  Stock = 3
  Requests = {1}
  Kinds = {"add", "personalise", "redesign", "update", "remove", "sell", "checkout", "remind"}
  MaxQty = 2
  MaxEdits = 3
  MaxStalls = 1
  Tabs = {1, 2}
  Countries = {"FR"}
  Fee = 1
  FreeAbove = 4
  MaxOrders = 2
  MaxCalls = 5
  Carts = {"c1"}
  Phones = {"p1", "p2"}
  PhoneRequests = {"r1", "r2"}
  MaxAttempts = 1
  MaxSends = 1
  MaxCodes = 2
  MaxWrong = 3
  MaxCrashes = 1
  Orders = {"o1"}
  WithEmail = {"o1"}
  Workers = {"w1", "w2"}
  JobAttempts <- Tries
  MaxPayments = 2
  MaxNumber = 3
  MaxStops = 1
  Followed = {"o", "q"}
  Emails = {"a"}
  Handsets = {"p"}
  Visitors <- People
  MaxPerHour = 1
  MaxContacts = 1
  MaxOutages = 1
  Browsers = {1, 2}
  Refreshes = {1, 2}
  MaxTokens = 3
  MaxTicks = 1
  MaxFaults = 0
  MaxJobs = 3
  Unreadable = {2}
  Touched = {2}
  Updates = {1, 2}
  Attempts = 1
  Limit = 1
  MaxEvents = 3
CHECK_DEADLOCK FALSE
INVARIANTS ShopTypes  OrderCharged  PhoneProved    StaysSignedIn
