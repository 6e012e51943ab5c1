\* Two venues, one service, professional and slot; two calls, two queries and one of
\* another phone, two messages over two sessions.
CONSTANTS
  Places = {a, b}
  Services = {s1}
  Pros = {p1}
  Slots = {t1}
  None = None
  MaxCalls = 2
  MaxWrites = 1
  MaxTurns = 2
  MaxElsewhere = 1
  MaxSessions = 2
  mario = mario
  gold = gold
  restaurant = restaurant
  gym = gym
  reservations = reservations
  membership = membership
  concierge = concierge
SPECIFICATION ConsumerSpec
SYMMETRY Alike
INVARIANTS
  AllTypeOK
  
  OneOrderEach
  
  
  SettledViewIsLatest
  OneTurnPerQuery
  

  
