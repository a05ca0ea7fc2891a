SPECIFICATION ChannelSpec
CONSTANTS
  MaxItems = 3
  Finishes = {stop, cancelled}
  Consumers = {c1, c2}
INVARIANT ExactlyOnceInOrder
PROPERTIES EndsOnce NobodyStuck
