SPECIFICATION Spec
CONSTANTS
  Keys = {0, 1, 2}
  Values = {0, 1}
  MAX_LVL = 1
  WordBits = 2
INVARIANTS TypeOK TowersAreSorted SearchFindsLastInsert CounterFollowsContent
