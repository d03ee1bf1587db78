\* Two writers, two accounts in one security, one fault.
CONSTANTS
    pos1 = pos1
    pos2 = pos2
    acc1 = acc1
    acc2 = acc2
    stock = stock
    w1 = w1
    w2 = w2
    Positions <- MCPositions
    Accounts <- MCAccounts
    Contracts = {stock}
    AccountOf <- MCAccountOf
    ContractOf <- MCContractOf
    Writers <- MCWriters
    Rebuilders = {"fact", "tick"}
    MaxTick = 2
    MaxVolume = 1
    MaxFacts = 2
    MaxFaults = 1
SPECIFICATION ValuationFairSpec
CHECK_DEADLOCK FALSE
INVARIANTS
    HoldingsAreValued
PROPERTIES
    NothingFallsBack
    Converges
