SPECIFICATION Spec
CONSTANTS
  grid = grid
  house1 = house1
  house2 = house2
  house3 = house3
  agent1 = agent1
  agent2 = agent2
  agent3 = agent3
  pv = pv
  load = load
  device = device
  Markets = {grid, house1, house2}
  Agents = {agent1, agent2}
  Assets = {pv, load, device}
  Lower <- LowerMarkets
  Higher <- HigherMarkets
  Home <- Homes
  Energies = {2}
  Settings <- MCSettings
INVARIANTS
  NoExceptionEscapes
  CopiesAreBacked
  NotListedTwice
  EnergyConserved
PROPERTY
  ExchangeContract
