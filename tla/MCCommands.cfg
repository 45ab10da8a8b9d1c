SPECIFICATION Spec
CONSTANTS
  Sent <- MCSent
  Builds <- MCBuilds
  Themes <- MCThemes
  Requests <- MCRequests
  InitialHosts <- MCInitialHosts
  Entries <- MCEntries
  MaxCommands = 2
  MaxOthers = 1
  Orders <- MCOrders
  Sids <- MCSids
  Contents <- MCContents
  MaxAssetBytes = 2
  MaxOrders = 2
  MaxSignIns = 1
  Mutations <- MCMutations
  InitialSam <- MCInitialSam
  Groups <- MCGroups
  InitialGroups <- MCInitialGroups
  MaxExpansionDepth = 2
  MaxGroups = 2
  MaxMutations = 2
  MaxChanges = 2
  Payloads <- MCPayloads
  Chains <- MCChains
  Binaries <- MCBinaries
  Hosts = {"hub", "cdn"}
  Signers = {"ours"}
  Tier <- MCTier
  HardMaxBytes = 1
  MaxRedirects = 1
  InitialVersion <- MCInitialVersion
  Reinstalls <- MCReinstalls
  MaxStagings = 2
  MaxFaults = 1
  Roots <- MCRoots
  Trees <- MCAllTrees
  Edits <- MCEdits
  RedNames = {"key"}
  RedSegments = {"ssh"}
  Archives = {"zip"}
  Siblings <- MCSiblings
  MaxDepth = 1
  MaxScans = 1
  MaxEdits = 1
  Asked <- MCAsked
  Machines <- MCAllMachines
  Turns <- MCTurns
  Allowlist <- MCAllowlist
  Volumes <- MCVolumes
  MaxPages = 2
  Cap = 2
  MaxTurns = 1
  MaxAsked = 1
  Renewals <- MCRenewals
  OldFiles <- MCOldFiles
  MaxAttempts = 2
  MaxRenewals = 2
INVARIANTS TypeOK UnsupportedUntouched VerdictHolds PolicyHolds ManifestHonest InventoryHonest RenewalHonest
PROPERTIES EveryCommandAnswered RedeliveryIdle AccountsKept UpdatePlans
CHECK_DEADLOCK FALSE
