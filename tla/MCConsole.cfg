SPECIFICATION Spec
CONSTANTS
  None = None
  Reports = {1, 2}
  LibraryFilters <- AllOrOne
  SUMMARY_CONCURRENCY = 1
  MaxFilters = 3
  MaxVersions = 2
  Sites = {"s1", "s2"}
  Services = {"v1", "v2"}
  SiteOf <- ServiceSites
  Windows <- TwoWindows
  MaxEdits = 2
  MaxPreviews = 2
  ReportIds = {r1, r2}
  MaxReads = 3
  PerfFilters = {f1, f2}
  Endpoints <- ThreeEndpoints
  MaxLoads = 3
  LogIds = {l1, l2}
  MaxNavigations = 4
  Scopes = {s1, s2}
  FieldTexts = {"", "a"}
  MaxSearches = 2
  MaxRows = 1
  FeedbackSites = {"s1", "s2"}
  CampaignIds = {"c1", "c2"}
  CampaignSite <- Campaigns2
  Responses = {"w1"}
  ResponseOf <- Answers2
  MaxLists = 2
  MaxDialogs = 2
  StoredOrders <- OneOrder
  Accents = {"a", "b"}
  Offsets <- SomeOffsets
  MaxSettingEdits = 2
  MaxSettingCalls = 2
  MaxRowIds = 2
  MaxLogRows = 1
  MaxHappens = 3
  SiteKinds = {"tickets", "logs"}
  RuleTexts = {"", " ", "a"}
  RuleSeverities <- NoneOrErrors
  MaxSlackLogMatches = 1
  MaxRules = 2
  MaxSlackEdits = 4
  MaxSaves = 2
  Announcements = {"a1", "a2"}
  AnnouncementSites = {"s1"}
  Readers = {"r1"}
  MaxListings = 2
  MaxErrands = 1
  MaxEngagements = 2
  MaxTicketDialogs = 2
  ServiceIds = {"v1"}
  MaxServiceCalls = 3
INVARIANTS
  ShownIsAsked
  AwaitedComes
  SentAsShown
  IndexFollows
  SettingsAsShown
CHECK_DEADLOCK FALSE
