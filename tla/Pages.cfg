SPECIFICATION Spec
CONSTANTS
  None = None
  Envs = {"a", "b"}
  Credentials = {"token", "ssh", "env"}
  Doings = {{"create","others","a"}, {"create","a","b"}, {"look","others","a"}, {"act","operator","others","a"}, {"credentials","others","rows","a","b"}, {"credentials","operator","others","a"}}
  Services = {"s", "t"}
  Counts = {1, 2}
  SvcDoings = {{"deploy","s","t"}, {"look","others","s"}, {"scale","rows","others","s","t"}, {"filter","operator","others","s"}, {"delete","others","s"}}
  MaxVersion = 3
  MaxReqs = 2
  MaxMishaps = 1
  TaskIds = {"p", "q", "r", "z"}
  Templates <- TwoTemplates
  TaskDoings = {{"create","templates"}, {"toggle","twice","others","p"}, {"reports","run","scheduler","q"}, {"reports","scheduler","p","q"}, {"mount","delete","reports","p","z"}, {"reports","scheduler","others","p"}}
  MaxRuns = 2
  MaxFormEdits = 3
CHECK_DEADLOCK FALSE
INVARIANTS CredentialIsTheRows KeysAreOnTheirWay RetriesAgree
PROPERTIES ListNeverGoesBack CreatedIsOpened ScalingIsSound ListsConverge TaskAsConfirmed
