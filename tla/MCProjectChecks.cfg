\* Two ports, so that a check and a preview may be handed the same one; one
\* failing script and one mishap (a timeout, an application that dies, a
\* command that throws).  Two requests on a project at once and a third after
\* one of them, a history of two entries, one correction, one crash.  Three
\* requests for accounts of two addresses, two slugs, one of them cut.  Two tabs
\* with three calls, two sessions, one refresh that is lost.  The scenes share
\* their values (a, b1 and b2 for requests and calls, c1 and c2 for ports,
\* files, addresses and tabs) so that one symmetry serves them all.  The system
\* stops once all are done.
CONSTANTS
  Port = {c1, c2}
  NoPort = None
  ScriptSets = {{}, {"seed", "start"}}
  MaxFailing = 1
  MaxMishaps = 1
  MayFail = {"architecture", "seed"}
  None = None
  Creator = a
  Request = {a, b1, b2}
  File = {c1, c2}
  MaxHistory = 2
  GenerationMax = 1
  MaxAtOnce = 2
  MaxCorrections = 1
  MaxServerCrashes = 1
  Visit = {a, b1, b2}
  Person = {c1, c2}
  Nobody = None
  MaxSlugs = 2
  MaxCuts = 1
  Call = {a, b1, b2}
  Tab = {c1, c2}
  NoCall = None
  MaxSessions = 2
  MaxLost = 1
SPECIFICATION MCSpec
SYMMETRY Symmetry
CHECK_DEADLOCK FALSE
INVARIANTS
  ProjectTypeOK
  VerdictIsEarned
  
  
  ActivityTold
  AccountsWhole
  SessionKept
