SPECIFICATION Spec
CONSTANTS
  Files <- MCFiles
  Changes <- MCChanges
  Unset = Unset
  Modulus = 65536
  Reach = 10000
  Push = 1
  Trajectories <- MCTrajectories
  People <- MCPeople
  Commands <- MCCommands
  Goal <- MCGoal
INVARIANT PeopleRepelled
