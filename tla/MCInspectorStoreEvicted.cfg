\* Whether the table keeps what the deque keeps.
SPECIFICATION Spec
CONSTANT
  Deployments <- ReliableDeployments
PROPERTY
  EvictedStayOut
CHECK_DEADLOCK FALSE
