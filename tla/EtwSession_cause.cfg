SPECIFICATION Spec
INVARIANT HealthCheckKeepsCause
