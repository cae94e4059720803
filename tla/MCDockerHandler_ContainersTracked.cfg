CONSTANT replicas = 2
SPECIFICATION Spec
INVARIANT ContainersTracked
