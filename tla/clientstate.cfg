SPECIFICATION Spec
CONSTANTS
  Procs = {p1, p2}
  Clusters = {a, b}
  Foreign = work
  Contexts = {x, y}
  None = None
  Offered = {"k3d", "qemu", "hetzner", "baremetal"}
  Sizes = {1, 2}
  MaxLives = 2
  MaxCommands = 3
  MaxFaults = 1
SYMMETRY Symmetry
CHECK_DEADLOCK FALSE
INVARIANTS TypeOK KubeconfigAgrees RegistryAgrees
