\* Two passwords and two salts; processors around the 8 bits of the threads.
CONSTANTS
  Passwords = {p1, p2}
  Salts = {s1, s2}
  Empty = Empty
  Configs <- MCConfigs
  CPUs = {1, 2, 3, 7, 8, 9, 510, 511, 512, 513, 514, 1024}
SPECIFICATION Spec
SYMMETRY Symmetry
INVARIANTS
  AcceptsExactlyThePassword
  DefaultsHash
