\* Every isolation level and access mode, the deferrable flag unset, 1
\* (deferrable) and 2 (any other set value: not deferrable).
CONSTANTS
  Isolations = {"none", "serializable", "repeatable_read", "read_commited", "read_uncommited"}
  Types = {"none", "read_write", "read_only"}
  Deferrables = {0, 1, 2}
SPECIFICATION Spec
INVARIANT StartSucceedsWhenIdle
