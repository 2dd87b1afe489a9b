SPECIFICATION Spec
CONSTANTS
  caller = caller
  render1 = render1
  render2 = render2
  tag = tag
  u = u
  v = v
  Obj = {caller, render1, render2, tag}
  Key = {"class", "id", "p"}
  Merged = {"class"}
  Attr = {"id"}
  Val = {u, v}
  Jobs <- MCJobs
  Unset = Unset
  Nil = Nil
INVARIANTS
  TypeOK
  ListIsOrder
PROPERTIES
  SourceIntact
  OrderedSpec
