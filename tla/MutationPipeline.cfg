SPECIFICATION Spec
CONSTANTS
    posts = posts  tags = tags  links = links  roles = roles
    p = p  t = t  l = l  role = role
    Resource <- MCResource
    Refs <- MCRefs
    Through <- MCThrough
    Record <- MCRecord
    ResourceOf <- MCResourceOf
    Joins <- MCJoins
    RoleRecord = role
    Browser = {b1}
    Online = {b1}
    View <- MCView
    Mutation = {m1}
    Requests <- AnyRequest
    Registered <- MCRegistered
    m1 = m1  b1 = b1
    MaxDrops = 1
    None = None
INVARIANTS TypeOK ReadYourWrites
PROPERTIES ViewsConverge OwnWritesShown
CHECK_DEADLOCK FALSE
