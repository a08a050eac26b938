\* One configuration item and two links, the first of a device that is not
\* enabled; client 2 comes late and may leave.
SPECIFICATION FairSpec
CONSTANTS
    Conf = {1}
    Links = {2, 3}
    Client = {1, 2}
    MaxSet = 2
    MaxChange = 2
    MaxEvents = 2
    Disabled = {2}
    MaxRef = 2
    Late = {2}
    Leaves = {2}
CHECK_DEADLOCK FALSE
INVARIANTS NoticeNotLost WritesArrive LinksArrive
PROPERTIES DeletingEnds
