SPECIFICATION Spec
CONSTANTS
    Size = 4
    Width = 4
    BaseOwner = {}
    QtOwner = {q1}
    DpdOwner = {d1}
PROPERTIES ImplementsTaskQueue
