SPECIFICATION Spec
CONSTANTS
    MaxIds = 3
    Capacities = {1, 3}
INVARIANTS
    TypeOK
    FieldsAgree
PROPERTY
    AllDelivered
