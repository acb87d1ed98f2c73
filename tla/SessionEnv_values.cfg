SPECIFICATION SessionSpec
CONSTANTS
    VmName = isolarium
    ContainerName = isolarium_container
    NonoName = isolarium_nono
    Names = {isolarium, isolarium_container, isolarium_nono}
    MaxDirs = 1
INVARIANTS
    TypeOK
    CreatedIsFound
    StatusAgrees
    SessionTypeOK
    SessionValue
PROPERTIES
    NoRedirect
