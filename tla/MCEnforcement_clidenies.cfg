SPECIFICATION Spec
CHECK_DEADLOCK FALSE
CONSTANTS
    c1 = c1
    evil = evil
    imds = imds
    read = read
    write = write
    NoHost = NoHost
    Clients = {c1}
    Hosts = {evil, imds}
    Classes = {read, write}
    CliDenies <- Denied
    Profiles <- Written
    NoProfile <- None
    MaxRequests = 1
    MaxChanges = 0
INVARIANT CliDeniesAlwaysApply
