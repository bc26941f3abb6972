\* Deadlock is not checked: once the bounds are reached the model is done.
SPECIFICATION Spec
CONSTANTS
    MaxFiled = 3
    PageSize = 2
    MaxPage = 1
    MaxLoads = 1

    i1 = i1  i2 = i2
    Items = {i1, i2}
    MaxLines = 1
    MaxBeside = 1

    Issued = {"p"}
    TaskPlaces = {1, 2, 3}
    MaxDeeds = 4

SYMMETRY Alike
INVARIANTS
    PageIsOfTheList
    PdfIsCurrent InputIsForTheOneOpened
    ConfirmedForItsTask
CHECK_DEADLOCK FALSE
