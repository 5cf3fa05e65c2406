SPECIFICATION MigrationsSpec
CONSTANT MaxCrashes = 0
INVARIANT ChangesStayLogged
CHECK_DEADLOCK FALSE
