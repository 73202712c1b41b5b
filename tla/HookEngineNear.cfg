SPECIFICATION Spec
CONSTANTS
  f1 = f1  f2 = f2
  h1 = h1  h2 = h2  h3 = h3
  Functions <- MCFunctions
  Hooks <- MCHooks
  Symbol <- MCSymbol
  Far = {}
  WithResult = {h1, h2, h3}
  CallsOriginal = {h1, h2}
  Installers = {i1, i2}
  Callers = {c1, c2}
  CodeMemory = FALSE
  MaxBackups = 3
  NoOne = NoOne  NoHook = NoHook  NoFunction = NoFunction
  Null = Null  Game = Game  Empty = Empty  Body = Body  Nothing = Nothing
PROPERTIES ImplementsHookChain ImplementsHookLinks
\* A process that was aborted stops.
CHECK_DEADLOCK FALSE
