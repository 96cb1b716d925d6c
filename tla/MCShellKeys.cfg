CONSTANTS
  LineSize = 4
  Keys = {"a", " ", "left", "right", "bs", "tab", "cr"}
  Commands <- MCCommands
  ArgMax = 2
SPECIFICATION ShellSpec
VIEW ShellView
INVARIANTS OnlyTyped
