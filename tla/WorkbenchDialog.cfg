SPECIFICATION Spec
CONSTANTS
  Root = {app, demo}
  Own = {}
  Demo = {demo}
  Config = {}
  ConfigPort = 0
  Vite = {}
  VitePort = 0
  Setting = 0
  Separate = FALSE
  Port = {5173}
  Sandbox = 3111
  Typed = {3009, 4000}
  Folders = {app, demo}
  Asked = 2
  Panel = {p1}
  Sidebar = sidebar
  Slot = {s1}
  TTL = 1
  Asks = {"visualEdit", "openSeparateWindow", "ready", "popOut", "openNewInstance", "manualConnect", "detectDevServer", "port"}
  None = None
CHECK_DEADLOCK FALSE
PROPERTIES ToldIsFresh
