\* One console, one key; an import may be tried without an export.
SPECIFICATION RegistrySpec
CONSTANTS
  Consoles = {c1}
  Keys = {1}
  Missing = TRUE
INVARIANT RestoresIfPresent
