\* A bridge whose MCP server the host closes.
CONSTANTS
  Conn = {c1}
SPECIFICATION Spec
PROPERTIES
  McpCloseEndsBridge
