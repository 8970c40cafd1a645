SPECIFICATION AssistantSpec
INVARIANT
  BackendStays
