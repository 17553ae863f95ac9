SPECIFICATION CompileSpec
CONSTANTS
    SDKs = {"embedded", "full"}
INVARIANTS
    OutageIsNotARejection
    ModuleMeansItCompiled
PROPERTIES
    EveryCompileReturns
