CONSTANTS
    Arguments <- SomeArguments
    Texts <- SomeTexts
    IntOf <- SomeIntOf
    NotAnInteger = NotAnInteger
    Snippets <- SomeSnippets
    Invocations <- SomeInvocations
    Runtime <- OneRuntimeSource
    Defines <- SomeDefines
    Hooks <- SomeHooks
SPECIFICATION Spec
CHECK_DEADLOCK FALSE
INVARIANTS
    SeedsAreDistinct
    EverySeedAskedFor
    PlanIsTheSuite
    LinkFailsForCause
    FiniOncePerSnippet
    CodeIsTheEvidence
