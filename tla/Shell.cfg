SPECIFICATION Spec
CONSTANTS
    NULL = NULL
    Lines <- SmallLines
    Scripts <- SmallScripts
    Names <- SmallNames
    Dirs <- SmallDirs
    Programs <- SmallPrograms
    Home <- SmallHome
    EnvPath <- SmallEnvPath
    PathEntry <- SmallEntries
    MAX_ARG_NUM = 3
    MAX_SH_VAR_NUM = 3
    MAX_VAR_SIZE = 4
    FreeFds = 3
INVARIANTS TypeOK ParseIsSplit VarsAreAMap PromptIsCurrent ForegroundBeforePrompt
PROPERTY PromptComesBack
CHECK_DEADLOCK FALSE
