\* Three plugins, two of them started with the host, and a backoff that can
\* outlast the idle timeout.
SPECIFICATION Spec
CONSTANTS
    Plugins <- MCPlugins
    StartupPlugins <- MCStartupPlugins
    RetryBackoff = 2
    IdleTimeout = 1
INVARIANTS TypeOK RuntimesAreReady NoRuntimeIsReplaced StartupReadiesAll
PROPERTY IdleIsEvicted
