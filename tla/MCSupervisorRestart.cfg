\* A half-open probe whose restart fails, with a handle that notices exits.
SPECIFICATION Spec
CONSTANTS
    Handles = {"watched"}
    MaxCount = 1
    FailureThreshold = 1
    ResetTimeout = 1
PROPERTY RestartsResume
