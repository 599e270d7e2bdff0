CONSTANTS
    MaxEdits = 2
    MaxMaterialisations = 2
INIT PipelineInit
NEXT PipelineNext
CHECK_DEADLOCK FALSE
PROPERTY
    RetryProceeds
